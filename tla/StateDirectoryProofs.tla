------------------------ MODULE StateDirectoryProofs ------------------------
(***************************************************************************)
(* Proofs about what is kept in the state directory: the invitations and   *)
(* the trusted peers (Admission), for any set of peers and tickets, any    *)
(* limits and any number of crashes and failed syncs; and the identity     *)
(* (IdentityStore), for any number of processes, starts, keys and crashes, *)
(* under the operator's care (Careful).                                    *)
(***************************************************************************)
EXTENDS Admission, IdentityStore, FiniteSetTheorems, SequenceTheorems, TLAPS

-----------------------------------------------------------------------------
(***************************************************************************)
(* Admission                                                               *)
(***************************************************************************)
\* What a request that presents a ticket has done to it: the ticket is not on
\* disk once it was removed, the removal is durable before the request gets any
\* further, and nobody else was admitted by it.
HandlerInv ==
    handler # NoHandler =>
        /\ handler.ticket # NoTicket => handler.ticket \in issued
        /\ handler.step \in {"remove", "sync", "admit"} => handler.ticket # NoTicket
        /\ handler.step = "sync" => handler.ticket \in unsyncedRemovals \ tickets
        /\ handler.ticket # NoTicket /\ handler.step \in {"admit", "write", "reply"} =>
            /\ handler.ticket \notin tickets \cup unsyncedRemovals
            /\ \A a \in admittedBy : a[1] # handler.ticket
        /\ handler.step = "reply" => handler.peer \in peerFiles

\* Tickets on disk, or that a crash may bring back, were issued and have admitted
\* nobody.
DiskInv ==
    /\ tickets \cup unsyncedRemovals \subseteq issued
    /\ \A a \in admittedBy : a[1] \in issued /\ a[1] \notin tickets \cup unsyncedRemovals

\* A request without a ticket is one of a trusted peer.
RequestInv ==
    handler # NoHandler /\ handler.ticket = NoTicket => handler.peer \in trust

IInv ==
    /\ TypeOK
    /\ HandlerInv
    /\ RequestInv
    /\ DiskInv
    /\ TicketAdmitsOnePeer
    /\ MemberStaysTrusted
    /\ trust \subseteq peerFiles

-----------------------------------------------------------------------------
\* The initial state of Admission satisfies the inductive invariant.
LEMMA InitIInv == Init => IInv
  BY DEF Init, IInv, TypeOK, HandlerInv, RequestInv, DiskInv, TicketAdmitsOnePeer, MemberStaysTrusted,
         JoinerStates

\* Every step of the invite command, of a joining node and of the daemon keeps
\* the types.
LEMMA NextTypeOK == TypeOK /\ [Next]_vars => TypeOK'
<1> SUFFICES ASSUME TypeOK, [Next]_vars PROVE TypeOK'
  OBVIOUS
<1> USE DEF TypeOK, disk
<1>1. CASE UNCHANGED vars
  BY <1>1 DEF vars
<1>0. CASE InviteFails
  BY <1>0 DEF InviteFails
<1>2. ASSUME NEW t \in Tickets, InviteStore(t) PROVE TypeOK'
  BY <1>2 DEF InviteStore, Synced
<1>3. ASSUME NEW t \in Tickets, Expire(t) PROVE TypeOK'
  BY <1>3 DEF Expire
<1>4. ASSUME NEW p \in Peers, NEW t \in Tickets \cup {NoTicket}, JoinRequest(p, t)
      PROVE  TypeOK'
  BY <1>4 DEF JoinRequest, Handlers, Steps, JoinerStates
<1>5. ASSUME NEW p \in Peers, BecomeMember(p) \/ GiveUp(p) PROVE TypeOK'
  BY <1>5 DEF BecomeMember, GiveUp, JoinerStates
<1> USE DEF At, Continue, Reject, Handlers, Steps, JoinerStates
<1>6. CASE RemoveTicket
  BY <1>6 DEF RemoveTicket
<1>7. CASE SyncTicket \/ ConsumeFails
  BY <1>7 DEF SyncTicket, Synced, ConsumeFails
<1>8. CASE CheckExpiry
  BY <1>8 DEF CheckExpiry
<1>9. CASE WritePeer
  BY <1>9 DEF WritePeer, FilesWith
<1>10. CASE AddAndReply
  BY <1>10 DEF AddAndReply, Synced
<1>11. CASE AddFails
  BY <1>11 DEF AddFails
<1>12. CASE Crash
  <2>1. PICK back \in SUBSET unsyncedRemovals : tickets' = tickets \cup back
    BY <1>12 DEF Crash
  <2>2. PICK lost \in SUBSET unsyncedPeers : peerFiles' = peerFiles \ lost
    BY <1>12 DEF Crash
  <2>3. crashes' \in Nat
    BY <1>12 DEF Crash
  <2> QED
    BY <1>12, <2>1, <2>2, <2>3 DEF Crash
<1>13. CASE Restart
  BY <1>13 DEF Restart
<1> QED
  BY <1>0, <1>1, <1>2, <1>3, <1>4, <1>5, <1>6, <1>7, <1>8, <1>9, <1>10, <1>11, <1>12, <1>13 DEF Next

\* No step lets a ticket be used twice: the facts about the ticket being consumed
\* and about the tickets on disk are kept together with it.
LEMMA NextTickets ==
    IInv /\ [Next]_vars => HandlerInv' /\ DiskInv' /\ TicketAdmitsOnePeer'
<1> DEFINE Goal == HandlerInv' /\ DiskInv' /\ TicketAdmitsOnePeer'
<1> SUFFICES ASSUME IInv, [Next]_vars PROVE Goal
  OBVIOUS
<1> USE TicketsAssumption DEF IInv, TypeOK, HandlerInv, DiskInv, TicketAdmitsOnePeer, disk
<1>1. CASE UNCHANGED vars
  BY <1>1 DEF vars
<1>0. CASE InviteFails
  BY <1>0 DEF InviteFails, StateLockHeld, Handlers
<1>2. ASSUME NEW t \in Tickets, InviteStore(t) PROVE Goal
  BY <1>2 DEF InviteStore, Synced, StateLockHeld, Handlers
<1>3. ASSUME NEW t \in Tickets, Expire(t) PROVE Goal
  BY <1>3 DEF Expire
<1>4. ASSUME NEW p \in Peers, NEW t \in Tickets \cup {NoTicket}, JoinRequest(p, t)
      PROVE  Goal
  BY <1>4 DEF JoinRequest
<1>5. ASSUME NEW p \in Peers, BecomeMember(p) \/ GiveUp(p) PROVE Goal
  BY <1>5 DEF BecomeMember, GiveUp
<1> USE DEF At, Continue, Reject, Handlers, Steps
<1>6. CASE RemoveTicket
  BY <1>6 DEF RemoveTicket
<1>7. CASE SyncTicket \/ ConsumeFails
  BY <1>7 DEF SyncTicket, Synced, ConsumeFails
<1>8. CASE CheckExpiry
  BY <1>8 DEF CheckExpiry
<1>9. CASE WritePeer
  BY <1>9 DEF WritePeer, FilesWith
<1>10. CASE AddAndReply
  BY <1>10 DEF AddAndReply, Synced
<1>11. CASE AddFails
  BY <1>11 DEF AddFails
<1>12. CASE Crash
  BY <1>12 DEF Crash
<1>13. CASE Restart
  BY <1>13 DEF Restart
<1> QED
  BY <1>0, <1>1, <1>2, <1>3, <1>4, <1>5, <1>6, <1>7, <1>8, <1>9, <1>10, <1>11, <1>12, <1>13 DEF Next

\* No step takes trust from a node that was told it is accepted.
LEMMA NextMembers ==
    IInv /\ [Next]_vars => MemberStaysTrusted' /\ (trust \subseteq peerFiles)' /\ RequestInv'
<1> DEFINE Goal == MemberStaysTrusted' /\ (trust \subseteq peerFiles)' /\ RequestInv'
<1> SUFFICES ASSUME IInv, [Next]_vars PROVE Goal
  OBVIOUS
<1> USE DEF IInv, TypeOK, MemberStaysTrusted, RequestInv, disk
<1>1. CASE UNCHANGED vars
  BY <1>1 DEF vars
<1>0. CASE InviteFails
  BY <1>0 DEF InviteFails
<1>2. ASSUME NEW t \in Tickets, InviteStore(t) \/ Expire(t) PROVE Goal
  BY <1>2 DEF InviteStore, Synced, Expire
<1>3. ASSUME NEW p \in Peers, NEW t \in Tickets \cup {NoTicket}, JoinRequest(p, t)
      PROVE  Goal
  BY <1>3 DEF JoinRequest
<1>4. ASSUME NEW p \in Peers, BecomeMember(p) \/ GiveUp(p) PROVE Goal
  BY <1>4 DEF BecomeMember, GiveUp
<1> USE DEF At, Continue, Reject, Handlers
<1>5. CASE RemoveTicket
  BY <1>5 DEF RemoveTicket
<1>6. CASE SyncTicket \/ ConsumeFails
  BY <1>6 DEF SyncTicket, Synced, ConsumeFails
<1>7. CASE CheckExpiry
  BY <1>7 DEF CheckExpiry
<1>8. CASE WritePeer
  BY <1>8 DEF WritePeer, FilesWith
<1>9. CASE AddAndReply
  BY <1>9 DEF AddAndReply, Synced, HandlerInv
<1>10. CASE AddFails
  BY <1>10 DEF AddFails
<1>11. CASE Crash
  BY <1>11 DEF Crash
<1>12. CASE Restart
  BY <1>12 DEF Restart
<1> QED
  BY <1>0, <1>1, <1>2, <1>3, <1>4, <1>5, <1>6, <1>7, <1>8, <1>9, <1>10, <1>11, <1>12 DEF Next

-----------------------------------------------------------------------------
\* The inductive invariant holds in every reachable state of Admission.
THEOREM AdmissionInvariant == Spec => []IInv
<1>1. Init => IInv
  BY InitIInv
<1>2. IInv /\ [Next]_vars => IInv'
  BY NextTypeOK, NextTickets, NextMembers DEF IInv
<1> QED
  BY <1>1, <1>2, PTL DEF Spec

\* The tables, the files on disk and the joining nodes keep their types, and no
\* admission's file is waiting to be synced that is not there.
THEOREM AdmissionTypes == Spec => []TypeOK
<1>1. IInv => TypeOK
  BY DEF IInv
<1> QED
  BY <1>1, AdmissionInvariant, PTL

\* An invitation admits at most one peer, whatever happens to the daemon, to the
\* disk and to the joining nodes (invite_consume before trust_add).
THEOREM TicketsAreSingleUse == Spec => []TicketAdmitsOnePeer
<1>1. IInv => TicketAdmitsOnePeer
  BY DEF IInv
<1> QED
  BY <1>1, AdmissionInvariant, PTL

\* A node that was accepted is trusted by the inviter from then on, through any
\* crash (trust_add is durable before JOIN_RESPONSE is sent).
THEOREM AcceptedStaysTrusted == Spec => []MemberStaysTrusted
<1>1. IInv => MemberStaysTrusted
  BY DEF IInv
<1> QED
  BY <1>1, AdmissionInvariant, PTL

-----------------------------------------------------------------------------
\* The steps of Admission do to the book what Invitations allows.  A step that
\* leaves the files, the tickets and the accepted peers alone leaves the book alone.
LEMMA BookAlone ==
    ASSUME UNCHANGED <<issued, tickets, unsyncedRemovals, peerFiles>>,
           BeingUsed' = BeingUsed, Told' = Told
    PROVE  [Book!Next]_(Book!vars)
  BY DEF Book!vars, Usable

\* A step that only makes tickets useless lets them lapse.
LEMMA BookLapses ==
    ASSUME UNCHANGED <<issued, peerFiles>>, Usable' \subseteq Usable, Told' = Told
    PROVE  [Book!Next]_(Book!vars)
  BY DEF Book!Next, Book!Lapse

\* A rejection tells nobody that it is accepted.
LEMMA RejectTells == ASSUME TypeOK, handler # NoHandler, Reject PROVE Told' = Told /\ BeingUsed' = {}
<1>1. handler.peer \in Peers /\ DOMAIN joiner = Peers
  BY DEF TypeOK, Handlers
<1>2. \A p \in Peers : joiner'[p] \in {"accepted", "member"} <=> joiner[p] \in {"accepted", "member"}
  BY <1>1 DEF Reject
<1> QED
  BY <1>2 DEF Told, Reject, BeingUsed

LEMMA BookStep == IInv /\ [Next]_vars => [Book!Next]_(Book!vars)
<1> SUFFICES ASSUME IInv, [Next]_vars PROVE [Book!Next]_(Book!vars)
  OBVIOUS
<1>0. TypeOK /\ HandlerInv /\ RequestInv /\ DiskInv /\ MemberStaysTrusted /\ trust \subseteq peerFiles
  BY DEF IInv
<1>1. CASE UNCHANGED vars
  BY <1>1, BookAlone DEF vars, disk, BeingUsed, Told
<1>2. ASSUME NEW t \in Tickets, InviteStore(t) PROVE [Book!Next]_(Book!vars)
  <2>1. UNCHANGED <<peerFiles, handler, joiner>>
    BY <1>2 DEF InviteStore
  <2>2. BeingUsed' = BeingUsed /\ Told' = Told
    BY <2>1 DEF BeingUsed, Told
  <2>3. CASE Cardinality(tickets \ expired) < MaxActive
    <3>1. /\ tickets' = (tickets \ expired) \cup {t} /\ unsyncedRemovals' = {}
          /\ issued' = issued \cup {t} /\ t \notin issued
      BY <1>2, <2>3 DEF InviteStore, Synced
    <3> DEFINE left == (tickets \ expired) \cup BeingUsed
    <3>2. left \in SUBSET Usable /\ Usable' = left \cup {t}
      BY <2>2, <3>1 DEF Usable
    <3>3. Book!Issue(t)
      BY <2>1, <2>2, <3>1, <3>2 DEF Book!Issue
    <3> QED BY <3>3 DEF Book!Next
  <2>4. CASE ~(Cardinality(tickets \ expired) < MaxActive)
    <3>1. /\ tickets' = tickets \ expired /\ issued' = issued
          /\ unsyncedRemovals' = unsyncedRemovals \cup (tickets \cap expired)
      BY <1>2, <2>4 DEF InviteStore
    <3> QED BY <2>1, <2>2, <3>1, BookLapses DEF Usable
  <2> QED BY <2>3, <2>4
<1>3. CASE InviteFails
  <2>1. UNCHANGED <<peerFiles, issued, handler, joiner>>
        /\ tickets' \cup unsyncedRemovals' \subseteq tickets \cup unsyncedRemovals
    BY <1>3 DEF InviteFails
  <2> QED BY <2>1, BookLapses DEF Usable, BeingUsed, Told
<1>4. ASSUME NEW t \in Tickets, Expire(t) PROVE [Book!Next]_(Book!vars)
  BY <1>4, BookAlone DEF Expire, disk, BeingUsed, Told
<1>5. ASSUME NEW p \in Peers, NEW t \in Tickets \cup {NoTicket}, JoinRequest(p, t)
      PROVE  [Book!Next]_(Book!vars)
  <2>1. UNCHANGED <<issued, tickets, unsyncedRemovals, peerFiles>> /\ handler = NoHandler
    BY <1>5 DEF JoinRequest, disk
  <2>2. BeingUsed = {} /\ BeingUsed' = {}
    BY <1>5, <2>1 DEF JoinRequest, BeingUsed
  <2>3. \A q \in Peers : joiner'[q] \in {"accepted", "member"} <=> joiner[q] \in {"accepted", "member"}
    BY <1>0, <1>5 DEF JoinRequest, TypeOK
  <2>4. Told' = Told
    BY <2>3 DEF Told
  <2> QED BY <2>1, <2>2, <2>4, BookAlone
<1>6. ASSUME NEW p \in Peers, BecomeMember(p) PROVE [Book!Next]_(Book!vars)
  <2>1. \A q \in Peers : joiner'[q] \in {"accepted", "member"} <=> joiner[q] \in {"accepted", "member"}
    BY <1>0, <1>6 DEF BecomeMember, TypeOK
  <2> QED BY <1>6, <2>1, BookAlone DEF BecomeMember, disk, BeingUsed, Told
<1>7. ASSUME NEW p \in Peers, GiveUp(p) PROVE [Book!Next]_(Book!vars)
  <2>1. \A q \in Peers : joiner'[q] \in {"accepted", "member"}
                           <=> joiner[q] \in {"accepted", "member"} /\ q # p
    BY <1>0, <1>7 DEF GiveUp, TypeOK
  <2>2. Told' = Told \ {p}
    BY <2>1 DEF Told
  <2>3. Usable' = Usable /\ UNCHANGED <<issued, peerFiles>>
    BY <1>7 DEF GiveUp, disk, Usable, BeingUsed
  <2> QED BY <2>2, <2>3 DEF Book!Next, Book!GiveUp
<1>8. CASE RemoveTicket
  <2>1. UNCHANGED <<issued, peerFiles>> /\ handler # NoHandler /\ handler.step = "remove"
    BY <1>8 DEF RemoveTicket, At
  <2>2. CASE handler.ticket \in tickets
    <3>1. /\ tickets' = tickets \ {handler.ticket} /\ joiner' = joiner
          /\ unsyncedRemovals' = unsyncedRemovals \cup {handler.ticket}
          /\ handler'.ticket = handler.ticket
      BY <1>0, <1>8, <2>1, <2>2 DEF RemoveTicket, Continue, TypeOK, Handlers
    <3>2. Usable' \subseteq Usable
      BY <2>2, <3>1 DEF Usable, BeingUsed
    <3> QED BY <2>1, <3>1, <3>2, BookLapses DEF Told
  <2>3. CASE handler.ticket \notin tickets
    <3>1. Reject /\ UNCHANGED <<tickets, unsyncedRemovals>>
      BY <1>8, <2>3 DEF RemoveTicket
    <3> QED BY <1>0, <2>1, <3>1, RejectTells, BookLapses DEF Usable
  <2> QED BY <2>2, <2>3
<1>9. CASE SyncTicket
  <2>1. /\ UNCHANGED <<issued, tickets, peerFiles, joiner>> /\ unsyncedRemovals' = {}
        /\ handler # NoHandler /\ handler.step = "sync" /\ handler'.ticket = handler.ticket
    BY <1>0, <1>9 DEF SyncTicket, Synced, At, Continue, TypeOK, Handlers
  <2>2. BeingUsed' \subseteq BeingUsed
    BY <2>1 DEF BeingUsed
  <2> QED BY <2>1, <2>2, BookLapses DEF Usable, Told
<1>10. CASE ConsumeFails \/ AddFails
  <2>1. UNCHANGED <<issued, tickets, unsyncedRemovals, peerFiles>> /\ Reject /\ handler # NoHandler
    BY <1>10 DEF ConsumeFails, AddFails, At, disk
  <2> QED BY <1>0, <2>1, RejectTells, BookLapses DEF Usable
<1>11. CASE CheckExpiry
  <2>1. /\ UNCHANGED <<issued, tickets, unsyncedRemovals, peerFiles>>
        /\ handler # NoHandler /\ handler.step = "admit"
        /\ Reject \/ (Continue("write") /\ UNCHANGED joiner)
    BY <1>11 DEF CheckExpiry, At, disk
  <2>2. CASE Reject
    BY <1>0, <2>1, <2>2, RejectTells, BookLapses DEF Usable
  <2>3. CASE Continue("write") /\ UNCHANGED joiner
    <3>1. handler'.ticket = handler.ticket
      BY <1>0, <2>1, <2>3 DEF Continue, TypeOK, Handlers
    <3>2. BeingUsed' \subseteq BeingUsed
      BY <2>1, <3>1 DEF BeingUsed
    <3> QED BY <2>1, <2>3, <3>2, BookLapses DEF Usable, Told
  <2> QED BY <2>1, <2>2, <2>3
<1>12. CASE WritePeer
  <2>1. /\ UNCHANGED <<issued, tickets, unsyncedRemovals>>
        /\ handler # NoHandler /\ handler.step = "write"
        /\ handler.peer \in Peers /\ handler.ticket \in Tickets \cup {NoTicket}
    BY <1>0, <1>12 DEF WritePeer, At, TypeOK, Handlers
  <2>2. CASE Reject /\ UNCHANGED peerFiles
    BY <1>0, <2>1, <2>2, RejectTells, BookLapses DEF Usable
  <2>3. CASE peerFiles' = peerFiles \cup {handler.peer} /\ Continue("reply") /\ UNCHANGED joiner
    <3>1. handler' # NoHandler => handler'.step = "reply"
      BY <1>0, <2>1, <2>3 DEF Continue, TypeOK, Handlers
    <3>2. BeingUsed' = {} /\ Told' = Told
      BY <2>3, <3>1 DEF BeingUsed, Told
    <3>3. CASE handler.ticket = NoTicket
      <4>1. peerFiles' = peerFiles /\ BeingUsed = {}
        BY <1>0, <2>1, <2>3, <3>3 DEF RequestInv, BeingUsed
      <4> QED BY <2>1, <3>2, <4>1, BookAlone
    <3>4. CASE handler.ticket # NoTicket
      <4>1. BeingUsed = {handler.ticket} /\ handler.ticket \notin tickets \cup unsyncedRemovals
        BY <1>0, <2>1, <3>4 DEF BeingUsed, HandlerInv
      <4>2. handler.ticket \in Usable /\ Usable' = Usable \ {handler.ticket}
        BY <2>1, <3>2, <4>1 DEF Usable
      <4>3. Book!Admit(handler.ticket, handler.peer)
        BY <2>1, <2>3, <3>2, <4>2 DEF Book!Admit
      <4> QED BY <2>1, <3>4, <4>3 DEF Book!Next
    <3> QED BY <3>3, <3>4
  <2> QED BY <1>12, <2>2, <2>3 DEF WritePeer, FilesWith
<1>13. CASE AddAndReply
  <2>1. /\ UNCHANGED <<issued, tickets, peerFiles>> /\ unsyncedRemovals' = {}
        /\ handler # NoHandler /\ handler.step = "reply" /\ handler' = NoHandler
        /\ handler.peer \in Peers /\ DOMAIN joiner = Peers
        /\ joiner' = [joiner EXCEPT ![handler.peer] = IF @ = "waiting" THEN "accepted" ELSE @]
    BY <1>0, <1>13 DEF AddAndReply, Synced, At, TypeOK, Handlers
  <2>2. Usable' \in SUBSET Usable /\ handler.peer \in peerFiles
    BY <1>0, <2>1 DEF Usable, BeingUsed, HandlerInv
  <2>3. CASE joiner[handler.peer] = "waiting"
    <3>1. \A q \in Peers : joiner'[q] \in {"accepted", "member"}
                             <=> joiner[q] \in {"accepted", "member"} \/ q = handler.peer
      BY <2>1, <2>3
    <3>2. Told' = Told \cup {handler.peer}
      BY <2>1, <3>1 DEF Told
    <3> QED BY <2>1, <2>2, <3>2 DEF Book!Next, Book!Accept
  <2>4. CASE joiner[handler.peer] # "waiting"
    <3>1. \A q \in Peers : joiner'[q] = joiner[q]
      BY <2>1, <2>4
    <3>2. Told' = Told
      BY <3>1 DEF Told
    <3> QED BY <2>1, <2>2, <3>2, BookLapses
  <2> QED BY <2>3, <2>4
<1>14. CASE Crash
  <2>1. PICK back \in SUBSET unsyncedRemovals : tickets' = tickets \cup back
    BY <1>14 DEF Crash
  <2>2. PICK lost \in SUBSET unsyncedPeers : peerFiles' = peerFiles \ lost
    BY <1>14 DEF Crash
  <2>3. handler' = NoHandler /\ unsyncedRemovals' = {} /\ UNCHANGED <<issued, joiner>>
    BY <1>14 DEF Crash
  <2>4. Usable' \in SUBSET Usable /\ Told' = Told
    BY <2>1, <2>3 DEF Usable, BeingUsed, Told
  <2>5. Told \subseteq peerFiles'
    BY <1>0, <2>2 DEF Told, MemberStaysTrusted
  <2> QED BY <2>2, <2>3, <2>4, <2>5 DEF Book!Next, Book!Stop
<1>15. CASE Restart
  BY <1>15, BookAlone DEF Restart, disk, BeingUsed, Told
<1> QED
  BY <1>1, <1>2, <1>3, <1>4, <1>5, <1>6, <1>7, <1>8, <1>9, <1>10, <1>11, <1>12, <1>13, <1>14,
     <1>15 DEF Next

(***************************************************************************)
(* The daemon and the invite command implement Invitations, for any peers, *)
(* tickets and limits: a peer gets a trust file (trust_add) only by a      *)
(* ticket that is used up by it (invite_consume), whatever fails or crashes*)
(* between the file operations, and keeps it once it was told.             *)
(***************************************************************************)
THEOREM AdmissionKeepsTheBook == Spec => IsInvitations
<1>1. Init => Book!Init
  <2> SUFFICES ASSUME Init PROVE Book!Init
    OBVIOUS
  <2>1. Usable = {} /\ Told = {}
    BY DEF Init, Usable, BeingUsed, Told
  <2> QED BY <2>1 DEF Init, Book!Init
<1> QED
  BY <1>1, BookStep, AdmissionInvariant, PTL DEF Spec, IsInvitations, Book!Spec

\* The sets of the book are finite: they are counted.
LEMMA BookIsFinite ==
    ASSUME IInv
    PROVE  /\ IsFiniteSet(peerFiles) /\ Cardinality(peerFiles) \in Nat
           /\ IsFiniteSet(Usable) /\ Cardinality(Usable) \in Nat
           /\ IsFiniteSet(issued) /\ Cardinality(issued) \in Nat
<1>1. peerFiles \subseteq Peers /\ issued \subseteq Tickets
  BY DEF IInv, TypeOK
<1>2. Usable \subseteq issued
  BY DEF IInv, TypeOK, DiskInv, HandlerInv, Usable, BeingUsed
<1> QED
  BY <1>1, <1>2, PeersAssumption, TicketsAssumption, FS_Subset, FS_CardinalityType

\* How the numbers of peers, usable and issued invitations may change.
LEMMA StaysBalanced ==
    ASSUME NEW known \in Nat, NEW good \in Nat, NEW given \in Nat, known + good <= given,
           NEW known1 \in Nat, NEW good1 \in Nat, NEW given1 \in Nat,
           \/ known1 <= known /\ good1 <= good /\ given1 = given
           \/ known1 <= known /\ good1 <= good + 1 /\ given1 = given + 1
           \/ known1 <= known + 1 /\ good1 = good - 1 /\ given1 = given
    PROVE  known1 + good1 <= given1
  OBVIOUS

\* Every step of the book leaves it balanced: an admission costs an invitation.
LEMMA BalanceStep ==
    IInv /\ PeersWereInvited /\ [Next]_vars => PeersWereInvited'
<1> SUFFICES ASSUME IInv, PeersWereInvited, [Next]_vars PROVE PeersWereInvited'
  OBVIOUS
<1>1. IInv'
  BY NextTypeOK, NextTickets, NextMembers DEF IInv
<1>2. /\ IsFiniteSet(peerFiles) /\ Cardinality(peerFiles) \in Nat
      /\ IsFiniteSet(Usable) /\ Cardinality(Usable) \in Nat
      /\ IsFiniteSet(issued) /\ Cardinality(issued) \in Nat
      /\ Cardinality(peerFiles) + Cardinality(Usable) <= Cardinality(issued)
  BY BookIsFinite DEF PeersWereInvited
<1>3. /\ Cardinality(peerFiles') \in Nat
      /\ Cardinality(Usable') \in Nat
      /\ Cardinality(issued') \in Nat
  <2>1. peerFiles' \subseteq Peers /\ issued' \subseteq Tickets
    BY <1>1 DEF IInv, TypeOK
  <2>2. Usable' \subseteq issued'
    BY <1>1 DEF IInv, TypeOK, DiskInv, HandlerInv, Usable, BeingUsed
  <2> QED
    BY <2>1, <2>2, PeersAssumption, TicketsAssumption, FS_Subset, FS_CardinalityType
<1>4. [Book!Next]_(Book!vars)
  BY BookStep
<1>5. \A S \in SUBSET peerFiles : Cardinality(S) <= Cardinality(peerFiles)
  BY <1>2, FS_Subset
<1>6. \A S \in SUBSET Usable : IsFiniteSet(S) /\ Cardinality(S) <= Cardinality(Usable)
  BY <1>2, FS_Subset
<1> SUFFICES Cardinality(peerFiles') + Cardinality(Usable') <= Cardinality(issued')
  BY DEF PeersWereInvited
<1>7. ASSUME NEW t \in Tickets, Book!Issue(t)
      PROVE  Cardinality(peerFiles') + Cardinality(Usable') <= Cardinality(issued')
  <2>1. /\ t \notin issued /\ issued' = issued \cup {t} /\ peerFiles' = peerFiles
        /\ \E left \in SUBSET Usable : Usable' = left \cup {t}
    BY <1>7 DEF Book!Issue
  <2>2. PICK left \in SUBSET Usable : Usable' = left \cup {t}
    BY <2>1
  <2>3. IsFiniteSet(left) /\ Cardinality(left) \in Nat
        /\ Cardinality(left) <= Cardinality(Usable)
    BY <1>6, FS_CardinalityType
  <2>4. Cardinality(Usable') = IF t \in left THEN Cardinality(left) ELSE Cardinality(left) + 1
    BY <2>2, <2>3, FS_AddElement
  <2>5. Cardinality(Usable') <= Cardinality(Usable) + 1
    BY <1>2, <2>3, <2>4
  <2>6. Cardinality(issued') = Cardinality(issued) + 1
    BY <1>2, <2>1, FS_AddElement
  <2>7. Cardinality(peerFiles') <= Cardinality(peerFiles)
    BY <1>5, <2>1
  <2> QED BY <1>2, <1>3, <2>5, <2>6, <2>7, StaysBalanced
<1>8. ASSUME Usable' \in SUBSET Usable, peerFiles' \in SUBSET peerFiles, issued' = issued
      PROVE  Cardinality(peerFiles') + Cardinality(Usable') <= Cardinality(issued')
  <2>1. /\ Cardinality(peerFiles') <= Cardinality(peerFiles)
        /\ Cardinality(Usable') <= Cardinality(Usable)
        /\ Cardinality(issued') = Cardinality(issued)
    BY <1>5, <1>6, <1>8
  <2> QED BY <1>2, <1>3, <2>1, StaysBalanced
<1>9. ASSUME NEW t \in Tickets, NEW p \in Peers, Book!Admit(t, p)
      PROVE  Cardinality(peerFiles') + Cardinality(Usable') <= Cardinality(issued')
  <2>1. t \in Usable /\ Usable' = Usable \ {t} /\ peerFiles' = peerFiles \cup {p}
        /\ issued' = issued
    BY <1>9 DEF Book!Admit
  <2>2. Cardinality(Usable') = Cardinality(Usable) - 1
    BY <1>2, <2>1, FS_RemoveElement
  <2>3. Cardinality(peerFiles') = IF p \in peerFiles THEN Cardinality(peerFiles)
                                  ELSE Cardinality(peerFiles) + 1
    BY <1>2, <2>1, FS_AddElement
  <2>4. Cardinality(peerFiles') <= Cardinality(peerFiles) + 1
    BY <1>2, <2>3
  <2>5. Cardinality(issued') = Cardinality(issued)
    BY <2>1
  <2> QED BY <1>2, <1>3, <2>2, <2>4, <2>5, StaysBalanced
<1>10. CASE Book!Lapse \/ Book!Stop \/ UNCHANGED Book!vars
  BY <1>8, <1>10 DEF Book!Lapse, Book!Stop, Book!vars
<1>11. ASSUME NEW p \in Peers, Book!Accept(p) \/ Book!GiveUp(p)
       PROVE  Cardinality(peerFiles') + Cardinality(Usable') <= Cardinality(issued')
  BY <1>8, <1>11 DEF Book!Accept, Book!GiveUp
<1> QED
  BY <1>4, <1>7, <1>9, <1>10, <1>11 DEF Book!Next

\* A daemon trusts no more peers than it has issued invitations (invite_store), and
\* every one that may still be used counts: of n invitations, whatever is lost,
\* repeated or half done on the way, at most n peers come in (trust_add).
THEOREM InvitationsBoundPeers == Spec => []PeersWereInvited
<1>1. Init => PeersWereInvited
  <2> SUFFICES ASSUME Init PROVE PeersWereInvited
    OBVIOUS
  <2>1. Usable = {} /\ peerFiles = {} /\ issued = {}
    BY DEF Init, Usable, BeingUsed
  <2>2. Cardinality({}) = 0
    BY FS_EmptySet
  <2> QED BY <2>1, <2>2 DEF PeersWereInvited
<1>2. IInv /\ PeersWereInvited /\ [Next]_vars => PeersWereInvited'
  BY BalanceStep
<1> QED
  BY <1>1, <1>2, AdmissionInvariant, PTL DEF Spec

-----------------------------------------------------------------------------
(***************************************************************************)
(* IdentityStore                                                           *)
(***************************************************************************)
\* What each process has in memory at each place.
MemoryInv ==
    \A p \in Processes :
        /\ pc[p] \in {"joining", "save", "syncSave", "joinConfig", "syncNew", "config", "bump",
                     "syncBump"} => memory[p] # NoIdentity
        /\ pc[p] \in {"out", "load", "create"} => memory[p] = NoIdentity
        /\ pc[p] = "syncBump" => memory[p].generation < MaxGeneration

\* A lock file that is opened is there, and no two owners have the same one.
HoldInv ==
    /\ \A p \in Processes : pc[p] = "open" => lockFile # 0
    /\ \A p \in Processes : pc[p] \in Owning \cup {"lock"} => handle[p] # 0
    /\ \A p, q \in Processes :
          pc[p] \in Owning /\ pc[q] \in Owning /\ handle[p] = handle[q] => p = q

\* A process that is joining has a directory to itself on which no daemon has
\* run, and what it saves stays there.
JoinInv ==
    \A p \in Processes :
        /\ Joining(p) => Alone(p) /\ starts = <<>>
        /\ pc[p] \in {"syncSave", "joinConfig"} => file = memory[p]
        /\ pc[p] = "joinConfig" => durable = memory[p]

\* The owner works on what the file holds.
OwnerInv ==
    \A p \in Processes :
        /\ pc[p] = "create" => file = NoIdentity
        /\ pc[p] \in {"syncNew", "config", "bump"} => file = memory[p] /\ file # NoIdentity
        /\ pc[p] = "syncBump" => file = Bumped(memory[p])

\* The identity is the one of the daemons that have run, at their last
\* generation or a later one.
Continues(identity) ==
    /\ identity # NoIdentity
    /\ identity.key = starts[Len(starts)].key
    /\ identity.generation >= starts[Len(starts)].generation

\* Neither the file nor what a crash leaves of it, nor what the owner has
\* loaded, falls behind the daemons that have run.
StartsInv ==
    starts # <<>> =>
        /\ Continues(file) /\ Continues(durable)
        /\ \A p \in Processes : pc[p] \in Owning /\ memory[p] # NoIdentity => Continues(memory[p])

\* What holds whatever the operator does, and what a careful one has as well.
FreeInv == StoreTypeOK /\ MemoryInv /\ HoldInv

InOrder == OwnerInv /\ StartsInv /\ StartsAdvance

StoreInv == FreeInv /\ JoinInv /\ (lockFiles <= 1 => InOrder)

\* StoreInv where the lock file has been put into place at most once.
SoloInv == FreeInv /\ JoinInv /\ lockFiles <= 1 /\ OneOwner /\ InOrder

-----------------------------------------------------------------------------
\* The next generation of an identity.
LEMMA BumpedIs ==
    ASSUME NEW i \in Identities, i.generation < MaxGeneration
    PROVE  /\ Bumped(i) = [key |-> i.key, generation |-> i.generation + 1]
           /\ Bumped(i) \in Identities
  BY StoreAssumption DEF Bumped, Identities

LEMMA GenerationIsNat == \A i \in Identities : i.generation \in Nat
  BY StoreAssumption DEF Identities

\* An identity is an identity, whoever holds it, or there is none.
LEMMA FileTypes ==
    ASSUME StoreTypeOK
    PROVE  /\ file \in Identities \cup {NoIdentity} /\ durable \in Identities \cup {NoIdentity}
           /\ \A p \in Processes : memory[p] \in Identities \cup {NoIdentity}
           /\ NoIdentity \notin Identities
  BY DEF StoreTypeOK, Files, Identities, NoIdentity

\* Every action keeps the types.
LEMMA TypeStep == FreeInv /\ [StoreNext]_storeVars => StoreTypeOK'
<1> SUFFICES ASSUME FreeInv, [StoreNext]_storeVars PROVE StoreTypeOK'
  OBVIOUS
<1> USE DEF FreeInv, Goto, lockVars, fileVars, identityVars, StoreTypeOK, Owning, Loading, Files, Identities, NoIdentity
<1> USE StoreAssumption
<1>1. ASSUME NEW p \in Processes, Look(p) PROVE StoreTypeOK'
  BY <1>1 DEF Look
<1>2. ASSUME NEW p \in Processes, MakeLock(p) PROVE StoreTypeOK'
  BY <1>2 DEF MakeLock
<1>3. ASSUME NEW p \in Processes, Open(p) PROVE StoreTypeOK'
  BY <1>3 DEF Open
<1>4. ASSUME NEW p \in Processes, Lock(p) PROVE StoreTypeOK'
  BY <1>4 DEF Lock, Free
<1>5. ASSUME NEW p \in Processes, Load(p) PROVE StoreTypeOK'
  BY <1>5 DEF Load
<1>6. ASSUME NEW p \in Processes, Create(p) PROVE StoreTypeOK'
  BY <1>6 DEF Create, Replace
<1>7. ASSUME NEW p \in Processes, SyncNew(p) PROVE StoreTypeOK'
  BY <1>7 DEF SyncNew, DirectorySynced
<1>8. ASSUME NEW p \in Processes, SaveConfig(p) PROVE StoreTypeOK'
  BY <1>8 DEF SaveConfig, Configured
<1>9. ASSUME NEW p \in Processes, Bump(p) PROVE StoreTypeOK'
  <2>1. Bumped(memory[p]) \in Identities
    BY <1>9, FileTypes, BumpedIs DEF Bump, Advances, MemoryInv
  <2>2. file' \in Files
    BY <1>9, <2>1 DEF Bump, Replace
  <2> QED
    BY <1>9, <2>2 DEF Bump, Replace
<1>10. ASSUME NEW p \in Processes, SyncBump(p) PROVE StoreTypeOK'
  <2>1. Bumped(memory[p]) \in Identities
    BY <1>10, FileTypes, BumpedIs DEF SyncBump, MemoryInv
  <2>2. starts' \in Seq(Identities) /\ Len(starts') <= MaxStarts
    BY <1>10, <2>1 DEF SyncBump
  <2>3. memory' \in [Processes -> Files]
    BY <1>10, <2>1 DEF SyncBump
  <2> QED
    BY <1>10, <2>2, <2>3 DEF SyncBump, DirectorySynced
<1>11. ASSUME NEW p \in Processes, Join(p) PROVE StoreTypeOK'
  <2>1. Bumped([key |-> keys + 1, generation |-> 1]) = [key |-> keys + 1, generation |-> 2]
    BY DEF Bumped
  <2>2. [key |-> keys + 1, generation |-> 2] \in Files
    BY <1>11 DEF Join
  <2>3. memory' \in [Processes -> Files]
    <3> DEFINE i == [key |-> keys + 1, generation |-> 2]
               F == Files
    <3>1. memory \in [Processes -> F] /\ i \in F /\ memory' = [memory EXCEPT ![p] = i]
      BY <1>11, <2>1, <2>2 DEF Join
    <3> HIDE DEF i, F
    <3>2. memory' \in [Processes -> F]
      BY <3>1
    <3> QED
      BY <3>2 DEF F
  <2>4. keys' \in 0 .. MaxKeys
    BY <1>11 DEF Join
  <2> QED
    BY <1>11, <2>3, <2>4 DEF Join
<1>12. ASSUME NEW p \in Processes, Save(p) PROVE StoreTypeOK'
  BY <1>12 DEF Save, Replace
<1>13. ASSUME NEW p \in Processes, SyncSave(p) PROVE StoreTypeOK'
  BY <1>13 DEF SyncSave, DirectorySynced
<1>14. ASSUME NEW p \in Processes, SaveJoinConfig(p) PROVE StoreTypeOK'
  <2>1. memory[p] \in Identities
    BY <1>14, FileTypes DEF SaveJoinConfig, MemoryInv
  <2>2. starts' \in Seq(Identities) /\ Len(starts') <= MaxStarts
    BY <1>14, <2>1 DEF SaveJoinConfig
  <2> QED
    BY <1>14, <2>2 DEF SaveJoinConfig, Configured
<1>15. ASSUME NEW p \in Processes, Leave(p) PROVE StoreTypeOK'
  BY <1>15 DEF Leave
<1>16. CASE MachineCrash
  BY <1>16 DEF MachineCrash
<1>17. CASE UNCHANGED storeVars
  BY <1>17 DEF storeVars
<1> QED
  BY <1>1, <1>2, <1>3, <1>4, <1>5, <1>6, <1>7, <1>8, <1>9, <1>10, <1>11, <1>12, <1>13, <1>14, <1>15, <1>16, <1>17 DEF StoreNext

\* Every action keeps what its process needs in memory.
LEMMA MemoryStep == FreeInv /\ [StoreNext]_storeVars => MemoryInv'
<1> SUFFICES ASSUME FreeInv, [StoreNext]_storeVars PROVE MemoryInv'
  OBVIOUS
<1> USE DEF FreeInv, Goto, lockVars, fileVars, identityVars, StoreTypeOK, Owning, Loading, MemoryInv, NoIdentity, Bumped
<1>1. ASSUME NEW p \in Processes, Look(p) PROVE MemoryInv'
  BY <1>1 DEF Look
<1>2. ASSUME NEW p \in Processes, MakeLock(p) PROVE MemoryInv'
  BY <1>2 DEF MakeLock
<1>3. ASSUME NEW p \in Processes, Open(p) PROVE MemoryInv'
  BY <1>3 DEF Open
<1>4. ASSUME NEW p \in Processes, Lock(p) PROVE MemoryInv'
  BY <1>4 DEF Lock, Free
<1>5. ASSUME NEW p \in Processes, Load(p) PROVE MemoryInv'
  BY <1>5 DEF Load
<1>6. ASSUME NEW p \in Processes, Create(p) PROVE MemoryInv'
  BY <1>6 DEF Create, Replace
<1>7. ASSUME NEW p \in Processes, SyncNew(p) PROVE MemoryInv'
  BY <1>7 DEF SyncNew, DirectorySynced
<1>8. ASSUME NEW p \in Processes, SaveConfig(p) PROVE MemoryInv'
  BY <1>8 DEF SaveConfig, Configured
<1>9. ASSUME NEW p \in Processes, Bump(p) PROVE MemoryInv'
  BY <1>9 DEF Bump, Replace, Advances
<1>10. ASSUME NEW p \in Processes, SyncBump(p) PROVE MemoryInv'
  BY <1>10 DEF SyncBump, DirectorySynced
<1>11. ASSUME NEW p \in Processes, Join(p) PROVE MemoryInv'
  BY <1>11 DEF Join
<1>12. ASSUME NEW p \in Processes, Save(p) PROVE MemoryInv'
  BY <1>12 DEF Save, Replace
<1>13. ASSUME NEW p \in Processes, SyncSave(p) PROVE MemoryInv'
  BY <1>13 DEF SyncSave, DirectorySynced
<1>14. ASSUME NEW p \in Processes, SaveJoinConfig(p) PROVE MemoryInv'
  BY <1>14 DEF SaveJoinConfig, Configured
<1>15. ASSUME NEW p \in Processes, Leave(p) PROVE MemoryInv'
  BY <1>15 DEF Leave
<1>16. CASE MachineCrash
  BY <1>16 DEF MachineCrash
<1>17. CASE UNCHANGED storeVars
  BY <1>17 DEF storeVars
<1> QED
  BY <1>1, <1>2, <1>3, <1>4, <1>5, <1>6, <1>7, <1>8, <1>9, <1>10, <1>11, <1>12, <1>13, <1>14, <1>15, <1>16, <1>17 DEF StoreNext

\* A lock is had once, and the lock file does not go away.
LEMMA HoldStep == FreeInv /\ [StoreNext]_storeVars => HoldInv'
<1> SUFFICES ASSUME FreeInv, [StoreNext]_storeVars PROVE HoldInv'
  OBVIOUS
<1> USE DEF FreeInv, Goto, lockVars, fileVars, identityVars, StoreTypeOK, Owning, Loading, HoldInv
<1>1. ASSUME NEW p \in Processes, Look(p) PROVE HoldInv'
  BY <1>1 DEF Look
<1>2. ASSUME NEW p \in Processes, MakeLock(p) PROVE HoldInv'
  BY <1>2 DEF MakeLock
<1>3. ASSUME NEW p \in Processes, Open(p) PROVE HoldInv'
  BY <1>3 DEF Open
<1>4. ASSUME NEW p \in Processes, Lock(p) PROVE HoldInv'
  BY <1>4 DEF Lock, Free
<1>5. ASSUME NEW p \in Processes, Load(p) PROVE HoldInv'
  BY <1>5 DEF Load
<1>6. ASSUME NEW p \in Processes, Create(p) PROVE HoldInv'
  BY <1>6 DEF Create, Replace
<1>7. ASSUME NEW p \in Processes, SyncNew(p) PROVE HoldInv'
  BY <1>7 DEF SyncNew, DirectorySynced
<1>8. ASSUME NEW p \in Processes, SaveConfig(p) PROVE HoldInv'
  BY <1>8 DEF SaveConfig, Configured
<1>9. ASSUME NEW p \in Processes, Bump(p) PROVE HoldInv'
  BY <1>9 DEF Bump, Replace, Advances
<1>10. ASSUME NEW p \in Processes, SyncBump(p) PROVE HoldInv'
  BY <1>10 DEF SyncBump, DirectorySynced
<1>11. ASSUME NEW p \in Processes, Join(p) PROVE HoldInv'
  BY <1>11 DEF Join
<1>12. ASSUME NEW p \in Processes, Save(p) PROVE HoldInv'
  BY <1>12 DEF Save, Replace
<1>13. ASSUME NEW p \in Processes, SyncSave(p) PROVE HoldInv'
  BY <1>13 DEF SyncSave, DirectorySynced
<1>14. ASSUME NEW p \in Processes, SaveJoinConfig(p) PROVE HoldInv'
  BY <1>14 DEF SaveJoinConfig, Configured
<1>15. ASSUME NEW p \in Processes, Leave(p) PROVE HoldInv'
  BY <1>15 DEF Leave
<1>16. CASE MachineCrash
  BY <1>16 DEF MachineCrash
<1>17. CASE UNCHANGED storeVars
  BY <1>17 DEF storeVars
<1> QED
  BY <1>1, <1>2, <1>3, <1>4, <1>5, <1>6, <1>7, <1>8, <1>9, <1>10, <1>11, <1>12, <1>13, <1>14, <1>15, <1>16, <1>17 DEF StoreNext

\* Nothing happens beside a join.
LEMMA JoinStep == Careful /\ FreeInv /\ JoinInv /\ [StoreNext]_storeVars => JoinInv'
<1> SUFFICES ASSUME Careful, FreeInv, JoinInv, [StoreNext]_storeVars PROVE JoinInv'
  OBVIOUS
<1> USE DEF FreeInv, Goto, lockVars, fileVars, identityVars, StoreTypeOK, MemoryInv, JoinInv, Joining, Alone, Owning, Loading
<1>1. ASSUME NEW p \in Processes, Look(p) PROVE JoinInv'
  <2>1. pc[p] = "out" => \A q \in Processes : ~Joining(q)
    BY <1>1 DEF Look, MayStart
  <2>2. \A q \in Processes \ {p} : pc'[q] = pc[q]
    BY <1>1 DEF Look
  <2>3. pc'[p] \in {"makeLock", "open"} /\ memory' = memory /\ starts' = starts /\ file' = file
    BY <1>1 DEF Look
  <2> QED
    BY <1>1, <2>1, <2>2, <2>3 DEF Look
<1>2. ASSUME NEW p \in Processes, MakeLock(p) PROVE JoinInv'
  BY <1>2 DEF MakeLock
<1>3. ASSUME NEW p \in Processes, Open(p) PROVE JoinInv'
  BY <1>3 DEF Open
<1>4. ASSUME NEW p \in Processes, Lock(p) PROVE JoinInv'
  BY <1>4 DEF Lock, Free
<1>5. ASSUME NEW p \in Processes, Load(p) PROVE JoinInv'
  BY <1>5 DEF Load
<1>6. ASSUME NEW p \in Processes, Create(p) PROVE JoinInv'
  BY <1>6 DEF Create, Replace
<1>7. ASSUME NEW p \in Processes, SyncNew(p) PROVE JoinInv'
  BY <1>7 DEF SyncNew, DirectorySynced
<1>8. ASSUME NEW p \in Processes, SaveConfig(p) PROVE JoinInv'
  BY <1>8 DEF SaveConfig, Configured
<1>9. ASSUME NEW p \in Processes, Bump(p) PROVE JoinInv'
  BY <1>9 DEF Bump, Replace, Advances, Bumped
<1>10. ASSUME NEW p \in Processes, SyncBump(p) PROVE JoinInv'
  BY <1>10 DEF SyncBump, DirectorySynced, Bumped
<1>11. ASSUME NEW p \in Processes, Join(p) PROVE JoinInv'
  <2>1. \A q \in Processes \ {p} : pc[q] = "out" /\ pc'[q] = "out" /\ memory'[q] = NoIdentity
    BY <1>11 DEF Join, MayJoin, Alone
  <2>2. pc'[p] = "joining" /\ starts' = <<>> 
    BY <1>11 DEF Join, MayJoin
  <2>3. memory'[p] # NoIdentity
    BY <1>11 DEF Join, Bumped, NoIdentity
  <2> QED
    BY <2>1, <2>2, <2>3
<1>12. ASSUME NEW p \in Processes, Save(p) PROVE JoinInv'
  BY <1>12 DEF Save, Replace
<1>13. ASSUME NEW p \in Processes, SyncSave(p) PROVE JoinInv'
  BY <1>13 DEF SyncSave, DirectorySynced
<1>14. ASSUME NEW p \in Processes, SaveJoinConfig(p) PROVE JoinInv'
  BY <1>14 DEF SaveJoinConfig, Configured
<1>15. ASSUME NEW p \in Processes, Leave(p) PROVE JoinInv'
  BY <1>15 DEF Leave
<1>16. CASE MachineCrash
  BY <1>16 DEF MachineCrash
<1>17. CASE UNCHANGED storeVars
  BY <1>17 DEF storeVars
<1> QED
  BY <1>1, <1>2, <1>3, <1>4, <1>5, <1>6, <1>7, <1>8, <1>9, <1>10, <1>11, <1>12, <1>13, <1>14, <1>15, <1>16, <1>17 DEF StoreNext

\* What the file holds changes only by the owner.
LEMMA OwnerStep == Careful /\ SoloInv /\ [StoreNext]_storeVars => OwnerInv'
<1> SUFFICES ASSUME Careful, SoloInv, [StoreNext]_storeVars PROVE OwnerInv'
  OBVIOUS
<1> USE DEF SoloInv, FreeInv, InOrder, Goto, lockVars, fileVars, identityVars, StoreTypeOK, OwnerInv, JoinInv, Owning, Loading, OneOwner
<1>1. ASSUME NEW p \in Processes, Look(p) PROVE OwnerInv'
  BY <1>1 DEF Look, Joining, Alone, MayStart
<1>2. ASSUME NEW p \in Processes, MakeLock(p) PROVE OwnerInv'
  BY <1>2 DEF MakeLock
<1>3. ASSUME NEW p \in Processes, Open(p) PROVE OwnerInv'
  BY <1>3 DEF Open
<1>4. ASSUME NEW p \in Processes, Lock(p) PROVE OwnerInv'
  BY <1>4 DEF Lock, Free
<1>5. ASSUME NEW p \in Processes, Load(p) PROVE OwnerInv'
  BY <1>5 DEF Load
<1>6. ASSUME NEW p \in Processes, Create(p) PROVE OwnerInv'
  <2>1. \A q \in Processes \ {p} : pc'[q] = pc[q] /\ pc[q] \notin Owning
    BY <1>6 DEF Create
  <2>2. pc'[p] = "syncNew" /\ file' = memory'[p] /\ memory'[p] = [key |-> keys + 1, generation |-> 1]
    BY <1>6 DEF Create, Replace
  <2>3. file' # NoIdentity
    BY <2>2 DEF NoIdentity
  <2> QED
    BY <2>1, <2>2, <2>3
<1>7. ASSUME NEW p \in Processes, SyncNew(p) PROVE OwnerInv'
  BY <1>7 DEF SyncNew, DirectorySynced
<1>8. ASSUME NEW p \in Processes, SaveConfig(p) PROVE OwnerInv'
  BY <1>8 DEF SaveConfig, Configured
<1>9. ASSUME NEW p \in Processes, Bump(p) PROVE OwnerInv'
  BY <1>9 DEF Bump, Replace, Advances, Bumped
<1>10. ASSUME NEW p \in Processes, SyncBump(p) PROVE OwnerInv'
  BY <1>10 DEF SyncBump, DirectorySynced, Bumped
<1>11. ASSUME NEW p \in Processes, Join(p) PROVE OwnerInv'
  BY <1>11 DEF Join, Bumped, MayJoin, Alone
<1>12. ASSUME NEW p \in Processes, Save(p) PROVE OwnerInv'
  BY <1>12 DEF Save, Replace
<1>13. ASSUME NEW p \in Processes, SyncSave(p) PROVE OwnerInv'
  BY <1>13 DEF SyncSave, DirectorySynced
<1>14. ASSUME NEW p \in Processes, SaveJoinConfig(p) PROVE OwnerInv'
  BY <1>14 DEF SaveJoinConfig, Configured
<1>15. ASSUME NEW p \in Processes, Leave(p) PROVE OwnerInv'
  BY <1>15 DEF Leave
<1>16. CASE MachineCrash
  BY <1>16 DEF MachineCrash
<1>17. CASE UNCHANGED storeVars
  BY <1>17 DEF storeVars
<1> QED
  BY <1>1, <1>2, <1>3, <1>4, <1>5, <1>6, <1>7, <1>8, <1>9, <1>10, <1>11, <1>12, <1>13, <1>14, <1>15, <1>16, <1>17 DEF StoreNext

\* Nothing that is written falls behind.
LEMMA StartsStep == Careful /\ SoloInv /\ [StoreNext]_storeVars => StartsInv'
<1> SUFFICES ASSUME Careful, SoloInv, [StoreNext]_storeVars PROVE StartsInv'
  OBVIOUS
<1> USE DEF SoloInv, FreeInv, InOrder, Goto, lockVars, fileVars, identityVars
<1>1. ASSUME UNCHANGED <<fileVars, starts>>,
             \A q \in Processes :
                 pc'[q] \in Owning /\ memory'[q] # NoIdentity =>
                    \/ memory'[q] = file
                    \/ pc[q] \in Owning /\ memory'[q] = memory[q]
      PROVE  StartsInv'
  BY <1>1 DEF StartsInv, Continues
<1>2. ASSUME NEW p \in Processes, Look(p) \/ MakeLock(p) \/ Open(p) \/ Leave(p) PROVE StartsInv'
  <2>1. \A q \in Processes : pc'[q] \in Owning => pc[q] \in Owning /\ memory'[q] = memory[q]
    BY <1>2 DEF Look, MakeLock, Open, Leave, StoreTypeOK, Owning, Loading
  <2> QED
    BY <1>1, <1>2, <2>1 DEF Look, MakeLock, Open, Leave
<1>3. ASSUME NEW p \in Processes, Lock(p) PROVE StartsInv'
  <2>1. CASE memory[p] = NoIdentity
    BY <1>1, <1>3, <2>1 DEF Lock, StoreTypeOK, Owning, Loading
  <2>2. CASE memory[p] # NoIdentity
    <3>1. starts = <<>>
      BY <1>3, <2>2 DEF Lock, MemoryInv, JoinInv, Joining, Loading
    <3> QED
      BY <1>3, <3>1 DEF Lock, StartsInv
  <2> QED
    BY <2>1, <2>2
<1>4. ASSUME NEW p \in Processes, Load(p) PROVE StartsInv'
  BY <1>1, <1>4 DEF Load, StoreTypeOK, Owning, Loading
<1>5. ASSUME NEW p \in Processes, Create(p) PROVE StartsInv'
  <2>1. file = NoIdentity /\ starts' = starts
    BY <1>5 DEF Create, OwnerInv
  <2>2. starts = <<>>
    BY <2>1 DEF StartsInv, Continues
  <2> QED
    BY <2>1, <2>2 DEF StartsInv
<1>6. ASSUME NEW p \in Processes, SyncNew(p) \/ SyncSave(p) PROVE StartsInv'
  <2>1. durable' = file /\ file' = file /\ starts' = starts /\ memory' = memory
    BY <1>6 DEF SyncNew, SyncSave, DirectorySynced
  <2>2. \A q \in Processes : pc'[q] \in Owning => pc[q] \in Owning
    BY <1>6 DEF SyncNew, SyncSave, StoreTypeOK, Owning, Loading
  <2> QED
    BY <2>1, <2>2 DEF StartsInv, Continues
<1>7. ASSUME NEW p \in Processes, SaveConfig(p) PROVE StartsInv'
  <2>1. UNCHANGED <<file, durable, starts, memory>>
    BY <1>7 DEF SaveConfig
  <2>2. \A q \in Processes : pc'[q] \in Owning => pc[q] \in Owning
    BY <1>7 DEF SaveConfig, StoreTypeOK, Owning, Loading
  <2> QED
    BY <2>1, <2>2 DEF StartsInv, Continues
<1>8. ASSUME NEW p \in Processes, Bump(p) PROVE StartsInv'
  <2>1. UNCHANGED <<durable, starts, memory>> /\ file' = Bumped(memory[p])
    BY <1>8 DEF Bump, Replace
  <2>2. memory[p] \in Identities /\ memory[p].generation < MaxGeneration /\ memory[p] = file
    BY <1>8, FileTypes DEF Bump, Advances, OwnerInv, MemoryInv
  <2>3. /\ file'.key = file.key
        /\ file'.generation = file.generation + 1
        /\ file' # NoIdentity /\ file.generation \in Nat
    BY <2>1, <2>2, BumpedIs, FileTypes DEF Identities
  <2>4. \A q \in Processes : pc'[q] \in Owning => pc[q] \in Owning
    BY <1>8 DEF Bump, StoreTypeOK, Owning, Loading
  <2>5. starts # <<>> => starts[Len(starts)].generation \in Nat
    <3>1. starts # <<>> => starts[Len(starts)] \in Identities
      BY DEF StoreTypeOK
    <3> QED
      BY <3>1, GenerationIsNat
  <2>6. starts # <<>> /\ Continues(file) => Continues(file)'
    BY <2>1, <2>3, <2>5, FileTypes DEF Continues
  <2> QED
    BY <2>1, <2>4, <2>6 DEF StartsInv, Continues
<1>9. ASSUME NEW p \in Processes, SyncBump(p) PROVE StartsInv'
  <2>1. /\ memory[p] \in Identities /\ Bumped(memory[p]) \in Identities
        /\ file = Bumped(memory[p])
    BY <1>9, FileTypes, BumpedIs DEF SyncBump, OwnerInv, MemoryInv
  <2>2. file' = file /\ durable' = file /\ memory'[p] = file /\ starts' = Append(starts, file)
    BY <1>9, <2>1 DEF SyncBump, DirectorySynced, StoreTypeOK
  <2>3. starts'[Len(starts')] = file
    BY <2>1, <2>2 DEF StoreTypeOK
  <2>4. file # NoIdentity /\ file.generation \in Nat
    BY <2>1 DEF Identities, NoIdentity
  <2>5. \A q \in Processes : pc'[q] \in Owning => q = p
    BY <1>9 DEF SyncBump, OneOwner, StoreTypeOK, Owning, Loading
  <2> QED
    BY <2>2, <2>3, <2>4, <2>5 DEF StartsInv, Continues
<1>10. ASSUME NEW p \in Processes, Join(p) PROVE StartsInv'
  BY <1>10 DEF Join, MayJoin, StartsInv
<1>11. ASSUME NEW p \in Processes, Save(p) PROVE StartsInv'
  <2>1. starts = <<>> /\ starts' = starts
    BY <1>11 DEF Save, MemoryInv, JoinInv, Joining, Loading
  <2> QED
    BY <2>1 DEF StartsInv
<1>12. ASSUME NEW p \in Processes, SaveJoinConfig(p) PROVE StartsInv'
  <2>1. /\ file = memory[p] /\ durable = memory[p] /\ memory[p] # NoIdentity
        /\ UNCHANGED <<file, durable, memory>>
        /\ starts' = Append(starts, memory[p])
    BY <1>12 DEF SaveJoinConfig, MemoryInv, JoinInv
  <2>2. memory[p] \in Identities
    BY <2>1, FileTypes
  <2>3. starts'[Len(starts')] = memory[p] /\ memory[p].generation \in Nat
    BY <2>1, <2>2 DEF StoreTypeOK, Identities
  <2>4. \A q \in Processes : pc'[q] \in Owning => q = p
    BY <1>12 DEF SaveJoinConfig, OneOwner, StoreTypeOK, Owning, Loading
  <2> QED
    BY <2>1, <2>3, <2>4 DEF StartsInv, Continues
<1>13. CASE MachineCrash
  <2>1. \A q \in Processes : pc'[q] \notin Owning
    BY <1>13 DEF MachineCrash, Owning, Loading
  <2>2. file' \in {file, durable} /\ durable' \in {file, durable} /\ starts' = starts
    BY <1>13 DEF MachineCrash
  <2> QED
    BY <2>1, <2>2 DEF StartsInv, Continues
<1>14. CASE UNCHANGED storeVars
  BY <1>14 DEF storeVars, StartsInv, Continues
<1> QED
  BY <1>2, <1>3, <1>4, <1>5, <1>6, <1>7, <1>8, <1>9, <1>10, <1>11, <1>12, <1>13, <1>14 DEF StoreNext

\* A daemon starts with a generation beyond the last, of the same key.
LEMMA AdvanceStep == Careful /\ SoloInv /\ [StoreNext]_storeVars => StartsAdvance'
<1> SUFFICES ASSUME Careful, SoloInv, [StoreNext]_storeVars PROVE StartsAdvance'
  OBVIOUS
<1> USE DEF SoloInv, FreeInv, InOrder
<1>1. starts \in Seq(Identities)
  BY DEF StoreTypeOK
<1>2. ASSUME NEW i \in Identities, starts' = Append(starts, i),
             starts # <<>> => /\ i.key = starts[Len(starts)].key
                              /\ i.generation > starts[Len(starts)].generation
      PROVE  StartsAdvance'
  <2> SUFFICES ASSUME NEW k \in 1 .. Len(starts'), NEW j \in 1 .. Len(starts'), k < j
               PROVE  /\ starts'[k].key = starts'[j].key
                      /\ starts'[k].generation < starts'[j].generation
    BY DEF StartsAdvance
  <2>1. Len(starts') = Len(starts) + 1 /\ k \in 1 .. Len(starts) /\ Len(starts) \in Nat
    BY <1>1, <1>2
  <2>2. starts'[k] = starts[k] /\ starts[k].generation \in Nat
    BY <1>1, <1>2, <2>1, GenerationIsNat
  <2>3. CASE j \in 1 .. Len(starts)
    BY <1>1, <1>2, <2>1, <2>2, <2>3 DEF StartsAdvance
  <2>4. CASE j = Len(starts) + 1
    <3>1. starts'[j] = i /\ starts # <<>> /\ Len(starts) \in 1 .. Len(starts)
      BY <1>1, <1>2, <2>1, <2>4
    <3>2. starts[Len(starts)].generation \in Nat /\ i.generation \in Nat
      BY <1>1, <3>1, GenerationIsNat
    <3>3. \/ k = Len(starts)
          \/ /\ starts[k].key = starts[Len(starts)].key
             /\ starts[k].generation < starts[Len(starts)].generation
      BY <2>1, <3>1 DEF StartsAdvance
    <3> QED
      BY <1>2, <2>2, <3>1, <3>2, <3>3
  <2> QED
    BY <2>1, <2>3, <2>4
<1>3. ASSUME NEW p \in Processes, SyncBump(p) PROVE StartsAdvance'
  <2>1. /\ memory[p] \in Identities /\ memory[p].generation < MaxGeneration
        /\ pc[p] \in Owning /\ memory[p] # NoIdentity
    BY <1>3, FileTypes DEF SyncBump, OwnerInv, MemoryInv, Owning, Loading
  <2>2. starts' = Append(starts, Bumped(memory[p]))
    BY <1>3 DEF SyncBump, StoreTypeOK
  <2>3. /\ Bumped(memory[p]) \in Identities
        /\ Bumped(memory[p]).key = memory[p].key
        /\ Bumped(memory[p]).generation = memory[p].generation + 1
    BY <2>1, BumpedIs
  <2>4. starts # <<>> => /\ memory[p].key = starts[Len(starts)].key
                         /\ memory[p].generation >= starts[Len(starts)].generation
                         /\ starts[Len(starts)].generation \in Nat
    <3>1. starts # <<>> => starts[Len(starts)] \in Identities
      BY <1>1
    <3> QED
      BY <2>1, <3>1, GenerationIsNat DEF StartsInv, Continues
  <2>5. memory[p].generation \in Nat
    BY <2>1 DEF Identities
  <2> QED
    BY <1>2, <2>2, <2>3, <2>4, <2>5
<1>4. ASSUME NEW p \in Processes, SaveJoinConfig(p) PROVE StartsAdvance'
  <2>1. starts = <<>> /\ memory[p] \in Identities
    BY <1>4, FileTypes DEF SaveJoinConfig, MemoryInv, JoinInv, Joining, Loading
  <2> QED
    BY <1>2, <1>4, <2>1 DEF SaveJoinConfig
<1>5. CASE UNCHANGED starts
  BY <1>5 DEF StartsAdvance
<1> QED
  BY <1>3, <1>4, <1>5 DEF StoreNext, storeVars, Look, MakeLock, Open, Lock, Load, Create, SyncNew,
      SaveConfig, Bump, Join, Save, SyncSave, Leave, MachineCrash

LEMMA InitStoreInv == StoreInit => StoreInv
<1> SUFFICES ASSUME StoreInit PROVE StoreInv
  OBVIOUS
<1> USE DEF StoreInit
<1>1. StoreTypeOK
  BY StoreAssumption DEF StoreTypeOK, Files, Owning, Loading
<1>2. MemoryInv /\ HoldInv /\ OwnerInv
  BY DEF MemoryInv, HoldInv, OwnerInv, Owning, Loading
<1>3. JoinInv
  BY DEF JoinInv, Joining, Alone
<1>4. StartsInv /\ StartsAdvance
  BY DEF StartsInv, StartsAdvance
<1> QED
  BY <1>1, <1>2, <1>3, <1>4 DEF StoreInv, FreeInv, InOrder

\* Where there has been one lock file, every owner has it open.
LEMMA OneFileOneOwner == FreeInv /\ lockFiles <= 1 => OneOwner
<1> SUFFICES ASSUME FreeInv, lockFiles <= 1,
                    NEW p \in Processes, NEW q \in Processes, pc[p] \in Owning, pc[q] \in Owning
             PROVE  p = q
  BY DEF OneOwner
<1>1. handle[p] = 1 /\ handle[q] = 1
  BY StoreAssumption DEF FreeInv, StoreTypeOK, HoldInv
<1> QED
  BY <1>1 DEF FreeInv, HoldInv

\* Lock files are never taken back.
LEMMA LockFilesGrow == FreeInv /\ [StoreNext]_storeVars => lockFiles <= lockFiles'
<1> SUFFICES ASSUME FreeInv, [StoreNext]_storeVars PROVE lockFiles <= lockFiles'
  OBVIOUS
<1>1. lockFiles \in Nat
  BY StoreAssumption DEF FreeInv, StoreTypeOK
<1>2. lockFiles' = lockFiles \/ lockFiles' = lockFiles + 1
  BY DEF StoreNext, storeVars, lockVars, Look, MakeLock, Open, Lock, Load, Create, SyncNew,
      SaveConfig, Bump, SyncBump, Join, Save, SyncSave, SaveJoinConfig, Leave, MachineCrash
<1> QED
  BY <1>1, <1>2

-----------------------------------------------------------------------------
\* The part of the invariant that needs no care.
THEOREM FreeInvariant == StoreSpec => []FreeInv
<1>1. StoreInit => FreeInv
  BY InitStoreInv DEF StoreInv
<1>2. FreeInv /\ [StoreNext]_storeVars => FreeInv'
  BY TypeStep, MemoryStep, HoldStep DEF FreeInv
<1> QED
  BY <1>1, <1>2, PTL DEF StoreSpec

\* The inductive invariant holds under a careful operator.
THEOREM StoreInvariant == ASSUME Careful PROVE StoreSpec => []StoreInv
<1>1. StoreInv /\ [StoreNext]_storeVars => StoreInv'
  <2> SUFFICES ASSUME StoreInv, [StoreNext]_storeVars PROVE StoreInv'
    OBVIOUS
  <2>1. FreeInv' /\ JoinInv'
    BY TypeStep, MemoryStep, HoldStep, JoinStep DEF FreeInv, StoreInv
  <2>2. ASSUME lockFiles' <= 1 PROVE InOrder'
    <3>1. lockFiles \in Nat /\ lockFiles' \in Nat /\ lockFiles <= lockFiles'
      BY <2>1, LockFilesGrow, StoreAssumption DEF StoreInv, FreeInv, StoreTypeOK
    <3>2. SoloInv
      BY <2>2, <3>1, OneFileOneOwner DEF StoreInv, SoloInv
    <3> QED
      BY <3>2, OwnerStep, StartsStep, AdvanceStep DEF InOrder
  <2> QED
    BY <2>1, <2>2 DEF StoreInv
<1> QED
  BY InitStoreInv, <1>1, PTL DEF StoreSpec

(***************************************************************************)
(* The variables have their types, whoever is started when: no generation  *)
(* grows past its width, and no process goes on without an identity.       *)
(***************************************************************************)
THEOREM StoreTypes == StoreSpec => []StoreTypeOK
<1>1. FreeInv => StoreTypeOK
  BY DEF FreeInv
<1> QED
  BY FreeInvariant, <1>1, PTL

(***************************************************************************)
(* Once a lock file is there that nobody is about to replace and everyone  *)
(* who has one open has this one, it stays so, and at most one of any      *)
(* number of processes works with the identity (file_lock_acquire).        *)
(***************************************************************************)
THEOREM SettledLockHasOneOwner == StoreSpec => LockSettles
<1>1. FreeInv' /\ Settled' => OneOwner'
  BY DEF FreeInv, HoldInv, Settled, OneOwner
<1>2. FreeInv /\ Settled /\ [StoreNext]_storeVars => Settled'
  <2> SUFFICES ASSUME FreeInv, Settled, [StoreNext]_storeVars PROVE Settled'
    OBVIOUS
  <2> USE DEF FreeInv, StoreTypeOK, Settled, Goto, lockVars
  <2>1. ASSUME NEW p \in Processes, Look(p) \/ MakeLock(p) \/ Open(p) \/ Lock(p) PROVE Settled'
    BY <2>1 DEF Look, MakeLock, Open, Lock
  <2>2. ASSUME NEW p \in Processes,
               Load(p) \/ Create(p) \/ SyncNew(p) \/ SaveConfig(p) \/ Bump(p) \/ SyncBump(p)
        PROVE  Settled'
    BY <2>2 DEF Load, Create, SyncNew, SaveConfig, Bump, SyncBump
  <2>3. ASSUME NEW p \in Processes,
               Join(p) \/ Save(p) \/ SyncSave(p) \/ SaveJoinConfig(p) \/ Leave(p)
        PROVE  Settled'
    BY <2>3 DEF Join, Save, SyncSave, SaveJoinConfig, Leave
  <2>4. CASE MachineCrash
    BY <2>4 DEF MachineCrash
  <2>5. CASE UNCHANGED storeVars
    BY <2>5 DEF storeVars
  <2> QED
    BY <2>1, <2>2, <2>3, <2>4, <2>5 DEF StoreNext
<1> QED
  BY <1>1, <1>2, FreeInvariant, PTL DEF StoreSpec, LockSettles

(***************************************************************************)
(* Each daemon that starts has the key of those before it and a greater    *)
(* generation (identity_bump_generation, called and synced to disk before  *)
(* the daemon runs), through any number of starts and crashes, where the   *)
(* lock file has been put into place once.                                 *)
(***************************************************************************)
THEOREM GenerationsAdvance == ASSUME Careful PROVE StoreSpec => []StartsAdvance
<1>1. StoreInv => StartsAdvance
  BY DEF StoreInv, InOrder, StartsAdvance
<1> QED
  BY StoreInvariant, <1>1, PTL
=============================================================================
