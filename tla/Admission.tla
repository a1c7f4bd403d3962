----------------------------- MODULE Admission ------------------------------
(***************************************************************************)
(* Invitations and the trust store of one daemon: tickets that the invite  *)
(* command writes into the trust directory from a process of its own, join *)
(* requests that consume them, the file per trusted peer, and crashes at   *)
(* any point.                                                              *)
(*                                                                         *)
(* A file operation takes effect at once for running programs and is       *)
(* durable once the directory is synced.  What a crash may undo is kept    *)
(* apart: unsyncedRemovals may reappear, unsyncedPeers may disappear.      *)
(*                                                                         *)
(* The daemon decides on one JOIN_REQUEST at a time (trust_mutex); the     *)
(* variable handler is that request and how far it got:                    *)
(*   remove -> sync -> admit -> write -> reply                             *)
(***************************************************************************)
EXTENDS Naturals, FiniteSets

CONSTANTS
    Peers,        \* ids of joining nodes, ordered as the trust table is
    Tickets,      \* invitations (their 16-byte secrets)
    AddressOf,    \* AddressOf[p]: virtual_address, 64 bits of the id
    NoTicket,     \* an empty invite_token
    NoHandler,    \* no join request is being decided
    MaxTrusted,   \* MAX_TRUSTED_PEERS (15)
    MaxActive,    \* MAX_ACTIVE_INVITES (64)
    MaxCrashes,   \* bound: crashes of the daemon's host
    MaxIoFaults   \* bound: failures to write, remove or sync

ASSUME PeersAssumption ==
    /\ Peers \subseteq Nat
    /\ IsFiniteSet(Peers)
    /\ DOMAIN AddressOf = Peers
ASSUME TicketsAssumption == IsFiniteSet(Tickets) /\ NoTicket \notin Tickets
ASSUME LimitsAssumption ==
    MaxTrusted \in Nat /\ MaxActive \in Nat /\ MaxCrashes \in Nat /\ MaxIoFaults \in Nat

VARIABLES
    tickets,           \* tickets whose file is in the trust directory
    unsyncedRemovals,  \* removed, but the removal is not durable
    expired,           \* tickets past expires_at
    issued,            \* tickets whose token was printed
    peerFiles,         \* peers with a .trust file
    unsyncedPeers,     \* those whose file is not durable
    trust,             \* app.trust.peers
    running,           \* the daemon is up
    handler,           \* the join request being decided
    joiner,            \* joiner[p]: what the joining node knows
    admittedBy,        \* history: <<ticket, peer>> admitted through a ticket
    crashes, ioFaults

disk == <<tickets, unsyncedRemovals, peerFiles, unsyncedPeers>>
vars == <<disk, expired, issued, trust, running, handler, joiner, admittedBy,
          crashes, ioFaults>>

Steps == {"remove", "sync", "admit", "write", "reply"}
Handlers == [peer : Peers, ticket : Tickets \cup {NoTicket}, step : Steps]

\* out: never asked; waiting: JOIN_REQUEST sent; accepted: the response is on its
\* way; member: identity and trust saved; gone: gave up, its identity with it.
JoinerStates == {"out", "waiting", "accepted", "member", "gone"}

TypeOK ==
    /\ tickets \subseteq Tickets
    /\ unsyncedRemovals \subseteq Tickets
    /\ expired \subseteq Tickets
    /\ issued \subseteq Tickets
    /\ peerFiles \subseteq Peers
    /\ unsyncedPeers \subseteq peerFiles
    /\ trust \subseteq Peers
    /\ running \in BOOLEAN
    /\ handler \in Handlers \cup {NoHandler}
    /\ joiner \in [Peers -> JoinerStates]
    /\ admittedBy \subseteq Tickets \X Peers
    /\ crashes \in Nat
    /\ ioFaults \in Nat

Init ==
    /\ tickets = {} /\ unsyncedRemovals = {}
    /\ expired = {} /\ issued = {}
    /\ peerFiles = {} /\ unsyncedPeers = {}
    /\ trust = {}
    /\ running = TRUE
    /\ handler = NoHandler
    /\ joiner = [p \in Peers |-> "out"]
    /\ admittedBy = {}
    /\ crashes = 0 /\ ioFaults = 0

\* Mutant: the directory is not synced.
NotSynced == UNCHANGED <<unsyncedRemovals, unsyncedPeers>>

\* sync_parent_directory makes durable all that changed in the trust directory.
Synced == unsyncedRemovals' = {} /\ unsyncedPeers' = {}

\* invite_consume and invite_store exclude each other by the lock file.
StateLockHeld == handler # NoHandler /\ handler.step \in {"remove", "sync", "admit"}

-----------------------------------------------------------------------------
(***************************************************************************)
(* The invite command                                                      *)
(***************************************************************************)

\* invite_generate and invite_store, in a process of its own: expired tickets are
\* removed; if fewer than MaxActive are left the new one is written, the
\* directory synced with all that changed in it, and the token printed.
InviteStore(t) ==
    /\ t \notin issued
    /\ ~StateLockHeld
    /\ IF Cardinality(tickets \ expired) < MaxActive
       THEN /\ tickets' = (tickets \ expired) \cup {t}
            /\ issued' = issued \cup {t}
            /\ Synced
       ELSE /\ tickets' = tickets \ expired
            /\ unsyncedRemovals' = unsyncedRemovals \cup (tickets \cap expired)
            /\ UNCHANGED <<issued, unsyncedPeers>>
    /\ UNCHANGED <<expired, peerFiles, trust, running, handler, joiner, admittedBy,
                   crashes, ioFaults>>

\* invite_store stops with an error after removing some of the expired tickets.  A
\* ticket it may have written is of no use: its token is never printed.
InviteFails ==
    /\ ~StateLockHeld
    /\ ioFaults < MaxIoFaults
    /\ ioFaults' = ioFaults + 1
    /\ \E gone \in SUBSET (tickets \cap expired) :
        /\ tickets' = tickets \ gone
        /\ unsyncedRemovals' = unsyncedRemovals \cup gone
    /\ UNCHANGED <<peerFiles, unsyncedPeers, expired, issued, trust, running, handler,
                   joiner, admittedBy, crashes>>

\* A ticket's lifetime ends.
Expire(t) ==
    /\ t \in issued \ expired
    /\ expired' = expired \cup {t}
    /\ UNCHANGED <<disk, issued, trust, running, handler, joiner, admittedBy, crashes,
                   ioFaults>>

-----------------------------------------------------------------------------
(***************************************************************************)
(* The joining node                                                        *)
(***************************************************************************)

\* trust_address_available.
AddressAvailable(p) ==
    \A q \in trust : q # p => AddressOf[q] # AddressOf[p]

\* run_join sends JOIN_REQUEST with its token, or reconnect_step without one.
\* The daemon takes trust_mutex and looks at it: a known peer without a token is
\* admitted, a token is tried if the peer's address is free, and everything else
\* is rejected.
JoinRequest(p, t) ==
    /\ running
    /\ handler = NoHandler
    /\ joiner[p] \in {"out", "member"}
    /\ t \in issued \/ (t = NoTicket /\ joiner[p] = "member")
    /\ LET rejected == [joiner EXCEPT ![p] = IF @ = "member" THEN "member" ELSE "gone"]
           waiting  == [joiner EXCEPT ![p] = IF @ = "member" THEN "member" ELSE "waiting"]
       IN  IF t = NoTicket /\ p \in trust
           THEN /\ handler' = [peer |-> p, ticket |-> t, step |-> "write"]
                /\ joiner' = waiting
           ELSE IF t # NoTicket /\ AddressAvailable(p)
                THEN /\ handler' = [peer |-> p, ticket |-> t, step |-> "remove"]
                     /\ joiner' = waiting
                ELSE UNCHANGED handler /\ joiner' = rejected
    /\ UNCHANGED <<disk, expired, issued, trust, running, admittedBy, crashes, ioFaults>>

\* The response arrives: the joiner saves identity, configuration and trust.
BecomeMember(p) ==
    /\ joiner[p] = "accepted"
    /\ joiner' = [joiner EXCEPT ![p] = "member"]
    /\ UNCHANGED <<disk, expired, issued, trust, running, handler, admittedBy, crashes,
                   ioFaults>>

\* No response within 5 s, or the joiner stops: its identity was never saved.
GiveUp(p) ==
    /\ joiner[p] \in {"waiting", "accepted"}
    /\ joiner' = [joiner EXCEPT ![p] = "gone"]
    /\ UNCHANGED <<disk, expired, issued, trust, running, handler, admittedBy, crashes,
                   ioFaults>>

-----------------------------------------------------------------------------
(***************************************************************************)
(* The decision: invite_consume, trust_add                                 *)
(***************************************************************************)

At(step) == running /\ handler # NoHandler /\ handler.step = step

Continue(step) == handler' = [handler EXCEPT !.step = step]

Reject ==
    /\ handler' = NoHandler
    /\ joiner' = [joiner EXCEPT ![handler.peer] = IF @ = "waiting" THEN "gone" ELSE @]

\* The ticket's file is read and removed; a ticket that is not there is unknown
\* or used.
RemoveTicket ==
    /\ At("remove")
    /\ IF handler.ticket \in tickets
       THEN /\ tickets' = tickets \ {handler.ticket}
            /\ unsyncedRemovals' = unsyncedRemovals \cup {handler.ticket}
            /\ Continue("sync")
            /\ UNCHANGED joiner
       ELSE Reject /\ UNCHANGED <<tickets, unsyncedRemovals>>
    /\ UNCHANGED <<peerFiles, unsyncedPeers, expired, issued, trust, running, admittedBy,
                   crashes, ioFaults>>

\* The removal is made durable.
SyncTicket ==
    /\ At("sync")
    /\ Synced
    /\ Continue("admit")
    /\ UNCHANGED <<tickets, peerFiles, expired, issued, trust, running, joiner, admittedBy,
                   crashes, ioFaults>>

\* The ticket cannot be removed, or its removal cannot be synced. The lock is
\* not waited for (LOCK_NB), so finding it held by the invite command is one of
\* the ways to fail before the removal.
ConsumeFails ==
    /\ At("remove") \/ At("sync")
    /\ ioFaults < MaxIoFaults
    /\ ioFaults' = ioFaults + 1
    /\ Reject
    /\ UNCHANGED <<disk, expired, issued, trust, running, admittedBy, crashes>>

\* The ticket's validity is checked after it is gone.
CheckExpiry ==
    /\ At("admit")
    /\ IF handler.ticket \in expired
       THEN Reject
       ELSE Continue("write") /\ UNCHANGED joiner
    /\ UNCHANGED <<disk, expired, issued, trust, running, admittedBy, crashes, ioFaults>>

\* trust_add looks for room only when the peer sorts after all others.
TrustTableFull(p) ==
    /\ \A q \in trust : q < p
    /\ Cardinality(trust) = MaxTrusted

\* Mutant: the temporary file is not renamed.
TemporaryFor(p) == peerFiles

FilesWith(p) == peerFiles \cup {p}

\* trust_add: private_write_atomically puts the file in place (rename)...
WritePeer ==
    /\ At("write")
    /\ IF TrustTableFull(handler.peer)
       THEN Reject /\ UNCHANGED <<peerFiles, unsyncedPeers>>
       ELSE /\ peerFiles' = FilesWith(handler.peer)
            /\ unsyncedPeers' =
                    unsyncedPeers \cup (IF handler.peer \in peerFiles THEN {} ELSE {handler.peer})
            /\ Continue("reply")
            /\ UNCHANGED joiner
    /\ UNCHANGED <<tickets, unsyncedRemovals, expired, issued, trust, running, admittedBy,
                   crashes, ioFaults>>

\* ... and syncs the directory; then the table is updated and the joiner told.
AddAndReply ==
    /\ At("reply")
    /\ Synced
    /\ trust' = trust \cup {handler.peer}
    /\ admittedBy' = admittedBy \cup
            (IF handler.ticket = NoTicket THEN {} ELSE {<<handler.ticket, handler.peer>>})
    /\ joiner' = [joiner EXCEPT ![handler.peer] = IF @ = "waiting" THEN "accepted" ELSE @]
    /\ handler' = NoHandler
    /\ UNCHANGED <<tickets, peerFiles, expired, issued, running, crashes, ioFaults>>

\* trust_add fails, because the file cannot be written, or because the directory
\* cannot be synced with the file in place.
AddFails ==
    /\ At("write") \/ At("reply")
    /\ ioFaults < MaxIoFaults
    /\ ioFaults' = ioFaults + 1
    /\ Reject
    /\ UNCHANGED <<disk, expired, issued, trust, running, admittedBy, crashes>>

-----------------------------------------------------------------------------
(***************************************************************************)
(* Crash and restart                                                       *)
(***************************************************************************)

Crash ==
    /\ running
    /\ crashes < MaxCrashes
    /\ crashes' = crashes + 1
    /\ running' = FALSE
    /\ trust' = {}
    /\ handler' = NoHandler
    /\ \E back \in SUBSET unsyncedRemovals : tickets' = tickets \cup back
    /\ \E lost \in SUBSET unsyncedPeers : peerFiles' = peerFiles \ lost
    /\ unsyncedRemovals' = {}
    /\ unsyncedPeers' = {}
    /\ UNCHANGED <<expired, issued, joiner, admittedBy, ioFaults>>

\* trust_load accepts at most MaxTrusted files, and app_init no two peers with
\* one address.
Loadable(files) ==
    /\ Cardinality(files) <= MaxTrusted
    /\ \A p, q \in files : AddressOf[p] = AddressOf[q] => p = q

Restart ==
    /\ ~running
    /\ Loadable(peerFiles)
    /\ running' = TRUE
    /\ trust' = peerFiles
    /\ UNCHANGED <<disk, expired, issued, handler, joiner, admittedBy, crashes, ioFaults>>

Next ==
    \/ \E t \in Tickets : InviteStore(t) \/ Expire(t)
    \/ \E p \in Peers :
        \/ \E t \in Tickets \cup {NoTicket} : JoinRequest(p, t)
        \/ BecomeMember(p)
        \/ GiveUp(p)
    \/ InviteFails
    \/ RemoveTicket \/ SyncTicket \/ ConsumeFails \/ CheckExpiry
    \/ WritePeer \/ AddAndReply \/ AddFails
    \/ Crash \/ Restart

Spec == Init /\ [][Next]_vars
-----------------------------------------------------------------------------
\* A ticket admits one peer, however requests, the invite command, expiry, failed
\* syncs and crashes interleave: it is removed, durably, before anything else.
TicketAdmitsOnePeer ==
    \A a, b \in admittedBy : a[1] = b[1] => a[2] = b[2]

\* A node that saved the inviter as its trusted bootstrap is, and after any crash
\* will be, trusted by the inviter: acceptance is sent only once the trust file
\* is durable.
MemberStaysTrusted ==
    \A p \in Peers : joiner[p] \in {"accepted", "member"} =>
        /\ p \in peerFiles \ unsyncedPeers
        /\ running => p \in trust

\* The tickets that may still admit a peer: on disk, or brought back by a crash,
\* or about to be used by the request that has removed it.
BeingUsed ==
    IF handler # NoHandler /\ handler.step \in {"sync", "admit", "write"}
    THEN {handler.ticket} \ {NoTicket}
    ELSE {}

Usable == tickets \cup unsyncedRemovals \cup BeingUsed

Told == {p \in Peers : joiner[p] \in {"accepted", "member"}}

Book == INSTANCE Invitations WITH good <- Usable, known <- peerFiles, told <- Told

\* trust_add, invite_consume and invite_store keep what Invitations promises, each
\* at the step of theirs that decides: a peer is let in when its file is renamed
\* into place, by a ticket that is not on disk any more and cannot come back; also
\* when the rest of trust_add fails, and when the file is lost in a crash.
IsInvitations == Book!Spec

\* Whatever fails, never more peers are trusted, or will be at the next start,
\* than there were invitations, less those that may still be used.
PeersWereInvited ==
    Cardinality(peerFiles) + Cardinality(Usable) <= Cardinality(issued)

\* The trust table a daemon has built can be loaded by its next start.
TrustIsReloadable == Loadable(peerFiles)
=============================================================================
