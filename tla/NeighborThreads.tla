-------------------------- MODULE NeighborThreads ---------------------------
(***************************************************************************)
(* The threads of one daemon that share the topology, the stored           *)
(* advertisements and the routing table: one worker per session and the    *)
(* routing loop.  A step is what a thread does while it holds one mutex    *)
(* (topology_mutex, routing_mutex, sessions_mutex, routing_wakeup_mutex);  *)
(* between two steps any other thread may run.                             *)
(*                                                                         *)
(* rebuild_routing_table copies the topology under one mutex and builds the*)
(* table under another, so the copy can be out of date: it is the variable *)
(* snap.  A worker's program is, in the names pc takes,                    *)
(*                                                                         *)
(*   none -> activate -> REBUILD -> idle                       (dialled)   *)
(*   none -> join -> touch [-> REBUILD] -> handle -> activate -> REBUILD   *)
(*        -> idle                                              (accepted)  *)
(*   idle -> touch [-> REBUILD] -> handle [-> REBUILD] -> idle (a message) *)
(*   idle -> check [-> down -> forget -> REBUILD] -> none      (closed)    *)
(*                                                                         *)
(* with REBUILD = snapshot -> rebuild -> mark.  A dialled session is       *)
(* registered and activated by reconnect_step before its worker starts;    *)
(* the two never run at once, so they are one thread here.                 *)
(***************************************************************************)
EXTENDS RoutingTable

CONSTANTS
    Workers,      \* sessions, each with its worker thread
    PeerOf,       \* PeerOf[w]: the peer at the other end
    Dialled,      \* the sessions this daemon dials; it accepts the others
    Loop,         \* the routing loop's thread
    AdvVectors,   \* the vectors peers advertise
    MaxSessions,  \* bound: sessions established with one peer
    MaxSequence,  \* bound: advertisements a peer sends on one session
    MaxSilences   \* bound: times a peer falls silent or an advertisement ages

ASSUME WorkersAssumption ==
    /\ PeerOf \in [Workers -> Nodes]
    /\ Dialled \subseteq Workers
    /\ Loop \notin Workers
    /\ AdvVectors \subseteq Vectors
ASSUME BoundsAssumption ==
    MaxSessions \in Nat /\ MaxSequence \in Nat /\ MaxSilences \in Nat

VARIABLES
    registered, \* workers whose session is in app.sessions
    open,       \* workers whose session is open
    known,      \* peers in app.topology, in whatever state
    connected,  \* those in state Connected
    silent,     \* connected peers not heard from for more than 5 s
    table,      \* app.routing_table
    stored,     \* app.route_advertisements
    origin,     \* app.route_origins
    dirty,      \* app.routing_dirty
    pc,         \* where each thread is
    after,      \* where it goes when its rebuild is done
    snap,       \* the copy of the topology a rebuild works on
    msg,        \* the message a worker handles
    established,\* established[p]: sessions with p so far
    epoch,      \* epoch[w]: which of them w's session is
    sent,       \* sent[w]: advertisements received on the session
    resend,     \* the routing loop's local "dirty"
    announced,  \* the table as the routing loop last sent it
    silences    \* silences so far, to bound them

sessions == <<registered, open>>            \* under sessions_mutex
topology == <<known, connected, silent>>    \* under topology_mutex
routing  == <<table, stored, origin>>       \* under routing_mutex
shared   == <<sessions, topology, routing, dirty>>
peerLog  == <<established, epoch, sent>>
rest     == <<peerLog, resend, announced, silences>>
vars     == <<shared, pc, after, snap, msg, rest>>

Threads == Workers \cup {Loop}

Stamps == [generation : Nat, sequence : Nat]
Join == [kind |-> "JOIN_REQUEST"]
Hello == [kind |-> "HELLO"]
Other == [kind |-> "OTHER"]
Advertisement(stamp, vector) ==
    [kind |-> "ROUTE_ADVERTISEMENT", stamp |-> stamp, vector |-> vector]
Messages ==
    {Join, Hello, Other}
    \cup [kind : {"ROUTE_ADVERTISEMENT"}, stamp : Stamps, vector : Vectors]

Places == {"none", "join", "activate", "idle", "leave", "touch", "handle", "check", "down",
           "forget", "snapshot", "rebuild", "mark", "wait", "prune", "expire",
           "announce"}

TypeOK ==
    /\ registered \subseteq Workers
    /\ open \subseteq Workers
    /\ known \subseteq Nodes
    /\ connected \subseteq known
    /\ silent \subseteq connected
    /\ IsTable(table)
    /\ IsMap(stored, Nodes, Vectors)
    /\ IsMap(origin, Nodes, Stamps)
    /\ dirty \in BOOLEAN
    /\ pc \in [Threads -> Places]
    /\ after \in [Threads -> Places]
    /\ snap \in [Threads -> [connected : SUBSET Nodes, silent : SUBSET Nodes]]
    /\ DOMAIN msg = Workers /\ \A w \in Workers : msg[w] \in Messages
    /\ established \in [Nodes -> Nat]
    /\ epoch \in [Workers -> Nat]
    /\ sent \in [Workers -> Nat]
    /\ resend \in BOOLEAN
    /\ silences \in Nat

Init ==
    /\ registered = {} /\ open = {}
    /\ known = {} /\ connected = {} /\ silent = {}
    /\ table = NoRoutes
    /\ stored = [x \in {} |-> x]
    /\ origin = [x \in {} |-> x]
    /\ dirty = TRUE
    /\ pc = [t \in Threads |-> IF t = Loop THEN "wait" ELSE "none"]
    /\ after = [t \in Threads |-> "none"]
    /\ snap = [t \in Threads |-> [connected |-> {}, silent |-> {}]]
    /\ msg = [w \in Workers |-> Other]
    /\ established = [p \in Nodes |-> 0]
    /\ epoch = [w \in Workers |-> 0]
    /\ sent = [w \in Workers |-> 0]
    /\ resend = FALSE
    /\ announced = NoRoutes
    /\ silences = 0

\* The worker is done with its message.
Done(w) == msg' = [msg EXCEPT ![w] = Other]

Goto(t, place) == pc' = [pc EXCEPT ![t] = place]

\* Start rebuild_routing_table and continue at "then" when it is done.
StartRebuild(t, then) ==
    /\ Goto(t, "snapshot")
    /\ after' = [after EXCEPT ![t] = then]

Return(t) ==
    /\ Goto(t, after[t])
    /\ after' = [after EXCEPT ![t] = "none"]

-----------------------------------------------------------------------------
(***************************************************************************)
(* rebuild_routing_table and mark_routing_dirty                            *)
(***************************************************************************)

Snapshot(t) ==
    /\ pc[t] = "snapshot"
    /\ snap' = [snap EXCEPT ![t] = [connected |-> connected, silent |-> silent]]
    /\ Goto(t, "rebuild")
    /\ UNCHANGED <<shared, after, msg, rest>>

\* The routing loop does not mark its own rebuild dirty: it sends next anyway.
BuildTable(t) ==
    /\ pc[t] = "rebuild"
    /\ table' = Rebuild(snap[t].connected \ snap[t].silent, snap[t].connected, stored)
    /\ snap' = [snap EXCEPT ![t] = [connected |-> {}, silent |-> {}]]
    /\ IF t = Loop THEN Return(t) ELSE Goto(t, "mark") /\ UNCHANGED after
    /\ UNCHANGED <<sessions, topology, stored, origin, dirty, msg, rest>>

MarkRoutingDirty(w) ==
    /\ pc[w] = "mark"
    /\ dirty' = TRUE
    /\ Return(w)
    /\ UNCHANGED <<sessions, topology, routing, snap, msg, rest>>

-----------------------------------------------------------------------------
(***************************************************************************)
(* Sessions                                                                *)
(***************************************************************************)

\* register_session, called by reconnect_step once the peer accepted, or by
\* accept_loop: refused while an open session with the peer is registered.
Register(w) ==
    /\ pc[w] = "none"
    /\ \A v \in registered \cap open : PeerOf[v] # PeerOf[w]
    /\ established[PeerOf[w]] < MaxSessions
    /\ established' = [established EXCEPT ![PeerOf[w]] = @ + 1]
    /\ epoch' = [epoch EXCEPT ![w] = established'[PeerOf[w]]]
    /\ registered' = registered \cup {w}
    /\ open' = open \cup {w}
    /\ sent' = [sent EXCEPT ![w] = 0]
    /\ Goto(w, IF w \in Dialled THEN "activate" ELSE "join")
    /\ UNCHANGED <<topology, routing, dirty, after, snap, msg, resend,
                   announced, silences>>

\* activate_neighbor, in reconnect_step or in bind_session.
Activate(w) ==
    /\ pc[w] = "activate"
    /\ known' = known \cup {PeerOf[w]}
    /\ connected' = connected \cup {PeerOf[w]}
    /\ silent' = silent \ {PeerOf[w]}
    /\ StartRebuild(w, "idle")
    /\ UNCHANGED <<sessions, routing, dirty, snap, msg, rest>>

\* A send or a receive fails, in any thread, and closes the transport.
TransportFails(w) ==
    /\ w \in open
    /\ open' = open \ {w}
    /\ UNCHANGED <<registered, topology, routing, dirty, pc, after, snap, msg, rest>>

\* run_session leaves its loop, because the session is closed or was refused,
\* closes it and removes it from app.sessions (remove_session).
Remove(w) ==
    /\ pc[w] = "leave" \/ (pc[w] \in {"idle", "join"} /\ w \notin open)
    /\ open' = open \ {w}
    /\ registered' = registered \ {w}
    /\ Goto(w, "check")
    /\ UNCHANGED <<topology, routing, dirty, after, snap, msg, rest>>

\* deactivate_neighbor, under sessions_mutex: is there another session?
CheckAnother(w) ==
    /\ pc[w] = "check"
    /\ Goto(w, IF \E v \in registered : PeerOf[v] = PeerOf[w] THEN "none" ELSE "down")
    /\ UNCHANGED <<shared, after, snap, msg, rest>>

\* deactivate_neighbor, under topology_mutex.
Down(w) ==
    /\ pc[w] = "down"
    /\ connected' = connected \ {PeerOf[w]}
    /\ silent' = silent \ {PeerOf[w]}
    /\ Goto(w, "forget")
    /\ UNCHANGED <<sessions, known, routing, dirty, after, snap, msg, rest>>

\* deactivate_neighbor, under routing_mutex.
Forget(w) ==
    /\ pc[w] = "forget"
    /\ stored' = Without(stored, {PeerOf[w]})
    /\ StartRebuild(w, "none")
    /\ UNCHANGED <<sessions, topology, table, origin, dirty, snap, msg, rest>>

-----------------------------------------------------------------------------
(***************************************************************************)
(* Messages: run_session                                                   *)
(***************************************************************************)

\* The JOIN_REQUEST of a peer that may join arrives on an accepted session.
ReceiveJoin(w) ==
    /\ pc[w] = "join"
    /\ w \in open
    /\ msg' = [msg EXCEPT ![w] = Join]
    /\ Goto(w, "touch")
    /\ UNCHANGED <<shared, after, snap, rest>>

\* A HELLO or a message that only counts as a sign of life is read.
ReceiveKeepAlive(w, m) ==
    /\ pc[w] = "idle"
    /\ w \in open
    /\ m \in {Hello, Other}
    /\ msg' = [msg EXCEPT ![w] = m]
    /\ Goto(w, "touch")
    /\ UNCHANGED <<shared, after, snap, rest>>

\* An advertisement is read.  The peer's stamps grow along a session and from
\* one session to the next, so the session's number stands for the generation.
ReceiveAdvertisement(w, vector) ==
    /\ pc[w] = "idle"
    /\ w \in open
    /\ sent[w] < MaxSequence
    /\ sent' = [sent EXCEPT ![w] = @ + 1]
    /\ msg' = [msg EXCEPT ![w] = Advertisement(
                [generation |-> epoch[w], sequence |-> sent[w] + 1], vector)]
    /\ Goto(w, "touch")
    /\ UNCHANGED <<shared, after, snap, established, epoch, resend,
                   announced, silences>>

\* Mutants: a peer the topology does not know becomes Connected; a known one
\* stays as it is.
HeardFromAnyone(p) == connected \cup {p}
HeardInVain(p) == connected

\* The Connected peers once p was heard from, if the topology knows p.
Heard(p) == connected \cup ({p} \cap known)

\* touch_neighbor: only a peer the topology knows is set Connected.
Touch(w) ==
    /\ pc[w] = "touch"
    /\ connected' = Heard(PeerOf[w])
    /\ silent' = silent \ {PeerOf[w]}
    /\ IF PeerOf[w] \in connected \/ PeerOf[w] \notin known
       THEN Goto(w, "handle") /\ UNCHANGED after
       ELSE StartRebuild(w, "handle")
    /\ UNCHANGED <<sessions, known, routing, dirty, snap, msg, rest>>

\* The JOIN_REQUEST branch after touch_neighbor: the response is sent, and
\* bind_session refuses the session, under sessions_mutex, if another one with
\* the peer is still registered, be it closed.
HandleJoin(w) ==
    /\ pc[w] = "handle"
    /\ msg[w].kind = "JOIN_REQUEST"
    /\ LET refused == w \notin open \/ \E v \in registered \ {w} : PeerOf[v] = PeerOf[w]
       IN  Goto(w, IF refused THEN "leave" ELSE "activate")
    /\ Done(w)
    /\ UNCHANGED <<shared, after, snap, rest>>

\* heartbeat_process_hello sets the peer Connected again, and rebuilds nothing.
HandleHello(w) ==
    /\ pc[w] = "handle"
    /\ msg[w].kind = "HELLO"
    /\ connected' = Heard(PeerOf[w])
    /\ silent' = silent \ {PeerOf[w]}
    /\ Goto(w, "idle")
    /\ Done(w)
    /\ UNCHANGED <<sessions, known, routing, dirty, after, snap, rest>>

HandleOther(w) ==
    /\ pc[w] = "handle"
    /\ msg[w].kind = "OTHER"
    /\ Goto(w, "idle")
    /\ Done(w)
    /\ UNCHANGED <<shared, after, snap, rest>>

\* Mutant: stale advertisements are applied.
AcceptsAll(p, stamp) == TRUE

Accepts(p, stamp) == p \in DOMAIN origin => Fresher(stamp, origin[p])

\* distance_vector_update and the store, under routing_mutex.
HandleAdvertisement(w) ==
    LET p == PeerOf[w]
        applied == ApplyRoutes(table, p, msg[w].vector)
    IN  /\ pc[w] = "handle"
        /\ msg[w].kind = "ROUTE_ADVERTISEMENT"
        /\ IF Accepts(p, msg[w].stamp)
           THEN /\ origin' = With(origin, p, msg[w].stamp)
                /\ stored' = With(stored, p, msg[w].vector)
                /\ table' = applied
                /\ IF applied = table
                   THEN Goto(w, "idle") /\ UNCHANGED after
                   ELSE StartRebuild(w, "idle")
           ELSE Goto(w, "idle") /\ UNCHANGED <<origin, stored, table, after>>
        /\ Done(w)
        /\ UNCHANGED <<sessions, topology, dirty, snap, rest>>

-----------------------------------------------------------------------------
(***************************************************************************)
(* routing_loop                                                            *)
(***************************************************************************)

\* Mutant: the flag is read after it was cleared.
WakeThenRead ==
    /\ pc[Loop] = "wait"
    /\ dirty' = FALSE
    /\ resend' = dirty'
    /\ Goto(Loop, "prune")
    /\ UNCHANGED <<sessions, topology, routing, after, snap, msg, peerLog,
                   announced, silences>>

\* The wait ends, woken by routing_dirty or after 100 ms.
Wake ==
    /\ pc[Loop] = "wait"
    /\ resend' = dirty
    /\ dirty' = FALSE
    /\ Goto(Loop, "prune")
    /\ UNCHANGED <<sessions, topology, routing, after, snap, msg, peerLog,
                   announced, silences>>

\* topology_prune_stale.  "after" remembers whether a rebuild is due.
Prune ==
    /\ pc[Loop] = "prune"
    /\ connected' = connected \ silent
    /\ silent' = {}
    /\ after' = [after EXCEPT ![Loop] = IF silent # {} THEN "announce" ELSE "none"]
    /\ Goto(Loop, "expire")
    /\ UNCHANGED <<sessions, known, routing, dirty, snap, msg, rest>>

\* Some stored advertisements are 6 s old and go.  A rebuild is always followed
\* by sending; without one, the loop sends if it was woken or if 2 s passed.
Expire(aged) ==
    /\ pc[Loop] = "expire"
    /\ aged \subseteq DOMAIN stored
    /\ aged # {} => silences < MaxSilences
    /\ silences' = IF aged = {} THEN silences ELSE silences + 1
    /\ stored' = Without(stored, aged)
    /\ IF aged # {} \/ after[Loop] = "announce"
       THEN StartRebuild(Loop, "announce") /\ resend' = TRUE
       ELSE /\ UNCHANGED resend
            /\ after' = [after EXCEPT ![Loop] = "none"]
            /\ \/ Goto(Loop, "announce")
               \/ ~resend /\ Goto(Loop, "wait")
    /\ UNCHANGED <<sessions, topology, table, origin, dirty, snap, msg,
                   peerLog, announced>>

\* The table is copied under routing_mutex and sent to the active sessions.
Announce ==
    /\ pc[Loop] = "announce"
    /\ announced' = table
    /\ resend' = FALSE
    /\ Goto(Loop, "wait")
    /\ UNCHANGED <<shared, after, snap, msg, peerLog, silences>>

-----------------------------------------------------------------------------
\* Five seconds pass without a message from p.  No thread takes that long
\* between two of its steps, so all of them are at rest.
FallSilent(p) ==
    /\ silences < MaxSilences
    /\ \A t \in Threads : pc[t] \in {"none", "idle", "wait"}
    /\ p \in connected \ silent
    /\ silent' = silent \cup {p}
    /\ silences' = silences + 1
    /\ UNCHANGED <<sessions, known, connected, routing, dirty, pc, after,
                   snap, msg, peerLog, resend, announced>>

\* What a thread does once it is there, with nothing left to wait for.
WorkerProgress(w) ==
    \/ Snapshot(w) \/ BuildTable(w) \/ MarkRoutingDirty(w)
    \/ Activate(w) \/ Remove(w) \/ CheckAnother(w) \/ Down(w) \/ Forget(w)
    \/ Touch(w) \/ HandleJoin(w) \/ HandleHello(w) \/ HandleOther(w) \/ HandleAdvertisement(w)

LoopProgress ==
    \/ Snapshot(Loop) \/ BuildTable(Loop)
    \/ Wake \/ Prune \/ Announce
    \/ \E aged \in SUBSET Nodes : Expire(aged)

Receive(w) ==
    \/ ReceiveJoin(w)
    \/ \E m \in {Hello, Other} : ReceiveKeepAlive(w, m)
    \/ \E v \in AdvVectors : ReceiveAdvertisement(w, v)

Next ==
    \/ \E w \in Workers : WorkerProgress(w) \/ Receive(w) \/ Register(w) \/ TransportFails(w)
    \/ LoopProgress
    \/ \E p \in Nodes : FallSilent(p)

Spec == Init /\ [][Next]_vars

\* Threads that can run do; a peer whose session is up keeps sending (its
\* HELLOs every 2 s, or at least its FIND_NODE refresh every 5 s).
Fairness ==
    /\ \A w \in Workers : WF_vars(WorkerProgress(w)) /\ WF_vars(Receive(w))
    /\ WF_vars(LoopProgress)

FairSpec == Spec /\ Fairness
-----------------------------------------------------------------------------
\* No triggered update is lost: when the routing loop sleeps with nothing marked
\* dirty and no worker is on its way to mark it, the peers have been sent the
\* table as it is (mark_routing_dirty comes after the rebuild; routing_loop
\* clears the flag before it reads the table).
TriggeredUpdateNotLost ==
    (/\ pc[Loop] = "wait"
     /\ ~dirty
     /\ \A w \in Workers : pc[w] \notin {"snapshot", "rebuild", "mark"})
    => announced = table

\* The stamp recorded for a peer never goes back, though the worker of an old
\* session may still hold an old advertisement when the worker of the next one
\* has applied a newer one.
StampsNeverGoBack ==
    [][\A p \in DOMAIN origin :
        /\ p \in DOMAIN origin'
        /\ origin'[p] = origin[p] \/ Fresher(origin'[p], origin[p])]_vars

\* A session that stays up gets its peer back to Connected for good once the
\* silences are over, also when the worker of the peer's previous session
\* disconnects it late (deactivate_neighbor looks for another session, unlocks,
\* and only then writes the topology).
SessionUpMeansConnected ==
    \A w \in Workers :
        <>[](w \in registered /\ w \in open) => <>[](PeerOf[w] \in connected)

HasDirectRoute(p) == p \in DOMAIN table /\ table[p].next_hop = p

\* The routing table follows the topology: a peer that stays Connected and alive
\* is eventually in it, one that stays disconnected is eventually out of it.
\* rebuild_routing_table copies the topology under one lock and fills the table
\* under another, so that an older copy can be the last to arrive.
RoutesFollowPeers ==
    \A p \in Nodes :
        /\ <>[](p \in connected \ silent) => []<>HasDirectRoute(p)
        /\ <>[](p \notin connected) => []<>~HasDirectRoute(p)
=============================================================================
