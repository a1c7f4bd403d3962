# Verification of madoka

madoka is a small overlay network: every node runs a daemon that keeps TLS
sessions with the peers it trusts, exchanges routing information with them and
carries IPv6 packets of a virtual interface over those sessions. This directory
holds TLA+ models of it, TLC configurations that check the models on small
instances, and proofs checked by TLAPS.

All paths below are relative to the repository (`src/` of this workspace).

## 1. The system and its parts

| part | state | operations | hard behaviour |
|---|---|---|---|
| distance-vector routing (`src/network/distance_vector.cpp`, `routing.cpp`, `route_advertisement.cpp`) | bounded vector of routes, one per destination | apply an advertisement, add a route, poison reverse | order of entries, full table, metrics that saturate |
| routing plane of the daemon (`src/core/daemon.cpp`, `topology.cpp`, `heartbeat.cpp`) | sessions, topology, stored advertisements, last stamps, routing table, dirty flag | activate, deactivate, touch a neighbor; rebuild; the routing loop; the branches of `run_session` | one thread per session and four more share it under separate mutexes |
| the mesh (several daemons) | what each daemon believes, what is in flight | dial, accept, lose a session, restart, advertise | both ends notice a loss on their own; sequence numbers start again after a restart |
| invitations and trust (`src/security/invite.cpp`, `app.cpp`) | ticket files, one trust file per peer, the trust table in memory | issue, consume, add, load | another process writes the same directory; crash between any two file operations |
| identity (`src/crypto/identity.cpp`) | key, id, generation on disk | load, save, bump the generation at each start | the generation must be durable before anything is sent |
| storage (`src/platform/private_storage.cpp`, `durability.cpp`, `file_lock.cpp`) | files | write a temporary file, sync, rename, sync the directory; lock | failure or crash between these |
| joining node (`run_join`, `join.cpp`, `kademlia.cpp`, `node_state.cpp`) | node state, Kademlia table | request, self lookup, announce | timeouts, rejected or lost responses, messages that come before the awaited answer |
| data plane (`forward_data_packet`, `data_plane_loop`, `forwarding.cpp`) | packet id, recently used ports | forward, deliver, drop | loops while tables disagree |
| transport (`src/transport/session.cpp`, `src/protocol/codec.cpp`) | receive buffer, open or closed | send, receive, close | partial frames, a close while another thread sends |
| lifecycle (`lifecycle.cpp`, `app_shutdown`, `wait_for_shutdown`) | running flag, threads, lists of sessions and workers | start, stop, join | every thread must notice; sessions and workers appear while shutdown goes on |

The parts meet in `AppState`: session workers call the routing plane and the
trust store, the routing loop reads sessions and topology and sends, the
reconnect loop reads the trust table and creates sessions, the data plane reads
the routing table, and the `invite` command, a process of its own, shares the
trust directory with the daemon.

What makes each part correct, and what a test would hardly reach, is the list
`hazards` of `PROJECT.json`.

## 2. Modules

**RoutingTable** - the computations of the routing plane as operators on maps:
`ApplyRoutes` is `apply_routes`, `Fresher` the check of
`distance_vector_update`, `Rebuild` what `rebuild_routing_table` computes, and
`PoisonReverse` what `route_create_advertisement` sends. Node ids are natural
numbers (only their order is used), link cost is 1 as in every call of the
daemon.

**RouteVector** - the same as the code has it: a vector, the loops over it,
`MAX_ROUTE_TABLE_ENTRIES`. A loop is the recursive function from the number of turns
done to the table after them: `Kept` and `Applied` are the two loops of `apply_routes`,
`DirectAdded` (over the topology, in the order in which peers entered it) and
`AdvertisedAdded` (over the stored advertisements, by id) those of
`rebuild_routing_table`. Its actions are the events that reach the table (neighbor up
and down, advertisement accepted or expired). Which connected peers are alive at
a rebuild is a free choice. It ties `RoutingTable` to the code. The receiving code
checks neither the metrics of an advertisement (0 is accepted) nor that its
destinations differ. Metrics are therefore 0 to infinity here; destinations differ
because the table a node sends has one entry for each (see 6).

**MeshRouting** - several daemons. `session[n]` are n's registered sessions,
`connected[n]`, `silent[n]`, `table[n]`, `stored[n]`, `origin[n]` its topology,
table, advertisements and stamps, and `channel[n][p]` what n sent to p. Each
handler is one atomic step: `Dial`, `DialSucceeds`, `DialFails`
(`reconnect_step` and the JOIN_REQUEST branch at the other end), `SessionLost`
(`close_session`, `remove_session`, `deactivate_neighbor`), `Restart`,
`AdvertiseTo` and `RoutingPass` (`routing_loop`), `HearFrom` and
`ReceiveAdvertisement` (`run_session`), `FallSilent` (five seconds pass). What is
on its way was sent by a node, so its metrics are 1 to infinity (`SentVectors`).

**NeighborThreads** - one daemon, its handlers split at their mutexes. A step is
what a thread does under one lock; `pc` says where each thread is and `snap` is
the copy of the topology a rebuild works on. Session workers run the accept and
dial paths, the message loop and the exit path; `Loop` is `routing_loop`.

**Admission** - tickets, trust files, the trust table, one join request at a
time (`trust_mutex`), the `invite` command beside it, failed file operations and
crashes. A file operation is seen at once by running programs and is durable once
the directory is synced: `unsyncedRemovals` are the removed tickets a crash may
bring back, `unsyncedPeers` the trust files a crash may lose. The order of the
steps is the code's: remove the ticket, sync, look at the expiry, write the trust
file, sync, update the table, answer.

**Invitations** - the abstract specification **Admission** implements: invitations are
issued, lapse or let one peer in, and who was told that it is accepted stays known when
the node stops. In `Book` a peer is known from the moment its trust file is renamed into
place, and an invitation is good while its file is on disk, or may come back, or has been
taken by the request being decided (`Usable`). A crash between the removal and the trust
file makes it lapse. A peer `trust_add` rejects after the rename has been let in: its file
is read at the next start, and the invitation is gone.

**MessageStream** - what a session promises to the daemon in one direction:
messages whole, once, in order, and all of them while the receiving end is open. A
receive that is under way when the session closes may return one more, the next
message or bytes that are none (`Finish`), and after it there is nothing. This is the abstract specification **Transport** implements: two or more threads
that send under `send_mutex`, frames on a byte stream that are written and read in
any pieces, the bounded receive buffer, timeouts, the end of the stream, and the
ways in which either end closes. A byte is named by its message and its place in
that message's frame, so that bytes out of place can be told from a header.
`transport_receive` is split where another thread can come in between. A receive
timeout leaves the TLS session or frees it (`dropped`), whatever OpenSSL reports;
`is_open` stays either way. For MessageStream a session without TLS is closed
(`Phase`). (Its
specification is `SessionSpec`, its types `SessionTypeOK`.)

**DataPlane** - packets in a mesh whose routes and sessions change at will
(`SetRoute`, `LinkUp`, `LinkDown` stand for the routing plane). `ReadTun` is
`data_plane_loop`, `ReceiveData` with `Forward` is `handle_data_message` and
`forward_impl`, and `Transmit` the send handler, a step of its own because the route
is copied under `routing_mutex` and the session is looked for later. A packet
carries the nodes it has been at, which the code does not.

**PortFilter** - the table `active_outbound_ports` of one node: a packet of the
interface opens its port for answers, an arriving one is written if its port is
shared or open, and the table is cleaned when it is large. Beside it a table that
never forgets anything says what the verdicts should be. (Its specification is
`FilterSpec`, its types `FilterTypeOK`.)

**IdentityStore** - processes started on one state directory, by the `start` or the
`join` command: the lock file, which is created by rename (a lock belongs to the
file, not to its name), the identity file with key and generation, the
configuration file, crashes of a process and of the machine. `file` is what
processes see and `durable` what a crash leaves. (Its specification is `StoreSpec`, its
types `StoreTypeOK`.)

**Lifecycle** - the threads of one daemon from start to exit. The main thread is
`daemon_run` or `run_join`, `wait_for_shutdown` and `app_shutdown` (`main` says where
it is); the accept, reconnect, data plane and routing loops and one worker per
session run beside it (`at`, `on`). What they compute is left to the other modules:
here are the flags they look at, the mutexes of a session they hold while they
wait, the lists `sessions` and `session_workers`, and what the main thread takes away
in the end (server, interface, identity, status file).

**Kademlia** - `kademlia_insert`, `kademlia_find_closest` and the metric, on tables
that are sets of ids. An id is the set of its one bits, so that the exclusive or is the
symmetric difference and comparison byte by byte is decided by the first bit that
differs (`Below`). An answer is a set as well: it is sorted by the distance to the node
that inserts its contacts, and `InsertAll` says what the loop over it makes of a table.

**Joining** - two daemons, one of which joins the other. `run_join` is the sequence of
`phase`s: the exchange of JOIN_REQUEST and JOIN_RESPONSE, the rounds of
`kademlia_self_lookup` with `query_peer`, `announce_to_peer`, the start of the threads.
The other end, and both ends afterwards, have `run_session` for each session
(`Worker`), `accept_loop` (in `Connect`) and `reconnect_step` (`Redial`). Messages wait
in `inbox` in order; HELLO stands for everything `routing_loop` and the data plane
send without being asked. Whom the inviter trusts and what is on the disk is
Admission's part: here a ticket is good or not.

**MCRouteVector, MCMeshRouting, MCNeighborThreads, MCAdmission, MCTransport,
MCLifecycle, MCJoining** - values for the constants of the runs. **MCDataPlane** puts
DataPlane and PortFilter into one run; they share no state. IdentityStore needs none.

**RoutingTableProofs, RouteVectorProofs, MeshRoutingProofs, NeighborThreadsProofs,
LifecycleProofs, JoiningProofs** (with Kademlia) - theorems and their proofs.
**DataPlaneProofs** has those of DataPlane, PortFilter and Transport, what carries
packets, and **StateDirectoryProofs** those of Admission and IdentityStore, what is kept
on the disk; this is why some names begin with `Filter`, `Session` and `Store`.

## 3. Runs

Every property has a mutant, a definition changed the way a slip in the code
would change it, under which TLC finds the property violated; they stand in the
modules, before the definitions they mutate.

* **RouteVector** (4 nodes, 2 of them neighbors that come in either order, 3 entries,
  infinity 4;
  advertisements of one destination with metric 1, 2 or infinity, or 0 if it is a
  neighbor, of two with 1 or infinity, and of any set in ascending and in descending
  order): while all
  destinations fit, the vector is what `Rebuild` says after every event and the loop
  of `apply_routes` computes `ApplyRoutes`; always, a direct neighbor has a route of
  metric 1, its own unless a connected neighbor with a lower id claims to be 0 away from
  it, and every
  entry is a direct route or is still advertised by its next hop. Two neighbors and
  two destinations more are enough for every branch: direct against advertised,
  tie, refresh, withdrawal, poison, full table. Which destinations a full table
  drops depends on the order of the advertised routes, hence both orders.
* **Mesh** (1 - 2 - 3, two failures or timeouts, two starts and two advertisements of
  each node, one message in flight on a link): routes only through sessions, metrics
  never below the distance, the table always a rebuild, and stamps in flight on a live
  session fresh, also after a restart. Node 2 forwards news between nodes that do
  not know each other, the smallest network in which counting up happens; infinity
  is 4, so metrics reach it.
* **Threads** (two sessions of one peer, one dialled and one accepted, one silence,
  a second destination behind the peer; with fairness): no triggered update is lost,
  stamps never go back, and a session that stays up has its peer Connected in the
  end.
* **ThreadsRoutes** (one session; with fairness): violated, see 5.
* **Admission** (four joining nodes, two of them with one virtual address, three
  tickets, at most two active, a trust table of two, two crashes, one I/O
  failure): tickets are single use, acceptance is durable, the whole implements Invitations, and there are never more peers than invitations used up.
* **AdmissionReload** (three nodes with addresses of their own, no failure at
  all): violated, see 5.
* **Transport** (two senders, three messages with payloads of 0, 2 or 3 bytes,
  header of 2, largest message 4, buffer of 5, chunks of 3; with fairness): the
  session implements MessageStream, with timeouts that leave or free the TLS session and
  at most one late message, and honest messages never make the receiving end
  refuse a header or overflow. A frame is longer than a chunk, two frames may
  share the buffer, and a payload of 3 is one byte too long.
* **DataPlane** (three nodes, two packets to one destination, first TTL 2; with
  fairness): TTL and path add up, only packets that went in a circle expire, every
  packet ends. Three nodes are the most the assumption on the TTL allows with TTL 2,
  so a path that just fits and a circle both occur. The same run has PortFilter (three
  ports, one of them shared, a window of 2, a clock up to 6, cleaned when it has more
  than one entry): the table decides as one that never forgets, at the edges of the
  window and of the limit at which it is cleaned.
* **Identity** (two processes, three starts, two keys, two lock files; `Careful`): once
  the lock file has settled (nobody is about to replace it or has an older one open) it
  stays so and there is one owner at a time (`LockSettles`), and, if the lock file was put
  into place once, each start has the key of the earlier ones and a greater
  generation, with crashes at any point. `Careful` is an assumption on the operator that
  the code does not enforce: nothing is started during a join, and nobody joins on a
  directory a daemon has run on. Daemons are started at any time, also two at once on
  an empty directory.
* **IdentityOwners** (the same with two starts): violated, see 5.
* **Lifecycle** (two connections, at most two registered, each with a peer of its
  own; started or joining; with fairness; deadlock is checked): see 2. Two
  connections are the fewest with which one thread sends on the session another
  worker receives on, a finished worker is taken out by the thread that starts the
  next one, and a session is made while shutdown has begun.
* **Joining** (ids of three bits, K = 2, one contact queried in a round, two rounds;
  the joining node with the lower or the higher id, three other contacts the inviter may
  know; two connections at a time, two faults and two messages nobody asked for; with
  fairness): buckets keep their limit, what a joined node can rely on
  (`JoinComplete`), and the two ends agree in the end (`PairSettles`). With K = 2 the
  bucket of the inviter's half can be full in either table, an answer holds as many
  contacts as allowed, and the rounds are just enough, as in the code (10 rounds of 3 for
  20 contacts). Two faults allow a session to be lost during the join and again on
  the first redial.

Bounds are constants named `Max...` in each module, and cut off behaviours only by
disabling further sends, restarts, failures or silences. Deadlock is not checked
in the runs whose bounds stop the system (in Joining: the join has failed, or all is
quiet and nobody may send any more); in the others it is.

**Fairness.** NeighborThreads: every thread that can run does, and a peer whose
session is up keeps being heard (it sends HELLO every 2 s, and FIND_NODE every 5 s
when the session is quiet). New sessions, failures and silences are not fair;
silences are bounded, so "in the end" means after the last. Transport: the threads
run, and bytes on the wire, or the end of the stream, are read in the end although
a read may time out first any number of times, as long as no timeout has freed the TLS
session: weak fairness for the steps of the
threads, strong fairness for `Read` and `ReadEnd`, which a timeout disables each
time. Closing and starting a send are not fair. DataPlane: workers take what arrives and
threads finish what they began (weak fairness of `ReceiveData` and `Transmit`); the
routing plane may go on changing for ever. Lifecycle: every thread that can take a
step does. Calls that wait have limits: 200 ms for `transport_accept`,
`receive_on_session` and `tun_read_packet`, 100 ms for the routing loop's wait,
SO_RCVTIMEO and SO_SNDTIMEO on every socket from `tls_handshake` on
(`socket_set_timeout`), so that a mutex of a session is held for a bounded time.
Signals and connections are not fair. Joining: `run_join`, the reconnect loops and the
workers go on; faults and messages nobody asked for are bounded, so "in the end" means
after the last. A redial that meets a session the acceptor has closed and not yet
removed is refused (`bind_session`); the pause of at least half a second in
`reconnect_loop` makes that an accident, and it counts as a fault (`Redial`).

## 4. Proofs

All theorems are for every value of the constants that satisfies the named
assumptions of the modules.

* **RoutingTable**: a rebuild picks, for each destination, the most preferred of
  its candidates (`Preferred` is a strict order, candidate sets are finite).
  `UnchangedNeedsNoRebuild`: if applying an advertisement to a rebuilt table
  changes nothing, then storing it and rebuilding gives the same table. This is
  the reason the early return of the ROUTE_ADVERTISEMENT handler is right.
* **RouteVector**: what a recursive function computes is known only once it is shown to
  exist. `LoopRuns` proves that a loop given by its first table and its turns exists, and
  `LoopKeeps` that what every turn keeps holds at the end, both by the least turn at which
  it would fail. With these, `EraseIs`, `ApplyVectorIs`, `DirectIs` and `AdvertisedRuns` say
  what each loop of the code does to any table. The invariant, `Backed`, is about the
  vector and what it was made from: proper (bounded, one entry per destination), every
  entry the most preferred candidate of its destination (`Best`), every destination that
  has a candidate in it unless it is full (`Complete`), every neighbor alive at the last
  rebuild in it. It holds after a rebuild whatever overflows (`RebuildIsBacked`), and an
  advertisement that changes nothing keeps it although what is stored changes
  (`UnchangedIInv`, with `UnchangedNeedsNoRebuild`'s argument, and for a destination that
  found no room because the table is full). `DirectRoutesStay` and `RoutesAreBacked` follow at
  once; `RebuildIsSpared` because a table that is full and holds only destinations that fit
  holds all of them, by counting. `LoopComputesApplyRoutes` is for any advertisement that
  fits, in any order of its routes. Assumed: the topology holds no more peers than the
  table entries (16 and 16), ids are not 0, and destinations of an advertisement are
  distinct, which the receiver does not check and the sender's table gives. Metrics are 0 to
  infinity: with 0 a neighbor's candidate ties with a direct route and the lower next
  hop wins, which is the exception in `DirectRoutesStay`.
* **MeshRouting**: the inductive invariant `IInv` adds to the types and to
  `TableIsRebuild` that sessions follow links and connected peers have sessions
  (`Linked`), and that whatever is stored or in flight claims no path shorter than
  there can be (`Advertised`). The table properties alone are not inductive: an
  honest table comes from honest advertisements, and these from honest tables.
  `TablesAreRebuilds`, `RoutesHaveSessions` and `MetricsAreHonest` follow. Of
  distances only the triangle inequality along links is assumed. `InFlightPasses` has an
  invariant of its own, `FreshInv`: for any two nodes, what the receiver has recorded, what
  is on its way, in order, and the stamp the sender will use next ascend. It speaks of all
  pairs, not only of those with a session: a session may come up after any history, and
  finds the order there. A restart raises the generation and so the next stamp, and empties
  what is on its way; `Fresher` is transitive.
* **NeighborThreads**: `UpdatesAreNotLost` needs to know what the loop still has
  to do at each of its places (`LoopOnCourse`) and that a table different from
  the announced one is always owed to somebody: a dirty flag, a worker on its
  way to set it, or the loop before its announcement (`UpdatePending`).
  `StampsOnlyGrow` is an action property.
* **IdentityStore**: `FreeInv` holds whatever the operator does: what a process has in
  memory at each of its places (`MemoryInv`), and that an owner has a lock file open and no
  two owners the same one (`HoldInv`). `SettledLockHasOneOwner` follows without `Careful`:
  when all open files are the one at the path, no two owners is one owner, and nobody
  can make another file. So does `OneFileOneOwner`. The rest has `Careful` as hypothesis and
  is about directories where the lock file was put into place once; without either it is
  false, see 5. `JoinInv`: a joining process has to itself a directory on which no daemon
  has run. `OwnerInv`: the owner's copy is what the file holds, or the one before it while it
  syncs. `StartsInv`: neither the file, nor what a crash leaves of it, nor what an owner has
  loaded is behind the generations that were started; it is what `GenerationsAdvance` needs
  and the code gets from syncing before it goes on. Assumed: generations have a
  largest value above 1.
* **Admission**: the invariant says, for the request being decided, what has
  happened to its ticket at each step (`HandlerInv`), and that a ticket on disk,
  or that may come back, has admitted nobody (`DiskInv`). The refinement also needs that a
  request without a ticket is one of a trusted peer (`RequestInv`), whose file `WritePeer`
  only replaces. `AdmissionKeepsTheBook`: each action is one of Invitations or changes nothing
  there; the requests that fail only let invitations lapse, and only `WritePeer` lets a peer
  in. `InvitationsBoundPeers` follows by counting along those abstract steps, each of
  which trades one invitation for one peer at most.
* **DataPlane**: the invariant says what a packet's path and TTL are on the wire, in
  a thread's hands and when it has expired. An expired packet's path has
  `InitialTtl` + 1 nodes and does not contain the destination; with at most
  `InitialTtl` + 1 nodes in the mesh (`TtlAssumption`; the code has 64 and at most 16
  peers per node) some node is on it twice, by the pigeonhole principle.
* **Transport**: `StreamInv` says that, while the receiving end is open, four pieces in this
  order are the rest of the stream: `recv_buffer`, what was just read, the wire, and what
  the one thread that is sending has still to write (`SendInv`: there is only one). A piece
  runs from a place to a place (`Runs`); pieces can be joined and cut (`RunsConcat`,
  `RunsSplit`), and a piece that begins at a frame begins with that frame (`RunsWhole`). So
  the header in the buffer of an open end is always the next message's (`OpenHeader`), it is
  never refused and the buffer never full (`HonestIsNotRefused`), and what is taken is the next
  message, whole (`TakesNext`). For what comes late, `LateInv`: no complete message is in the
  buffer during a read, so none is left there when a timeout frees the TLS session, and what
  a receive inserts after the close begins within the next message, so that it is that
  message or none. `SessionIsStream`: a session implements the safety of
  MessageStream, step by step. Assumed of the sizes: a header is not empty and not longer
  than the largest message, which is not longer than the buffer.
* **PortFilter**: the table and the one that never forgets agree on every port whose
  last traffic lies within the window (`Agrees`); cleaning and aging only remove
  entries outside it.
* **Lifecycle**: the invariant has a part for each of the questions. `StartInv`: before
  `startall` no thread has been started, and the identity is held until the end. `LoopInv`:
  the loops shutdown has joined so far (`Passed`) never ran or have ended. `WorkerInv`:
  every worker that was started is in `session_workers`, in shutdown's copy of it or has
  been joined, and `session_workers` is empty once shutdown has taken it. `HoldInv` and
  `OwnInv`: a session is used once, and one that is open or registered has a live worker or
  is held by exactly one of the accept and reconnect loops. A session that
  `AcceptHandshake` or `ReconnectRegister` registers can come after shutdown's copy only if
  its loop has not ended, and shutdown copies after it has joined the loops. `ExitInv`: what is
  released and empty at the end. `ReleasedLast`, `EverySessionOwned` and `ExitsClean`
  follow for any number of sessions.

* **Kademlia**: `Below` is a strict total order and the distance to a node tells its
  contacts apart, so that those nearer than a contact can be counted (`Ranks`): `Closest`
  takes as many as it was asked for, or all (`ClosestAre`). A contact that shares more bits
  with a node is nearer to it (`DeeperIsNearer`), and what shares a bucket with a node is
  nearer to it than the owner of the bucket is (`BucketMates`). `InsertKeeps` and
  `InsertAllKeeps` keep every bucket within its limit. `InsertAllIsTheLoop` gives the two
  facts by which `InsertAll` is the code's loop: nothing changes nothing, and one contact more
  at the end of the answer is one more `kademlia_insert`.
* **Joining**: the core of `JoinIsComplete` is what the inviter may answer
  (`AnswerIsStorable`): if it had no room for the joining node, the bucket it would be in
  is full, and then all K contacts of the answer share more bits with the node than the
  inviter does, so that the inviter has a bucket to itself; otherwise the node is one of
  the K and at most K - 1 others are left. Either way all fit (`AnswerIsStored`). The
  invariant says so of every acceptance on its way (`MailInv`: who sends one trusts, and
  its contacts are `Storable`), which holds because an answer is decided on before it is
  computed (`ReplyInv`), and that until the node is active no other thread touches its
  table (`AloneInv`), so that the lookup starts from what it was told (`KnownInv`). `LookupInv`
  then counts: each round in which the inviter is not asked asks Alpha others of the
  same K nearest contacts, and Alpha * MaxRounds >= K (`LookupGoesOn`). Assumed: that, and
  that the two nodes have different ids.

The types of every module are theorems too (`AdmissionTypes`, `FilterTypes`,
`SessionTypes`, `StoreTypes`, `JoiningTypes` and the others): every invariant and every
action property of the runs that expect none violated is proved.

Only model-checked: everything under fairness (`SessionUpMeansConnected`,
`EveryPacketEnds`, `StopLeadsToExit`, `PairSettles`, and that every message arrives in
`IsMessageStream`), which needs ENABLED. That a whole answer is what the loop makes of it
follows from `InsertAllIsTheLoop` by induction over the answer; induction over data is out
of the provers' reach.

## 5. What the runs found

* `trust_add` checks the size of the table only when the new peer sorts last. With
  a full table a peer that sorts earlier is added, and `trust_load` refuses the
  directory at the next start (run AdmissionReload).
* `rebuild_routing_table` works on a copy of the topology. If two rebuilds
  overlap, the one with the older copy can be the last to write: a connected peer
  stays without a route, or a lost peer keeps one, until some other event causes a
  rebuild (run ThreadsRoutes). The loop rebuilds only when it prunes or expires
  something.
* `file_lock_acquire` creates a missing lock file by rename. Two processes that both
  find none can each lock their own and both go on, although the second should be told
  "State is already in use by another process" (`file_lock.cpp:85`; run
  IdentityOwners). Both are plain starts of the daemon. Once the file is there it does
  not happen (`LockSettles`).

The models show some more things that no run of the project is about:

* On POSIX a receive timeout is EAGAIN, which OpenSSL reports as SSL_ERROR_WANT_READ.
  `tls_receive` then closes the TLS session (`tls.cpp:432`) while `transport_receive`, which
  looks at errno, takes it for a timeout and leaves the session open (`session.cpp:382`).
  Such a session receives nothing more, and ends with the next send or with a receive
  that fails with another errno (`Timeout`, `dropped`).
* A neighbor that advertises another neighbor with metric 0 can take its direct route: the
  candidate has metric 1 as well, and the lower next hop wins (`distance_vector.cpp:78`;
  `DirectRoutesKept`). No node sends a metric below 1.
* `query_peer` and `announce_to_peer` take the next message for the answer
  (`daemon.cpp:1402`, `1441`). When the inviter's HELLO comes first, the new node closes
  the only session it has and becomes active without one. If its id is the lower one it
  dials again, otherwise the inviter does (`PairSettles`).
* When the answer to the join has K contacts nearer to the new node than the
  inviter, the lookup asks nobody: it looks only at the K nearest, and only the inviter
  is trusted (`JoinComplete` excludes this case, and the node is not announced either).
  The new node itself takes one of the K places of the answer.
* `transport_server_close` destroys the TLS context before the accept thread is joined
  (`app.cpp:680`), and that thread may be between `socket_accept` and `tls_session_init`.
  In Lifecycle no connection is taken after the close and a TLS session is made with its
  connection.

* A failed `transport_send` closes the session under `send_mutex` only
  (`session.cpp:276`; `OwnSendFails`). If another thread is between a read and the
  insertion into `recv_buffer`, the bytes go into the buffer of the closed session,
  where the middle of a frame can be taken for a header. That receive can return one
  message that is none, and no more (`Finish` of MessageStream).
* `transport_receive` empties the buffer before it looks whether the stream ended in
  the middle of a message (`session.cpp:372` and `394`; `EndReport`), so the report
  of an incomplete message is never given.
* The join command looks for existing state when it starts and saves its identity
  after the exchange with the inviter (`daemon.cpp:1950`); a daemon started and stopped in
  between has its identity replaced.
* `save_config` drops the result of the write (`app.cpp:187`), and the join command
  recognises existing state by the configuration file alone: after a failed write
  a later join replaces the identity of a node that has run.

## 6. What is left out, and why

* Certificates and keys, sockets, the system calls of the virtual interface,
  serialization, parsing of the configuration, the contents of the status file: system
  calls and byte layouts. Every message the daemon sends fits a frame: endpoints are numeric
  addresses, so 21 contacts are below the 4092 bytes of a payload.
* The checks of `run_join` and `run_session` on a message of the right type (sender,
  key, address, endpoint): a message that fails one ends the exchange or the session,
  as a fault does. `run_join` returns without `app_shutdown` when the endpoint or the key cannot
  be read; an invitation that decodes and an identity that loads have both.
* In Joining other nodes are contacts, not daemons, and sessions of the inviter with
  them are left out, as are limits on sessions and topology; a node that joins has an empty
  table and trusts nobody. `kademlia_remove` and the `ping_fn` of `kademlia_insert` have no
  caller in the daemon, `discovery.cpp` neither.
* In Lifecycle every connection is a new session with a name from a finite set; what is
  on a session's way to the topology is left to NeighborThreads.
* The models are of the POSIX build; on Windows `sync_parent_directory` does
  nothing.
* MeshRouting lets only the lower id dial, as `reconnect_step` does; the first
  session of a joining node (`run_join`) may be dialled by the higher one.
* `activate_neighbor` refuses an untrusted peer, a wrong address and a peer that
  does not fit into the topology (16, one more than can be trusted): the models
  have only peers it accepts.
* An advertisement that names a destination twice is accepted by the code: the later
  route replaces the earlier one of the same next hop. `route_create_advertisement` copies a
  table with one entry per destination, so no node sends one, and the models have none.
* Sessions that send malformed or too many messages are closed: the same as a
  transport failure, which may happen at any time.
* In Admission, `invite_store` is one step (it holds the lock file), and the
  address of the daemon itself is not among the joining nodes' addresses.
* IdentityStore has the default paths only: with `--config` the configuration and the
  identity may lie in different directories. A machine crash leaves the lock file.
* The clock is assumed not to go back.

## 7. Plan

Done: RoutingTable, RouteVector, MeshRouting, NeighborThreads, Admission and
Invitations, MessageStream and Transport, DataPlane, PortFilter, IdentityStore, Lifecycle, Kademlia
and Joining, and the proofs of section 4: every safety property of the runs.

Left, in this order:

1. Abstract specifications and proofs that they are implemented: a lock with a counter by
   IdentityStore, the table that never forgets by PortFilter.
2. Convergence of the mesh under fairness, without stamps (justified by
   InFlightPasses), for single-threaded rebuilds (those of several threads: see 5).
3. The message layouts of `serialization.cpp`.
