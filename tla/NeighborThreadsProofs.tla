----------------------- MODULE NeighborThreadsProofs ------------------------
(***************************************************************************)
(* Proofs about NeighborThreads, for any number of sessions and peers.     *)
(***************************************************************************)
EXTENDS NeighborThreads, RoutingTableProofs

\* Applying an advertisement to a table gives a table.
LEMMA ApplyRoutesType ==
    ASSUME NEW t, IsTable(t), NEW n \in Nodes, NEW v \in Vectors
    PROVE  IsTable(ApplyRoutes(t, n, v))
<1> DEFINE A == ApplyRoutes(t, n, v)
           kept == DOMAIN t \ Withdrawn(t, n, v)
<1>1. DOMAIN A = kept \cup Usable(n, v) /\ A = [d \in DOMAIN A |-> A[d]]
  BY DEF ApplyRoutes
<1>2. DOMAIN t \subseteq Nodes /\ \A d \in DOMAIN t : t[d] \in Routes
  BY DEF IsTable, IsMap
<1>3. \A d \in Usable(n, v) : d \in Nodes /\ Candidate(n, v, d) \in Routes
  BY CandidateType, InfinityAssumption DEF Routes, Candidate
<1>4. \A d \in Poisoned(t, n, v) : d \in DOMAIN t
  BY DEF Poisoned
<1>5. \A d \in DOMAIN t : [t[d] EXCEPT !.metric = Infinity] \in Routes
  BY <1>2, InfinityAssumption DEF Routes
<1>6. ASSUME NEW d \in DOMAIN A PROVE d \in Nodes /\ A[d] \in Routes
  <2>1. \/ d \in Usable(n, v) /\ A[d] = Candidate(n, v, d)
        \/ d \in DOMAIN t /\ A[d] = [t[d] EXCEPT !.metric = Infinity]
        \/ d \in DOMAIN t /\ A[d] = t[d]
    BY <1>1, <1>4 DEF ApplyRoutes, Replaces
  <2> QED
    BY <1>2, <1>3, <1>5, <2>1
<1> QED
  BY <1>1, <1>6 DEF IsTable, IsMap

\* A rebuild from any copy of the topology gives a table.
LEMMA BuiltType ==
    ASSUME NEW s \in [connected : SUBSET Nodes, silent : SUBSET Nodes],
           IsMap(stored, Nodes, Vectors)
    PROVE  IsTable(Rebuild(s.connected \ s.silent, s.connected, stored))
<1>1. Inputs(s.connected \ s.silent, s.connected, stored)
  BY DEF Inputs
<1> QED
  BY <1>1, RebuildType

-----------------------------------------------------------------------------
(***************************************************************************)
(* Types                                                                   *)
(***************************************************************************)

\* The threads start with every variable of its type.
LEMMA InitTypeOK == Init => TypeOK
<1> SUFFICES ASSUME Init PROVE TypeOK
  OBVIOUS
<1>1. /\ IsTable(table) /\ IsMap(stored, Nodes, Vectors) /\ IsMap(origin, Nodes, Stamps)
  BY DEF Init, IsTable, IsMap, NoRoutes
<1>2. pc \in [Threads -> Places] /\ after \in [Threads -> Places]
  BY DEF Init, Places
<1>3. /\ snap \in [Threads -> [connected : SUBSET Nodes, silent : SUBSET Nodes]]
      /\ DOMAIN msg = Workers /\ \A w \in Workers : msg[w] \in Messages
  BY DEF Init, Messages
<1> QED
  BY <1>1, <1>2, <1>3 DEF Init, TypeOK

\* No step of a worker or of the routing loop breaks a type.
LEMMA NextTypeOK == TypeOK /\ [Next]_vars => TypeOK'
<1> SUFFICES ASSUME TypeOK, [Next]_vars PROVE TypeOK'
  OBVIOUS
<1> USE WorkersAssumption DEF TypeOK, Threads, sessions, topology, routing, shared,
                              peerLog, rest, Heard, Goto, Return, StartRebuild, Done
<1>1. ASSUME NEW t \in Threads, Snapshot(t) PROVE TypeOK'
  BY <1>1 DEF Snapshot, Places
<1>2. ASSUME NEW t \in Threads, BuildTable(t) PROVE TypeOK'
  <2>1. IsTable(table')
    BY <1>2, BuiltType DEF BuildTable
  <2>2. pc' \in [Threads -> Places] /\ after' \in [Threads -> Places]
    BY <1>2 DEF BuildTable, Places
  <2> QED
    BY <1>2, <2>1, <2>2 DEF BuildTable
<1>3. ASSUME NEW w \in Workers, MarkRoutingDirty(w) PROVE TypeOK'
  <2>1. pc' \in [Threads -> Places] /\ after' \in [Threads -> Places]
    BY <1>3 DEF MarkRoutingDirty, Places
  <2> QED
    BY <1>3, <2>1 DEF MarkRoutingDirty
<1>4. ASSUME NEW w \in Workers, Register(w) PROVE TypeOK'
  <2>1. pc' \in [Threads -> Places] /\ after' \in [Threads -> Places]
    BY <1>4 DEF Register, Places
  <2> QED
    BY <1>4, <2>1 DEF Register
<1>5. ASSUME NEW w \in Workers, Activate(w) PROVE TypeOK'
  <2>1. pc' \in [Threads -> Places] /\ after' \in [Threads -> Places]
    BY <1>5 DEF Activate, Places
  <2> QED
    BY <1>5, <2>1 DEF Activate
<1>6. ASSUME NEW w \in Workers, TransportFails(w) PROVE TypeOK'
  BY <1>6 DEF TransportFails
<1>7. ASSUME NEW w \in Workers, Remove(w) PROVE TypeOK'
  <2>1. pc' \in [Threads -> Places]
    BY <1>7 DEF Remove, Places
  <2> QED
    BY <1>7, <2>1 DEF Remove
<1>8. ASSUME NEW w \in Workers, CheckAnother(w) PROVE TypeOK'
  <2>1. pc' \in [Threads -> Places]
    BY <1>8 DEF CheckAnother, Places
  <2> QED
    BY <1>8, <2>1 DEF CheckAnother
<1>9. ASSUME NEW w \in Workers, Down(w) PROVE TypeOK'
  <2>1. pc' \in [Threads -> Places]
    BY <1>9 DEF Down, Places
  <2> QED
    BY <1>9, <2>1 DEF Down
<1>10. ASSUME NEW w \in Workers, Forget(w) PROVE TypeOK'
  <2>1. pc' \in [Threads -> Places] /\ after' \in [Threads -> Places]
    BY <1>10 DEF Forget, Places
  <2>2. IsMap(stored', Nodes, Vectors)
    BY <1>10, MapType DEF Forget
  <2> QED
    BY <1>10, <2>1, <2>2 DEF Forget
<1>11. ASSUME NEW w \in Workers, Receive(w) PROVE TypeOK'
  <2>1. pc' \in [Threads -> Places]
    BY <1>11 DEF Receive, ReceiveJoin, ReceiveKeepAlive, ReceiveAdvertisement, Places
  <2>2. DOMAIN msg' = Workers /\ \A v \in Workers : msg'[v] \in Messages
    <3>1. \A g, s \in Nat, v \in AdvVectors :
            Advertisement([generation |-> g, sequence |-> s], v) \in Messages
      BY DEF Messages, Advertisement, Stamps
    <3>2. {Join, Hello, Other} \subseteq Messages
      BY DEF Messages
    <3>3. epoch[w] \in Nat /\ sent[w] + 1 \in Nat
      OBVIOUS
    <3>4. PICK m \in Messages : msg' = [msg EXCEPT ![w] = m]
      BY <1>11, <3>1, <3>2, <3>3
         DEF Receive, ReceiveJoin, ReceiveKeepAlive, ReceiveAdvertisement
    <3> QED
      BY <3>4
  <2>3. /\ UNCHANGED <<shared, after, snap, established, epoch, resend, silences>>
        /\ sent' \in [Workers -> Nat]
    BY <1>11 DEF Receive, ReceiveJoin, ReceiveKeepAlive, ReceiveAdvertisement
  <2> QED
    BY <2>1, <2>2, <2>3
<1>12. ASSUME NEW w \in Workers, Touch(w) PROVE TypeOK'
  <2>1. pc' \in [Threads -> Places] /\ after' \in [Threads -> Places]
    BY <1>12 DEF Touch, Places
  <2> QED
    BY <1>12, <2>1 DEF Touch
<1>13. ASSUME NEW w \in Workers, HandleJoin(w) \/ HandleHello(w) \/ HandleOther(w)
       PROVE  TypeOK'
  <2>1. pc' \in [Threads -> Places]
    BY <1>13 DEF HandleJoin, HandleHello, HandleOther, Places
  <2>2. DOMAIN msg' = Workers /\ \A v \in Workers : msg'[v] \in Messages
    BY <1>13 DEF HandleJoin, HandleHello, HandleOther, Messages
  <2>3. /\ connected' \subseteq known /\ silent' \subseteq connected'
        /\ UNCHANGED <<sessions, known, routing, dirty, after, snap, rest>>
    BY <1>13 DEF HandleJoin, HandleHello, HandleOther
  <2> QED
    BY <2>1, <2>2, <2>3
<1>14. ASSUME NEW w \in Workers, HandleAdvertisement(w) PROVE TypeOK'
  <2>1. pc' \in [Threads -> Places] /\ after' \in [Threads -> Places]
    BY <1>14 DEF HandleAdvertisement, Places
  <2>2. DOMAIN msg' = Workers /\ \A v \in Workers : msg'[v] \in Messages
    BY <1>14 DEF HandleAdvertisement, Messages
  <2>3. msg[w].stamp \in Stamps /\ msg[w].vector \in Vectors /\ PeerOf[w] \in Nodes
    BY <1>14 DEF HandleAdvertisement, Messages, Join, Hello, Other
  <2>4. /\ IsTable(ApplyRoutes(table, PeerOf[w], msg[w].vector))
        /\ IsMap(With(stored, PeerOf[w], msg[w].vector), Nodes, Vectors)
        /\ IsMap(With(origin, PeerOf[w], msg[w].stamp), Nodes, Stamps)
    BY <2>3, ApplyRoutesType, MapType
  <2>5. IsTable(table') /\ IsMap(stored', Nodes, Vectors) /\ IsMap(origin', Nodes, Stamps)
    BY <1>14, <2>4 DEF HandleAdvertisement
  <2>6. UNCHANGED <<sessions, topology, dirty, snap, rest>>
    BY <1>14 DEF HandleAdvertisement
  <2> QED
    BY <2>1, <2>2, <2>5, <2>6
<1>15. CASE Wake \/ Prune \/ Announce
  <2>1. pc' \in [Threads -> Places] /\ after' \in [Threads -> Places]
    BY <1>15 DEF Wake, Prune, Announce, Places
  <2> QED
    BY <1>15, <2>1 DEF Wake, Prune, Announce
<1>16. ASSUME NEW aged \in SUBSET Nodes, Expire(aged) PROVE TypeOK'
  <2>1. pc' \in [Threads -> Places] /\ after' \in [Threads -> Places]
    BY <1>16 DEF Expire, Places
  <2>2. IsMap(stored', Nodes, Vectors)
    BY <1>16, MapType DEF Expire
  <2>3. resend' = resend \/ resend' = TRUE
    BY <1>16 DEF Expire
  <2>4. silences' \in Nat
    BY <1>16 DEF Expire
  <2>5. UNCHANGED <<sessions, topology, table, origin, dirty, snap, msg, peerLog, announced>>
    BY <1>16 DEF Expire
  <2> QED
    BY <2>1, <2>2, <2>3, <2>4, <2>5
<1>17. ASSUME NEW p \in Nodes, FallSilent(p) PROVE TypeOK'
  BY <1>17 DEF FallSilent
<1>18. CASE UNCHANGED vars
  BY <1>18 DEF vars
<1> QED
  BY <1>1, <1>2, <1>3, <1>4, <1>5, <1>6, <1>7, <1>8, <1>9, <1>10, <1>11, <1>12, <1>13,
     <1>14, <1>15, <1>16, <1>17, <1>18 DEF Next, WorkerProgress, LoopProgress

\* The variables keep their types.
THEOREM ThreadTypes == Spec => []TypeOK
  BY InitTypeOK, NextTypeOK, PTL DEF Spec

-----------------------------------------------------------------------------
(***************************************************************************)
(* Triggered updates.  A table that differs from the announced one has     *)
(* somebody on the way to announce it: a worker before mark_routing_dirty, *)
(* the flag, or the routing loop between taking the flag and sending.      *)
(***************************************************************************)

LoopOnCourse ==
    /\ pc[Loop] \in {"wait", "prune", "expire", "snapshot", "rebuild", "announce"}
    /\ pc[Loop] \in {"snapshot", "rebuild"} => after[Loop] = "announce"

UpdatePending ==
    \/ announced = table
    \/ dirty = TRUE
    \/ \E w \in Workers : pc[w] \in {"snapshot", "rebuild", "mark"}
    \/ pc[Loop] \in {"snapshot", "rebuild", "announce"}
    \/ pc[Loop] \in {"prune", "expire"} /\ resend = TRUE

UpdateInv == TypeOK /\ LoopOnCourse /\ UpdatePending

\* Every step keeps an update pending until it is announced.
LEMMA NextPending ==
    ASSUME TypeOK, LoopOnCourse, UpdatePending, [Next]_vars
    PROVE  LoopOnCourse' /\ UpdatePending'
<1> USE WorkersAssumption DEF TypeOK, Threads, LoopOnCourse, UpdatePending, sessions,
            topology, routing, shared, peerLog, rest, Heard, Goto, Return, StartRebuild, Done
<1>1. ASSUME NEW t \in Threads, Snapshot(t) PROVE LoopOnCourse' /\ UpdatePending'
  BY <1>1 DEF Snapshot
<1>2. ASSUME NEW t \in Threads, BuildTable(t) PROVE LoopOnCourse' /\ UpdatePending'
  BY <1>2 DEF BuildTable
<1>3. ASSUME NEW w \in Workers, MarkRoutingDirty(w) PROVE LoopOnCourse' /\ UpdatePending'
  BY <1>3 DEF MarkRoutingDirty
\* A worker that is not in a rebuild leaves the table, the flag and the loop alone.
<1>4. ASSUME NEW w \in Workers, pc[w] \notin {"snapshot", "rebuild", "mark"},
             NEW place, pc' = [pc EXCEPT ![w] = place],
             after'[Loop] = after[Loop],
             UNCHANGED <<table, dirty, resend, announced>>
      PROVE  LoopOnCourse' /\ UpdatePending'
  BY <1>4
<1>5. ASSUME NEW w \in Workers, Register(w) PROVE LoopOnCourse' /\ UpdatePending'
  BY <1>4, <1>5 DEF Register
<1>6. ASSUME NEW w \in Workers, Activate(w) PROVE LoopOnCourse' /\ UpdatePending'
  BY <1>4, <1>6 DEF Activate
<1>7. ASSUME NEW w \in Workers, TransportFails(w) PROVE LoopOnCourse' /\ UpdatePending'
  BY <1>7 DEF TransportFails
<1>8. ASSUME NEW w \in Workers, Remove(w) PROVE LoopOnCourse' /\ UpdatePending'
  BY <1>4, <1>8 DEF Remove
<1>9. ASSUME NEW w \in Workers, CheckAnother(w) PROVE LoopOnCourse' /\ UpdatePending'
  BY <1>4, <1>9 DEF CheckAnother
<1>10. ASSUME NEW w \in Workers, Down(w) PROVE LoopOnCourse' /\ UpdatePending'
  BY <1>4, <1>10 DEF Down
<1>11. ASSUME NEW w \in Workers, Forget(w) PROVE LoopOnCourse' /\ UpdatePending'
  BY <1>4, <1>11 DEF Forget
<1>12. ASSUME NEW w \in Workers, Receive(w) PROVE LoopOnCourse' /\ UpdatePending'
  BY <1>4, <1>12 DEF Receive, ReceiveJoin, ReceiveKeepAlive, ReceiveAdvertisement
<1>13. ASSUME NEW w \in Workers, Touch(w) PROVE LoopOnCourse' /\ UpdatePending'
  BY <1>4, <1>13 DEF Touch
<1>14. ASSUME NEW w \in Workers, HandleJoin(w) \/ HandleHello(w) \/ HandleOther(w)
       PROVE  LoopOnCourse' /\ UpdatePending'
  BY <1>4, <1>14 DEF HandleJoin, HandleHello, HandleOther
<1>15. ASSUME NEW w \in Workers, HandleAdvertisement(w)
       PROVE  LoopOnCourse' /\ UpdatePending'
  BY <1>4, <1>15 DEF HandleAdvertisement
<1>16. CASE Wake
  BY <1>16 DEF Wake
<1>17. CASE Prune
  BY <1>17 DEF Prune
<1>18. CASE Announce
  BY <1>18 DEF Announce
<1>19. ASSUME NEW aged \in SUBSET Nodes, Expire(aged)
       PROVE  LoopOnCourse' /\ UpdatePending'
  BY <1>19 DEF Expire
<1>20. ASSUME NEW p \in Nodes, FallSilent(p) PROVE LoopOnCourse' /\ UpdatePending'
  BY <1>20 DEF FallSilent
<1>21. CASE UNCHANGED vars
  BY <1>21 DEF vars
<1> QED
  BY <1>1, <1>2, <1>3, <1>5, <1>6, <1>7, <1>8, <1>9, <1>10, <1>11, <1>12, <1>13, <1>14,
     <1>15, <1>16, <1>17, <1>18, <1>19, <1>20, <1>21 DEF Next, WorkerProgress, LoopProgress

\* With any number of sessions, the routing loop never goes to sleep on a table
\* its peers have not been sent, unless a worker is about to wake it.
THEOREM UpdatesAreNotLost == Spec => []TriggeredUpdateNotLost
<1>1. Init => UpdateInv
  <2> SUFFICES ASSUME Init PROVE LoopOnCourse /\ UpdatePending
    BY InitTypeOK DEF UpdateInv
  <2>1. pc[Loop] = "wait" /\ announced = table
    BY DEF Init, Threads
  <2> QED
    BY <2>1 DEF LoopOnCourse, UpdatePending
<1>2. UpdateInv /\ [Next]_vars => UpdateInv'
  BY NextTypeOK, NextPending DEF UpdateInv
<1>3. UpdateInv => TriggeredUpdateNotLost
  BY DEF UpdateInv, UpdatePending, TriggeredUpdateNotLost
<1> QED
  BY <1>1, <1>2, <1>3, PTL DEF Spec

-----------------------------------------------------------------------------
\* The recorded stamp of a peer only grows, with any number of workers of old
\* and new sessions handling that peer's advertisements at once.
THEOREM StampsOnlyGrow == Spec => StampsNeverGoBack
<1>1. TypeOK /\ [Next]_vars =>
        [\A p \in DOMAIN origin :
            /\ p \in DOMAIN origin'
            /\ origin'[p] = origin[p] \/ Fresher(origin'[p], origin[p])]_vars
  <2> SUFFICES ASSUME TypeOK, [Next]_vars, NEW p \in DOMAIN origin
               PROVE  /\ p \in DOMAIN origin'
                      /\ origin'[p] = origin[p] \/ Fresher(origin'[p], origin[p])
    OBVIOUS
  <2> USE DEF sessions, topology, routing, shared
  <2>1. ASSUME NEW w \in Workers, HandleAdvertisement(w)
        PROVE  /\ p \in DOMAIN origin'
               /\ origin'[p] = origin[p] \/ Fresher(origin'[p], origin[p])
    BY <2>1 DEF HandleAdvertisement, Accepts, With
  <2>2. CASE UNCHANGED origin
    BY <2>2
  <2>3. ASSUME NEW w \in Workers, Receive(w) PROVE UNCHANGED origin
    BY <2>3 DEF Receive, ReceiveJoin, ReceiveKeepAlive, ReceiveAdvertisement
  <2>4. ASSUME NEW w \in Workers, WorkerProgress(w), ~HandleAdvertisement(w)
        PROVE  UNCHANGED origin
    BY <2>4 DEF WorkerProgress, Snapshot, BuildTable, MarkRoutingDirty, Activate, Remove,
                CheckAnother, Down, Forget, Touch, HandleJoin, HandleHello, HandleOther
  <2>5. ASSUME LoopProgress PROVE UNCHANGED origin
    BY <2>5 DEF LoopProgress, Snapshot, BuildTable, Wake, Prune, Expire, Announce
  <2>6. ASSUME NEW w \in Workers, Register(w) \/ TransportFails(w) PROVE UNCHANGED origin
    BY <2>6 DEF Register, TransportFails
  <2>7. ASSUME NEW q \in Nodes, FallSilent(q) PROVE UNCHANGED origin
    BY <2>7 DEF FallSilent
  <2>8. ASSUME UNCHANGED vars PROVE UNCHANGED origin
    BY <2>8 DEF vars
  <2> QED
    BY <2>1, <2>2, <2>3, <2>4, <2>5, <2>6, <2>7, <2>8 DEF Next
<1> QED
  BY <1>1, ThreadTypes, PTL DEF Spec, StampsNeverGoBack
=============================================================================
