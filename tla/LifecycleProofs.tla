-------------------------- MODULE LifecycleProofs ---------------------------
(***************************************************************************)
(* The safety properties of Lifecycle for any number of sessions and any   *)
(* MAX_PEER_SESSIONS.  The inductive invariant IInv says, beyond the       *)
(* properties, which threads cannot run at each point of the main thread,  *)
(* in whose list every worker is, and that a session between its           *)
(* connection and its worker is held by exactly one loop.                  *)
(***************************************************************************)
EXTENDS Lifecycle, TLAPS

Before == {"start", "startjoin", "runtime", "runtimejoin", "join"}
Emptied == {"close", "joinworkers", "joinrest", "exited"}
Joined == Emptied \cup {"swap"}

\* No thread is started before the interface is up, and the identity is kept
\* to the end.
StartInv ==
    /\ main \in Before \cup {"startall"} =>
          /\ at = [t \in Threads |-> "none"]
          /\ started = {} /\ workers = {} /\ joined = {}
    /\ main \in Before => used = {}
    /\ main = "startall" => open = registered
    /\ main \in {"join", "startall", "spawn", "report", "wait"} => tun
    /\ main # "exited" => identity

\* The loops that app_shutdown has joined.
Passed ==
    CASE main = "reconnect" -> {"accept"}
      [] main = "data" -> {"accept", "reconnect"}
      [] main = "routing" -> {"accept", "reconnect", "data"}
      [] main \in Joined -> Loops
      [] OTHER -> {}

Over(t) == at[t] = "none" \/ (at[t] = "ended" /\ t \in joined)

LoopInv ==
    /\ \A t \in Passed : Over(t)
    /\ \A t \in joined : at[t] = "ended"

\* Every worker that was started is in somebody's list, or joined.
WorkerInv ==
    /\ \A s \in Sessions : at[s] # "none" <=> s \in started
    /\ started \subseteq workers \cup joining \cup joined
    /\ main \in Emptied => workers = {}
    /\ main \notin {"close", "joinworkers", "joinrest"} => joining = {}

\* The loop has a session that no worker has yet.
Holds(t) ==
    at[t] \in IF t = "accept" THEN {"handshake", "start"}
              ELSE {"opened", "activate", "start"}

HoldInv ==
    /\ open \cup registered \cup started \subseteq used
    /\ \A t \in {"accept", "reconnect"} : Holds(t) => on[t] \in used \ started
    /\ Holds("accept") /\ Holds("reconnect") => on["accept"] # on["reconnect"]
    /\ at["accept"] = "handshake" => on["accept"] \notin open \cup registered
    /\ at["reconnect"] = "opened" => on["reconnect"] \notin registered
    /\ \A s \in Sessions : at[s] = "remove" => s \notin open

OwnInv ==
    main # "startall" =>
        \A s \in open \cup registered :
            \/ Alive(s)
            \/ Holds("accept") /\ on["accept"] = s
            \/ Holds("reconnect") /\ on["reconnect"] = s

ExitInv ==
    /\ main \in Loops \cup Joined => server = "closed"
    /\ main \in {"joinrest", "exited"} => registered = {}
    /\ main = "exited" => ~tun /\ ~identity /\ ~status

IInv ==
    /\ TypeOK /\ StartInv /\ LoopInv /\ WorkerInv /\ HoldInv /\ OwnInv
    /\ NothingReleasedInUse /\ ExitInv

-----------------------------------------------------------------------------
(***************************************************************************)
(* The two actions with the most outcomes, by what they change.            *)
(***************************************************************************)

\* A pass or a send of routing_loop moves this thread and no other, and changes
\* besides what it has to send only the status file.
LEMMA RoutingMoves ==
    ASSUME TypeOK, RoutingPass \/ RoutingSend \/ RoutingDone
    PROVE  /\ Alive("routing")
           /\ \E place \in {"next", "send", "work", "ended"} :
                 at' = [at EXCEPT !["routing"] = place]
           /\ on' \in [Threads -> Sessions \cup {None}]
           /\ \A t \in Threads \ {"routing"} : on'[t] = on[t]
           /\ queue' \in SUBSET Sessions /\ status' \in BOOLEAN
           /\ UNCHANGED <<process, pool, open, registered>>
<1> USE DEF TypeOK, Alive, Threads, Loops, Go, GoOn, process, pool
<1>1. CASE RoutingPass
  BY <1>1 DEF RoutingPass
<1>2. CASE RoutingSend
  BY <1>2 DEF RoutingSend
<1>3. CASE RoutingDone
  BY <1>3 DEF RoutingDone, Pass
<1> QED
  BY <1>1, <1>2, <1>3

\* Whatever a worker receives, it moves this thread and no other, and opens and
\* registers nothing.
LEMMA WorkerMoves ==
    ASSUME TypeOK, NEW s \in Sessions, WorkerReceive(s)
    PROVE  /\ Alive(s)
           /\ \E place \in {"receive", "send", "close"} :
                 at' = [at EXCEPT ![s] = place]
           /\ on' \in [Threads -> Sessions \cup {None}]
           /\ \A t \in Threads \ {s} : on'[t] = on[t]
           /\ open' \subseteq open /\ status' \in BOOLEAN
           /\ UNCHANGED <<process, queue, pool, registered>>
<1> USE DEF TypeOK, Alive, Threads, Loops, Go, GoOn, process, pool, Listen
<1>1. CASE open' = open \ {s} /\ Go(s, "close") /\ UNCHANGED <<on, status>>
  BY <1>1 DEF WorkerReceive
<1>2. CASE /\ UNCHANGED <<on, open>> /\ status' \in {status, TRUE}
           /\ Go(s, Listen(s)) \/ Go(s, "close")
  BY <1>2 DEF WorkerReceive
<1>3. CASE /\ UNCHANGED open /\ status' \in {status, TRUE}
           /\ \E r \in registered : GoOn(s, "send", r)
  <2>1. PICK r \in registered : GoOn(s, "send", r)
    BY <1>3
  <2> QED
    BY <1>3, <2>1 DEF WorkerReceive
<1> QED
  BY <1>1, <1>2, <1>3 DEF WorkerReceive

-----------------------------------------------------------------------------
(***************************************************************************)
(* One lemma per part of the invariant                                     *)
(***************************************************************************)

\* No step breaks a type.
LEMMA TypeStep == IInv /\ [Next]_vars => TypeOK'
<1> SUFFICES ASSUME IInv, [Next]_vars PROVE TypeOK'
  OBVIOUS
<1> USE SessionsAssumption DEF IInv, TypeOK, Threads, Loops, flags, resources,
           local, process, pool, Go, GoOn, LoopPlaces, WorkerPlaces,
           MainPlaces
<1>1. ASSUME RequestStop PROVE TypeOK'
  BY <1>1 DEF RequestStop
<1>2. ASSUME AcceptTop PROVE TypeOK'
  BY <1>2 DEF AcceptTop, Pass
<1>3. ASSUME AcceptNothing PROVE TypeOK'
  BY <1>3 DEF AcceptNothing, Pass
<1>4. ASSUME NEW s \in Sessions, AcceptConnection(s) PROVE TypeOK'
  BY <1>4 DEF AcceptConnection, NewSession
<1>5. ASSUME AcceptHandshake PROVE TypeOK'
  <2>1. on["accept"] \in Sessions
    BY <1>5 DEF AcceptHandshake, HoldInv, Holds
  <2>2. at' \in [Threads -> LoopPlaces \cup WorkerPlaces]
    BY <1>5 DEF AcceptHandshake, Pass
  <2>3. on' \in [Threads -> Sessions \cup {None}]
    BY <1>5 DEF AcceptHandshake, Pass
  <2>4. open' \in SUBSET Sessions /\ registered' \in SUBSET Sessions
    BY <1>5, <2>1 DEF AcceptHandshake
  <2> QED
    BY <1>5, <2>1, <2>2, <2>3, <2>4 DEF AcceptHandshake
<1>6. ASSUME NEW t \in {"accept", "reconnect"}, StartSessionWorker(t) PROVE TypeOK'
  <2>1. on[t] \in Sessions
    BY <1>6 DEF StartSessionWorker, HoldInv, Holds
  <2>2. at' \in [Threads -> LoopPlaces \cup WorkerPlaces]
    BY <1>6 DEF StartSessionWorker, Launched, Pass
  <2>3. on' \in [Threads -> Sessions \cup {None}]
    BY <1>6 DEF StartSessionWorker
  <2>4. /\ status' \in BOOLEAN /\ joined' \in SUBSET Threads
        /\ started' \in SUBSET Sessions /\ workers' \in SUBSET Sessions
    BY <1>6, <2>1 DEF StartSessionWorker, StartWorkers, Finished
  <2> QED
    BY <1>6, <2>1, <2>2, <2>3, <2>4 DEF StartSessionWorker
<1>7. ASSUME ReconnectTop PROVE TypeOK'
  BY <1>7 DEF ReconnectTop, Pass
<1>8. ASSUME ReconnectDone PROVE TypeOK'
  BY <1>8 DEF ReconnectDone, Pass
<1>9. ASSUME NEW s \in Sessions, ReconnectDial(s) PROVE TypeOK'
  <2>1. at' \in [Threads -> LoopPlaces \cup WorkerPlaces]
    BY <1>9 DEF ReconnectDial
  <2>2. on' \in [Threads -> Sessions \cup {None}]
    BY <1>9 DEF ReconnectDial
  <2>3. open' \in SUBSET Sessions /\ used' \in SUBSET Sessions
    BY <1>9 DEF ReconnectDial, NewSession
  <2> QED
    BY <1>9, <2>1, <2>2, <2>3 DEF ReconnectDial
<1>10. ASSUME ReconnectRegister PROVE TypeOK'
  <2>1. on["reconnect"] \in Sessions
    BY <1>10 DEF ReconnectRegister, HoldInv, Holds
  <2>2. at' \in [Threads -> LoopPlaces \cup WorkerPlaces]
    BY <1>10 DEF ReconnectRegister
  <2>3. on' \in [Threads -> Sessions \cup {None}]
    BY <1>10 DEF ReconnectRegister
  <2>4. open' \in SUBSET Sessions /\ registered' \in SUBSET Sessions
    BY <1>10, <2>1 DEF ReconnectRegister
  <2> QED
    BY <1>10, <2>1, <2>2, <2>3, <2>4 DEF ReconnectRegister
<1>11. ASSUME ReconnectActivate PROVE TypeOK'
  <2>1. at' \in [Threads -> LoopPlaces \cup WorkerPlaces]
    BY <1>11 DEF ReconnectActivate
  <2>2. on' \in [Threads -> Sessions \cup {None}]
    BY <1>11 DEF ReconnectActivate
  <2>3. open' \in SUBSET Sessions /\ registered' \in SUBSET Sessions
    BY <1>11 DEF ReconnectActivate
  <2> QED
    BY <1>11, <2>1, <2>2, <2>3 DEF ReconnectActivate
<1>12. ASSUME NEW t \in {"data", "routing"}, LoopTop(t) PROVE TypeOK'
  BY <1>12 DEF LoopTop, Pass
<1>13. ASSUME ReadPacket PROVE TypeOK'
  <2>1. \E place \in {"work", "send", "ended"} :
           at' = [at EXCEPT !["data"] = place]
    BY <1>13 DEF ReadPacket, Pass
  <2>2. at' \in [Threads -> LoopPlaces \cup WorkerPlaces]
    BY <1>13, <2>1
  <2>3. on' \in [Threads -> Sessions \cup {None}]
    BY <1>13 DEF ReadPacket
  <2> QED
    BY <1>13, <2>1, <2>2, <2>3 DEF ReadPacket
<1>14. ASSUME NEW t \in {"data", "routing"}, LoopSent(t) PROVE TypeOK'
  BY <1>14 DEF LoopSent, Pass
<1>15. ASSUME RoutingPass \/ RoutingSend \/ RoutingDone PROVE TypeOK'
  <2>1. at' \in [Threads -> LoopPlaces \cup WorkerPlaces]
    BY <1>15, RoutingMoves
  <2>2. /\ on' \in [Threads -> Sessions \cup {None}]
        /\ queue' \in SUBSET Sessions /\ status' \in BOOLEAN
        /\ UNCHANGED <<process, pool, open, registered>>
    BY <1>15, RoutingMoves
  <2> QED
    BY <2>1, <2>2
<1>16. ASSUME NEW s \in Sessions, WorkerTop(s) PROVE TypeOK'
  BY <1>16 DEF WorkerTop, Listen
<1>17. ASSUME NEW s \in Sessions, WorkerReceive(s) PROVE TypeOK'
  <2>1. at' \in [Threads -> LoopPlaces \cup WorkerPlaces]
    BY <1>17, WorkerMoves
  <2>2. /\ on' \in [Threads -> Sessions \cup {None}]
        /\ open' \subseteq open /\ status' \in BOOLEAN
        /\ UNCHANGED <<process, queue, pool, registered>>
    BY <1>17, WorkerMoves
  <2> QED
    BY <2>1, <2>2
<1>18. ASSUME NEW s \in Sessions, WorkerSent(s) PROVE TypeOK'
  BY <1>18 DEF WorkerSent, Listen
<1>19. ASSUME NEW s \in Sessions, WorkerClose(s) PROVE TypeOK'
  BY <1>19 DEF WorkerClose
<1>20. ASSUME NEW s \in Sessions, WorkerRemove(s) PROVE TypeOK'
  BY <1>20 DEF WorkerRemove
<1>21. ASSUME Begin PROVE TypeOK'
  BY <1>21 DEF Begin, Transition, CanTransition
<1>22. ASSUME StartRuntime PROVE TypeOK'
  BY <1>22 DEF StartRuntime, Transition, CanTransition
<1>23. ASSUME StartFails PROVE TypeOK'
  BY <1>23 DEF StartFails
<1>24. ASSUME NEW s \in Sessions, JoinSucceeds(s) PROVE TypeOK'
  BY <1>24 DEF JoinSucceeds, NewSession, Transition, CanTransition
<1>25. ASSUME StartAll PROVE TypeOK'
  <2>1. at' \in [Threads -> LoopPlaces \cup WorkerPlaces]
    BY <1>25 DEF StartAll, Launched
  <2>2. /\ joined' \in SUBSET Threads
        /\ started' \in SUBSET Sessions /\ workers' \in SUBSET Sessions
    BY <1>25 DEF StartAll, StartWorkers, Finished
  <2> QED
    BY <1>25, <2>1, <2>2 DEF StartAll
<1>26. ASSUME NEW t \in Loops, Spawn(t) PROVE TypeOK'
  BY <1>26 DEF Spawn
<1>27. ASSUME Report PROVE TypeOK'
  BY <1>27 DEF Report
<1>28. ASSUME StopWaiting PROVE TypeOK'
  BY <1>28 DEF StopWaiting
<1>29. ASSUME BeginShutdown PROVE TypeOK'
  BY <1>29 DEF BeginShutdown
<1>30. ASSUME NEW t \in Loops, JoinLoop(t) PROVE TypeOK'
  BY <1>30 DEF JoinLoop, NextToJoin
<1>31. ASSUME SwapWorkers PROVE TypeOK'
  BY <1>31 DEF SwapWorkers
<1>32. ASSUME NEW s \in Sessions, CloseSession(s) PROVE TypeOK'
  BY <1>32 DEF CloseSession
<1>33. ASSUME AllClosed PROVE TypeOK'
  BY <1>33 DEF AllClosed
<1>34. ASSUME NEW s \in Sessions, JoinWorker(s) PROVE TypeOK'
  BY <1>34 DEF JoinWorker
<1>35. ASSUME ClearSessions PROVE TypeOK'
  BY <1>35 DEF ClearSessions
<1>36. ASSUME Release PROVE TypeOK'
  BY <1>36 DEF Release
<1>37. CASE UNCHANGED vars
  BY <1>37 DEF vars
<1> QED
  BY <1>1, <1>2, <1>3, <1>4, <1>5, <1>6, <1>7, <1>8, <1>9, <1>10, <1>11,
     <1>12, <1>13, <1>14, <1>15, <1>16, <1>17, <1>18, <1>19, <1>20, <1>21,
     <1>22, <1>23, <1>24, <1>25, <1>26, <1>27, <1>28, <1>29, <1>30, <1>31,
     <1>32, <1>33, <1>34, <1>35, <1>36, <1>37 DEF Next, Main, Accept,
     Reconnect, DataPlane, Routing, Worker, Connect, Exited

\* Nothing runs before the runtime is up.
LEMMA StartStep == IInv /\ [Next]_vars => StartInv'
<1> SUFFICES ASSUME IInv, [Next]_vars PROVE StartInv'
  OBVIOUS
<1> USE SessionsAssumption DEF IInv, TypeOK, Threads, Loops, flags, resources,
           local, process, pool, Go, GoOn, StartInv, Before, Alive
<1>1. ASSUME RequestStop PROVE StartInv'
  BY <1>1 DEF RequestStop
<1>2. ASSUME AcceptTop \/ AcceptNothing PROVE StartInv'
  BY <1>2 DEF AcceptTop, AcceptNothing, Pass
<1>3. ASSUME NEW s \in Sessions, AcceptConnection(s) PROVE StartInv'
  BY <1>3 DEF AcceptConnection, NewSession
<1>4. ASSUME AcceptHandshake PROVE StartInv'
  BY <1>4 DEF AcceptHandshake, Pass
<1>5. ASSUME NEW t \in {"accept", "reconnect"}, StartSessionWorker(t) PROVE StartInv'
  BY <1>5 DEF StartSessionWorker, StartWorkers, Launched, Finished, Pass
<1>6. ASSUME ReconnectTop \/ ReconnectDone PROVE StartInv'
  BY <1>6 DEF ReconnectTop, ReconnectDone, Pass
<1>7. ASSUME NEW s \in Sessions, ReconnectDial(s) PROVE StartInv'
  BY <1>7 DEF ReconnectDial, NewSession
<1>8. ASSUME ReconnectRegister \/ ReconnectActivate PROVE StartInv'
  BY <1>8 DEF ReconnectRegister, ReconnectActivate
<1>9. ASSUME NEW t \in {"data", "routing"}, LoopTop(t) \/ LoopSent(t) PROVE StartInv'
  BY <1>9 DEF LoopTop, LoopSent, Pass
<1>10. ASSUME ReadPacket PROVE StartInv'
  BY <1>10 DEF ReadPacket, Pass
<1>11. ASSUME RoutingPass \/ RoutingSend \/ RoutingDone PROVE StartInv'
  BY <1>11, RoutingMoves
<1>12. ASSUME NEW s \in Sessions, WorkerTop(s) \/ WorkerSent(s) \/ WorkerClose(s) PROVE StartInv'
  BY <1>12 DEF WorkerTop, WorkerSent, WorkerClose, Listen
<1>13. ASSUME NEW s \in Sessions, WorkerReceive(s) PROVE StartInv'
  BY <1>13, WorkerMoves
<1>14. ASSUME NEW s \in Sessions, WorkerRemove(s) PROVE StartInv'
  BY <1>14 DEF WorkerRemove
<1>15. ASSUME Begin \/ StartRuntime \/ StartFails PROVE StartInv'
  BY <1>15 DEF Begin, StartRuntime, StartFails
<1>16. ASSUME NEW s \in Sessions, JoinSucceeds(s) PROVE StartInv'
  BY <1>16 DEF JoinSucceeds, NewSession, HoldInv
<1>17. ASSUME StartAll PROVE StartInv'
  BY <1>17 DEF StartAll, StartWorkers, Launched, Finished
<1>18. ASSUME NEW t \in Loops, Spawn(t) PROVE StartInv'
  BY <1>18 DEF Spawn
<1>19. ASSUME Report \/ StopWaiting \/ BeginShutdown PROVE StartInv'
  BY <1>19 DEF Report, StopWaiting, BeginShutdown
<1>20. ASSUME NEW t \in Loops, JoinLoop(t) PROVE StartInv'
  BY <1>20 DEF JoinLoop, NextToJoin
<1>21. ASSUME SwapWorkers \/ AllClosed \/ ClearSessions PROVE StartInv'
  BY <1>21 DEF SwapWorkers, AllClosed, ClearSessions
<1>22. ASSUME NEW s \in Sessions, CloseSession(s) \/ JoinWorker(s) PROVE StartInv'
  BY <1>22 DEF CloseSession, JoinWorker
<1>23. ASSUME Release PROVE StartInv'
  BY <1>23 DEF Release
<1>24. CASE UNCHANGED vars
  BY <1>24 DEF vars
<1> QED
  BY <1>1, <1>2, <1>3, <1>4, <1>5, <1>6, <1>7, <1>8, <1>9, <1>10, <1>11,
     <1>12, <1>13, <1>14, <1>15, <1>16, <1>17, <1>18, <1>19, <1>20, <1>21,
     <1>22, <1>23, <1>24 DEF Next, Main, Accept, Reconnect, DataPlane,
     Routing, Worker, Connect, Exited

\* A loop that app_shutdown has joined does not come back.
LEMMA LoopStep == IInv /\ [Next]_vars => LoopInv'
<1> SUFFICES ASSUME IInv, [Next]_vars PROVE LoopInv'
  OBVIOUS
<1> USE SessionsAssumption DEF IInv, TypeOK, Threads, Loops, flags, resources,
           local, process, pool, Go, GoOn, LoopInv, Alive, Passed, Over,
           Joined, Emptied, StartInv, Before
<1>1. ASSUME RequestStop PROVE LoopInv'
  BY <1>1 DEF RequestStop
<1>2. ASSUME AcceptTop \/ AcceptNothing PROVE LoopInv'
  BY <1>2 DEF AcceptTop, AcceptNothing, Pass
<1>3. ASSUME NEW s \in Sessions, AcceptConnection(s) PROVE LoopInv'
  BY <1>3 DEF AcceptConnection, NewSession
<1>4. ASSUME AcceptHandshake PROVE LoopInv'
  BY <1>4 DEF AcceptHandshake, Pass
<1>5. ASSUME NEW t \in {"accept", "reconnect"}, StartSessionWorker(t) PROVE LoopInv'
  BY <1>5 DEF StartSessionWorker, StartWorkers, Launched, Finished, Pass,
         HoldInv, Holds, WorkerInv
<1>6. ASSUME ReconnectTop \/ ReconnectDone PROVE LoopInv'
  BY <1>6 DEF ReconnectTop, ReconnectDone, Pass
<1>7. ASSUME NEW s \in Sessions, ReconnectDial(s) PROVE LoopInv'
  BY <1>7 DEF ReconnectDial, NewSession
<1>8. ASSUME ReconnectRegister \/ ReconnectActivate PROVE LoopInv'
  BY <1>8 DEF ReconnectRegister, ReconnectActivate
<1>9. ASSUME NEW t \in {"data", "routing"}, LoopTop(t) \/ LoopSent(t) PROVE LoopInv'
  BY <1>9 DEF LoopTop, LoopSent, Pass
<1>10. ASSUME ReadPacket PROVE LoopInv'
  BY <1>10 DEF ReadPacket, Pass
<1>11. ASSUME RoutingPass \/ RoutingSend \/ RoutingDone PROVE LoopInv'
  BY <1>11, RoutingMoves
<1>12. ASSUME NEW s \in Sessions, WorkerTop(s) \/ WorkerSent(s) \/ WorkerClose(s) PROVE LoopInv'
  BY <1>12 DEF WorkerTop, WorkerSent, WorkerClose, Listen
<1>13. ASSUME NEW s \in Sessions, WorkerReceive(s) PROVE LoopInv'
  BY <1>13, WorkerMoves
<1>14. ASSUME NEW s \in Sessions, WorkerRemove(s) PROVE LoopInv'
  BY <1>14 DEF WorkerRemove
<1>15. ASSUME Begin \/ StartRuntime \/ StartFails PROVE LoopInv'
  BY <1>15 DEF Begin, StartRuntime, StartFails
<1>16. ASSUME NEW s \in Sessions, JoinSucceeds(s) PROVE LoopInv'
  BY <1>16 DEF JoinSucceeds, NewSession
<1>17. ASSUME StartAll PROVE LoopInv'
  BY <1>17 DEF StartAll, StartWorkers, Launched, Finished
<1>18. ASSUME NEW t \in Loops, Spawn(t) PROVE LoopInv'
  BY <1>18 DEF Spawn
<1>19. ASSUME Report \/ StopWaiting \/ BeginShutdown PROVE LoopInv'
  BY <1>19 DEF Report, StopWaiting, BeginShutdown
<1>20. ASSUME NEW t \in Loops, JoinLoop(t) PROVE LoopInv'
  BY <1>20 DEF JoinLoop, NextToJoin
<1>21. ASSUME SwapWorkers \/ AllClosed \/ ClearSessions PROVE LoopInv'
  BY <1>21 DEF SwapWorkers, AllClosed, ClearSessions
<1>22. ASSUME NEW s \in Sessions, CloseSession(s) \/ JoinWorker(s) PROVE LoopInv'
  BY <1>22 DEF CloseSession, JoinWorker
<1>23. ASSUME Release PROVE LoopInv'
  BY <1>23 DEF Release
<1>24. CASE UNCHANGED vars
  BY <1>24 DEF vars
<1> QED
  BY <1>1, <1>2, <1>3, <1>4, <1>5, <1>6, <1>7, <1>8, <1>9, <1>10, <1>11,
     <1>12, <1>13, <1>14, <1>15, <1>16, <1>17, <1>18, <1>19, <1>20, <1>21,
     <1>22, <1>23, <1>24 DEF Next, Main, Accept, Reconnect, DataPlane,
     Routing, Worker, Connect, Exited

\* No worker gets lost between session_workers, app_shutdown and the join.
LEMMA WorkerStep == IInv /\ [Next]_vars => WorkerInv'
<1> SUFFICES ASSUME IInv, [Next]_vars PROVE WorkerInv'
  OBVIOUS
<1> USE SessionsAssumption DEF IInv, TypeOK, Threads, Loops, flags, resources,
           local, process, pool, Go, GoOn, WorkerInv, LoopInv, HoldInv, Holds,
           Finished, Alive, Passed, Over, Joined, Emptied, StartInv, Before
<1>1. ASSUME RequestStop PROVE WorkerInv'
  BY <1>1 DEF RequestStop
<1>2. ASSUME AcceptTop \/ AcceptNothing PROVE WorkerInv'
  BY <1>2 DEF AcceptTop, AcceptNothing, Pass
<1>3. ASSUME NEW s \in Sessions, AcceptConnection(s) PROVE WorkerInv'
  BY <1>3 DEF AcceptConnection, NewSession
<1>4. ASSUME AcceptHandshake PROVE WorkerInv'
  BY <1>4 DEF AcceptHandshake, Pass
<1>5. ASSUME NEW t \in {"accept", "reconnect"}, StartSessionWorker(t) PROVE WorkerInv'
  BY <1>5 DEF StartSessionWorker, StartWorkers, Launched, Finished, Pass
<1>6. ASSUME ReconnectTop \/ ReconnectDone PROVE WorkerInv'
  BY <1>6 DEF ReconnectTop, ReconnectDone, Pass
<1>7. ASSUME NEW s \in Sessions, ReconnectDial(s) PROVE WorkerInv'
  BY <1>7 DEF ReconnectDial, NewSession
<1>8. ASSUME ReconnectRegister \/ ReconnectActivate PROVE WorkerInv'
  BY <1>8 DEF ReconnectRegister, ReconnectActivate
<1>9. ASSUME NEW t \in {"data", "routing"}, LoopTop(t) \/ LoopSent(t) PROVE WorkerInv'
  BY <1>9 DEF LoopTop, LoopSent, Pass
<1>10. ASSUME ReadPacket PROVE WorkerInv'
  BY <1>10 DEF ReadPacket, Pass
<1>11. ASSUME RoutingPass \/ RoutingSend \/ RoutingDone PROVE WorkerInv'
  BY <1>11, RoutingMoves
<1>12. ASSUME NEW s \in Sessions, WorkerTop(s) \/ WorkerSent(s) \/ WorkerClose(s) PROVE WorkerInv'
  BY <1>12 DEF WorkerTop, WorkerSent, WorkerClose, Listen
<1>13. ASSUME NEW s \in Sessions, WorkerReceive(s) PROVE WorkerInv'
  BY <1>13, WorkerMoves
<1>14. ASSUME NEW s \in Sessions, WorkerRemove(s) PROVE WorkerInv'
  BY <1>14 DEF WorkerRemove
<1>15. ASSUME Begin \/ StartRuntime \/ StartFails PROVE WorkerInv'
  BY <1>15 DEF Begin, StartRuntime, StartFails
<1>16. ASSUME NEW s \in Sessions, JoinSucceeds(s) PROVE WorkerInv'
  BY <1>16 DEF JoinSucceeds, NewSession
<1>17. ASSUME StartAll PROVE WorkerInv'
  BY <1>17 DEF StartAll, StartWorkers, Launched, Finished
<1>18. ASSUME NEW t \in Loops, Spawn(t) PROVE WorkerInv'
  BY <1>18 DEF Spawn
<1>19. ASSUME Report \/ StopWaiting \/ BeginShutdown PROVE WorkerInv'
  BY <1>19 DEF Report, StopWaiting, BeginShutdown
<1>20. ASSUME NEW t \in Loops, JoinLoop(t) PROVE WorkerInv'
  BY <1>20 DEF JoinLoop, NextToJoin
<1>21. ASSUME SwapWorkers \/ AllClosed \/ ClearSessions PROVE WorkerInv'
  BY <1>21 DEF SwapWorkers, AllClosed, ClearSessions
<1>22. ASSUME NEW s \in Sessions, CloseSession(s) \/ JoinWorker(s) PROVE WorkerInv'
  BY <1>22 DEF CloseSession, JoinWorker
<1>23. ASSUME Release PROVE WorkerInv'
  BY <1>23 DEF Release
<1>24. CASE UNCHANGED vars
  BY <1>24 DEF vars
<1> QED
  BY <1>1, <1>2, <1>3, <1>4, <1>5, <1>6, <1>7, <1>8, <1>9, <1>10, <1>11,
     <1>12, <1>13, <1>14, <1>15, <1>16, <1>17, <1>18, <1>19, <1>20, <1>21,
     <1>22, <1>23, <1>24 DEF Next, Main, Accept, Reconnect, DataPlane,
     Routing, Worker, Connect, Exited

\* A loop that has made a connection is the only one to hold it.
LEMMA HoldStep == IInv /\ [Next]_vars => HoldInv'
<1> SUFFICES ASSUME IInv, [Next]_vars PROVE HoldInv'
  OBVIOUS
<1> USE SessionsAssumption DEF IInv, TypeOK, Threads, Loops, flags, resources,
           local, process, pool, Go, GoOn, HoldInv, Holds, WorkerInv, LoopInv,
           Passed, Over, Joined, Emptied, StartInv, Before
<1>1. ASSUME RequestStop PROVE HoldInv'
  BY <1>1 DEF RequestStop
<1>2. ASSUME AcceptTop \/ AcceptNothing PROVE HoldInv'
  BY <1>2 DEF AcceptTop, AcceptNothing, Pass
<1>3. ASSUME NEW s \in Sessions, AcceptConnection(s) PROVE HoldInv'
  BY <1>3 DEF AcceptConnection, NewSession
<1>4. ASSUME AcceptHandshake PROVE HoldInv'
  BY <1>4 DEF AcceptHandshake, Pass
<1>5. ASSUME NEW t \in {"accept", "reconnect"}, StartSessionWorker(t) PROVE HoldInv'
  BY <1>5 DEF StartSessionWorker, StartWorkers, Launched, Finished, Pass
<1>6. ASSUME ReconnectTop \/ ReconnectDone PROVE HoldInv'
  BY <1>6 DEF ReconnectTop, ReconnectDone, Pass
<1>7. ASSUME NEW s \in Sessions, ReconnectDial(s) PROVE HoldInv'
  BY <1>7 DEF ReconnectDial, NewSession
<1>8. ASSUME ReconnectRegister \/ ReconnectActivate PROVE HoldInv'
  BY <1>8 DEF ReconnectRegister, ReconnectActivate
<1>9. ASSUME NEW t \in {"data", "routing"}, LoopTop(t) \/ LoopSent(t) PROVE HoldInv'
  BY <1>9 DEF LoopTop, LoopSent, Pass
<1>10. ASSUME ReadPacket PROVE HoldInv'
  BY <1>10 DEF ReadPacket, Pass
<1>11. ASSUME RoutingPass \/ RoutingSend \/ RoutingDone PROVE HoldInv'
  BY <1>11, RoutingMoves
<1>12. ASSUME NEW s \in Sessions, WorkerTop(s) \/ WorkerSent(s) \/ WorkerClose(s) PROVE HoldInv'
  BY <1>12 DEF WorkerTop, WorkerSent, WorkerClose, Listen
<1>13. ASSUME NEW s \in Sessions, WorkerReceive(s) PROVE HoldInv'
  BY <1>13, WorkerMoves
<1>14. ASSUME NEW s \in Sessions, WorkerRemove(s) PROVE HoldInv'
  BY <1>14 DEF WorkerRemove
<1>15. ASSUME Begin \/ StartRuntime \/ StartFails PROVE HoldInv'
  BY <1>15 DEF Begin, StartRuntime, StartFails
<1>16. ASSUME NEW s \in Sessions, JoinSucceeds(s) PROVE HoldInv'
  BY <1>16 DEF JoinSucceeds, NewSession
<1>17. ASSUME StartAll PROVE HoldInv'
  BY <1>17 DEF StartAll, StartWorkers, Launched, Finished
<1>18. ASSUME NEW t \in Loops, Spawn(t) PROVE HoldInv'
  BY <1>18 DEF Spawn
<1>19. ASSUME Report \/ StopWaiting \/ BeginShutdown PROVE HoldInv'
  BY <1>19 DEF Report, StopWaiting, BeginShutdown
<1>20. ASSUME NEW t \in Loops, JoinLoop(t) PROVE HoldInv'
  BY <1>20 DEF JoinLoop, NextToJoin
<1>21. ASSUME SwapWorkers \/ AllClosed \/ ClearSessions PROVE HoldInv'
  BY <1>21 DEF SwapWorkers, AllClosed, ClearSessions
<1>22. ASSUME NEW s \in Sessions, CloseSession(s) \/ JoinWorker(s) PROVE HoldInv'
  BY <1>22 DEF CloseSession, JoinWorker
<1>23. ASSUME Release PROVE HoldInv'
  BY <1>23 DEF Release
<1>24. CASE UNCHANGED vars
  BY <1>24 DEF vars
<1> QED
  BY <1>1, <1>2, <1>3, <1>4, <1>5, <1>6, <1>7, <1>8, <1>9, <1>10, <1>11,
     <1>12, <1>13, <1>14, <1>15, <1>16, <1>17, <1>18, <1>19, <1>20, <1>21,
     <1>22, <1>23, <1>24 DEF Next, Main, Accept, Reconnect, DataPlane,
     Routing, Worker, Connect, Exited

\* No session is left without an owner.
LEMMA OwnStep == IInv /\ [Next]_vars => OwnInv'
<1> SUFFICES ASSUME IInv, [Next]_vars PROVE OwnInv'
  OBVIOUS
<1> USE SessionsAssumption DEF IInv, TypeOK, Threads, Loops, flags, resources,
           local, process, pool, Go, GoOn, OwnInv, Alive, HoldInv, Holds,
           WorkerInv, LoopInv, Passed, Over, Joined, Emptied, StartInv, Before
<1>1. ASSUME RequestStop PROVE OwnInv'
  BY <1>1 DEF RequestStop
<1>2. ASSUME AcceptTop \/ AcceptNothing PROVE OwnInv'
  BY <1>2 DEF AcceptTop, AcceptNothing, Pass
<1>3. ASSUME NEW s \in Sessions, AcceptConnection(s) PROVE OwnInv'
  BY <1>3 DEF AcceptConnection, NewSession
<1>4. ASSUME AcceptHandshake PROVE OwnInv'
  BY <1>4 DEF AcceptHandshake, Pass
<1>5. ASSUME NEW t \in {"accept", "reconnect"}, StartSessionWorker(t) PROVE OwnInv'
  BY <1>5 DEF StartSessionWorker, StartWorkers, Launched, Finished, Pass
<1>6. ASSUME ReconnectTop \/ ReconnectDone PROVE OwnInv'
  BY <1>6 DEF ReconnectTop, ReconnectDone, Pass
<1>7. ASSUME NEW s \in Sessions, ReconnectDial(s) PROVE OwnInv'
  BY <1>7 DEF ReconnectDial, NewSession
<1>8. ASSUME ReconnectRegister \/ ReconnectActivate PROVE OwnInv'
  BY <1>8 DEF ReconnectRegister, ReconnectActivate
<1>9. ASSUME NEW t \in {"data", "routing"}, LoopTop(t) \/ LoopSent(t) PROVE OwnInv'
  BY <1>9 DEF LoopTop, LoopSent, Pass
<1>10. ASSUME ReadPacket PROVE OwnInv'
  BY <1>10 DEF ReadPacket, Pass
<1>11. ASSUME RoutingPass \/ RoutingSend \/ RoutingDone PROVE OwnInv'
  BY <1>11, RoutingMoves
<1>12. ASSUME NEW s \in Sessions, WorkerTop(s) \/ WorkerSent(s) \/ WorkerClose(s) PROVE OwnInv'
  BY <1>12 DEF WorkerTop, WorkerSent, WorkerClose, Listen
<1>13. ASSUME NEW s \in Sessions, WorkerReceive(s) PROVE OwnInv'
  BY <1>13, WorkerMoves
<1>14. ASSUME NEW s \in Sessions, WorkerRemove(s) PROVE OwnInv'
  BY <1>14 DEF WorkerRemove
<1>15. ASSUME Begin \/ StartRuntime \/ StartFails PROVE OwnInv'
  BY <1>15 DEF Begin, StartRuntime, StartFails
<1>16. ASSUME NEW s \in Sessions, JoinSucceeds(s) PROVE OwnInv'
  BY <1>16 DEF JoinSucceeds, NewSession
<1>17. ASSUME StartAll PROVE OwnInv'
  BY <1>17 DEF StartAll, StartWorkers, Launched, Finished
<1>18. ASSUME NEW t \in Loops, Spawn(t) PROVE OwnInv'
  BY <1>18 DEF Spawn
<1>19. ASSUME Report \/ StopWaiting \/ BeginShutdown PROVE OwnInv'
  BY <1>19 DEF Report, StopWaiting, BeginShutdown
<1>20. ASSUME NEW t \in Loops, JoinLoop(t) PROVE OwnInv'
  BY <1>20 DEF JoinLoop, NextToJoin
<1>21. ASSUME SwapWorkers \/ AllClosed \/ ClearSessions PROVE OwnInv'
  BY <1>21 DEF SwapWorkers, AllClosed, ClearSessions
<1>22. ASSUME NEW s \in Sessions, CloseSession(s) \/ JoinWorker(s) PROVE OwnInv'
  BY <1>22 DEF CloseSession, JoinWorker
<1>23. ASSUME Release PROVE OwnInv'
  BY <1>23 DEF Release
<1>24. CASE UNCHANGED vars
  BY <1>24 DEF vars
<1> QED
  BY <1>1, <1>2, <1>3, <1>4, <1>5, <1>6, <1>7, <1>8, <1>9, <1>10, <1>11,
     <1>12, <1>13, <1>14, <1>15, <1>16, <1>17, <1>18, <1>19, <1>20, <1>21,
     <1>22, <1>23, <1>24 DEF Next, Main, Accept, Reconnect, DataPlane,
     Routing, Worker, Connect, Exited

\* Nothing is released while a thread runs.
LEMMA ReleaseStep == IInv /\ [Next]_vars => NothingReleasedInUse'
<1> SUFFICES ASSUME IInv, [Next]_vars PROVE NothingReleasedInUse'
  OBVIOUS
<1> USE SessionsAssumption DEF IInv, TypeOK, Threads, Loops, flags, resources,
           local, process, pool, Go, GoOn, NothingReleasedInUse, Alive,
           WorkerInv, LoopInv, Passed, Over, Joined, Emptied, StartInv, Before
<1>1. ASSUME RequestStop PROVE NothingReleasedInUse'
  BY <1>1 DEF RequestStop
<1>2. ASSUME AcceptTop \/ AcceptNothing PROVE NothingReleasedInUse'
  BY <1>2 DEF AcceptTop, AcceptNothing, Pass
<1>3. ASSUME NEW s \in Sessions, AcceptConnection(s) PROVE NothingReleasedInUse'
  BY <1>3 DEF AcceptConnection, NewSession
<1>4. ASSUME AcceptHandshake PROVE NothingReleasedInUse'
  BY <1>4 DEF AcceptHandshake, Pass
<1>5. ASSUME NEW t \in {"accept", "reconnect"}, StartSessionWorker(t) PROVE NothingReleasedInUse'
  BY <1>5 DEF StartSessionWorker, StartWorkers, Launched, Finished, Pass
<1>6. ASSUME ReconnectTop \/ ReconnectDone PROVE NothingReleasedInUse'
  BY <1>6 DEF ReconnectTop, ReconnectDone, Pass
<1>7. ASSUME NEW s \in Sessions, ReconnectDial(s) PROVE NothingReleasedInUse'
  BY <1>7 DEF ReconnectDial, NewSession
<1>8. ASSUME ReconnectRegister \/ ReconnectActivate PROVE NothingReleasedInUse'
  BY <1>8 DEF ReconnectRegister, ReconnectActivate
<1>9. ASSUME NEW t \in {"data", "routing"}, LoopTop(t) \/ LoopSent(t) PROVE NothingReleasedInUse'
  BY <1>9 DEF LoopTop, LoopSent, Pass
<1>10. ASSUME ReadPacket PROVE NothingReleasedInUse'
  BY <1>10 DEF ReadPacket, Pass
<1>11. ASSUME RoutingPass \/ RoutingSend \/ RoutingDone PROVE NothingReleasedInUse'
  BY <1>11, RoutingMoves
<1>12. ASSUME NEW s \in Sessions, WorkerTop(s) \/ WorkerSent(s) \/ WorkerClose(s) PROVE NothingReleasedInUse'
  BY <1>12 DEF WorkerTop, WorkerSent, WorkerClose, Listen
<1>13. ASSUME NEW s \in Sessions, WorkerReceive(s) PROVE NothingReleasedInUse'
  BY <1>13, WorkerMoves
<1>14. ASSUME NEW s \in Sessions, WorkerRemove(s) PROVE NothingReleasedInUse'
  BY <1>14 DEF WorkerRemove
<1>15. ASSUME Begin \/ StartRuntime \/ StartFails PROVE NothingReleasedInUse'
  BY <1>15 DEF Begin, StartRuntime, StartFails
<1>16. ASSUME NEW s \in Sessions, JoinSucceeds(s) PROVE NothingReleasedInUse'
  BY <1>16 DEF JoinSucceeds, NewSession
<1>17. ASSUME StartAll PROVE NothingReleasedInUse'
  BY <1>17 DEF StartAll, StartWorkers, Launched, Finished
<1>18. ASSUME NEW t \in Loops, Spawn(t) PROVE NothingReleasedInUse'
  BY <1>18 DEF Spawn
<1>19. ASSUME Report \/ StopWaiting \/ BeginShutdown PROVE NothingReleasedInUse'
  BY <1>19 DEF Report, StopWaiting, BeginShutdown
<1>20. ASSUME NEW t \in Loops, JoinLoop(t) PROVE NothingReleasedInUse'
  BY <1>20 DEF JoinLoop, NextToJoin
<1>21. ASSUME SwapWorkers \/ AllClosed \/ ClearSessions PROVE NothingReleasedInUse'
  BY <1>21 DEF SwapWorkers, AllClosed, ClearSessions
<1>22. ASSUME NEW s \in Sessions, CloseSession(s) \/ JoinWorker(s) PROVE NothingReleasedInUse'
  BY <1>22 DEF CloseSession, JoinWorker
<1>23. ASSUME Release PROVE NothingReleasedInUse'
  BY <1>23 DEF Release
<1>24. CASE UNCHANGED vars
  BY <1>24 DEF vars
<1> QED
  BY <1>1, <1>2, <1>3, <1>4, <1>5, <1>6, <1>7, <1>8, <1>9, <1>10, <1>11,
     <1>12, <1>13, <1>14, <1>15, <1>16, <1>17, <1>18, <1>19, <1>20, <1>21,
     <1>22, <1>23, <1>24 DEF Next, Main, Accept, Reconnect, DataPlane,
     Routing, Worker, Connect, Exited

\* What app_shutdown has released stays released.
LEMMA ExitStep == IInv /\ [Next]_vars => ExitInv'
<1> SUFFICES ASSUME IInv, [Next]_vars PROVE ExitInv'
  OBVIOUS
<1> USE SessionsAssumption DEF IInv, TypeOK, Threads, Loops, flags, resources,
           local, process, pool, Go, GoOn, ExitInv, NothingReleasedInUse,
           Alive, WorkerInv, LoopInv, Passed, Over, Joined, Emptied, StartInv,
           Before
<1>1. ASSUME RequestStop PROVE ExitInv'
  BY <1>1 DEF RequestStop
<1>2. ASSUME AcceptTop \/ AcceptNothing PROVE ExitInv'
  BY <1>2 DEF AcceptTop, AcceptNothing, Pass
<1>3. ASSUME NEW s \in Sessions, AcceptConnection(s) PROVE ExitInv'
  BY <1>3 DEF AcceptConnection, NewSession
<1>4. ASSUME AcceptHandshake PROVE ExitInv'
  BY <1>4 DEF AcceptHandshake, Pass
<1>5. ASSUME NEW t \in {"accept", "reconnect"}, StartSessionWorker(t) PROVE ExitInv'
  BY <1>5 DEF StartSessionWorker, StartWorkers, Launched, Finished, Pass
<1>6. ASSUME ReconnectTop \/ ReconnectDone PROVE ExitInv'
  BY <1>6 DEF ReconnectTop, ReconnectDone, Pass
<1>7. ASSUME NEW s \in Sessions, ReconnectDial(s) PROVE ExitInv'
  BY <1>7 DEF ReconnectDial, NewSession
<1>8. ASSUME ReconnectRegister \/ ReconnectActivate PROVE ExitInv'
  BY <1>8 DEF ReconnectRegister, ReconnectActivate
<1>9. ASSUME NEW t \in {"data", "routing"}, LoopTop(t) \/ LoopSent(t) PROVE ExitInv'
  BY <1>9 DEF LoopTop, LoopSent, Pass
<1>10. ASSUME ReadPacket PROVE ExitInv'
  BY <1>10 DEF ReadPacket, Pass
<1>11. ASSUME RoutingPass \/ RoutingSend \/ RoutingDone PROVE ExitInv'
  BY <1>11, RoutingMoves
<1>12. ASSUME NEW s \in Sessions, WorkerTop(s) \/ WorkerSent(s) \/ WorkerClose(s) PROVE ExitInv'
  BY <1>12 DEF WorkerTop, WorkerSent, WorkerClose, Listen
<1>13. ASSUME NEW s \in Sessions, WorkerReceive(s) PROVE ExitInv'
  BY <1>13, WorkerMoves
<1>14. ASSUME NEW s \in Sessions, WorkerRemove(s) PROVE ExitInv'
  BY <1>14 DEF WorkerRemove
<1>15. ASSUME Begin \/ StartRuntime \/ StartFails PROVE ExitInv'
  BY <1>15 DEF Begin, StartRuntime, StartFails
<1>16. ASSUME NEW s \in Sessions, JoinSucceeds(s) PROVE ExitInv'
  BY <1>16 DEF JoinSucceeds, NewSession
<1>17. ASSUME StartAll PROVE ExitInv'
  BY <1>17 DEF StartAll, StartWorkers, Launched, Finished
<1>18. ASSUME NEW t \in Loops, Spawn(t) PROVE ExitInv'
  BY <1>18 DEF Spawn
<1>19. ASSUME Report \/ StopWaiting \/ BeginShutdown PROVE ExitInv'
  BY <1>19 DEF Report, StopWaiting, BeginShutdown
<1>20. ASSUME NEW t \in Loops, JoinLoop(t) PROVE ExitInv'
  BY <1>20 DEF JoinLoop, NextToJoin
<1>21. ASSUME SwapWorkers \/ AllClosed \/ ClearSessions PROVE ExitInv'
  BY <1>21 DEF SwapWorkers, AllClosed, ClearSessions
<1>22. ASSUME NEW s \in Sessions, CloseSession(s) \/ JoinWorker(s) PROVE ExitInv'
  BY <1>22 DEF CloseSession, JoinWorker
<1>23. ASSUME Release PROVE ExitInv'
  BY <1>23 DEF Release
<1>24. CASE UNCHANGED vars
  BY <1>24 DEF vars
<1> QED
  BY <1>1, <1>2, <1>3, <1>4, <1>5, <1>6, <1>7, <1>8, <1>9, <1>10, <1>11,
     <1>12, <1>13, <1>14, <1>15, <1>16, <1>17, <1>18, <1>19, <1>20, <1>21,
     <1>22, <1>23, <1>24 DEF Next, Main, Accept, Reconnect, DataPlane,
     Routing, Worker, Connect, Exited

-----------------------------------------------------------------------------
(***************************************************************************)
(* The theorems                                                            *)
(***************************************************************************)

\* The program starts with nothing started, opened or held.
LEMMA InitIInv == Init => IInv
<1> SUFFICES ASSUME Init PROVE IInv
  OBVIOUS
<1> USE SessionsAssumption DEF Init, Threads, Loops
<1>1. TypeOK
  BY DEF TypeOK, LoopPlaces, MainPlaces
<1>2. StartInv /\ LoopInv
  BY DEF StartInv, Before, LoopInv, Passed, Over, Joined, Emptied
<1>3. WorkerInv /\ HoldInv
  BY DEF WorkerInv, HoldInv, Holds, Emptied
<1>4. OwnInv /\ NothingReleasedInUse /\ ExitInv
  BY DEF OwnInv, NothingReleasedInUse, Alive, ExitInv, Joined, Emptied
<1> QED
  BY <1>1, <1>2, <1>3, <1>4 DEF IInv

\* The inductive invariant of the threads and of app_shutdown.
THEOREM LifecycleInvariant == Spec => []IInv
<1>1. IInv /\ [Next]_vars => IInv'
  BY TypeStep, StartStep, LoopStep, WorkerStep, HoldStep, OwnStep, ReleaseStep,
     ExitStep DEF IInv
<1> QED
  BY InitIInv, <1>1, PTL DEF Spec

\* Every variable keeps its type, with any number of sessions.
THEOREM LifecycleTypes == Spec => []TypeOK
<1>1. IInv => TypeOK
  BY DEF IInv
<1> QED
  BY <1>1, LifecycleInvariant, PTL

\* app_shutdown releases the interface and the identity only when the last
\* thread has ended, however the stop interleaves with the threads.
THEOREM ReleasedLast == Spec => []NothingReleasedInUse
<1>1. IInv => NothingReleasedInUse
  BY DEF IInv
<1> QED
  BY <1>1, LifecycleInvariant, PTL

\* Every open or registered session has somebody who will close it.
THEOREM EverySessionOwned == Spec => []SessionsOwned
<1>1. IInv => SessionsOwned
  <2> SUFFICES ASSUME IInv, NEW s \in open \cup registered PROVE
          \/ Alive(s)
          \/ \E t \in {"accept", "reconnect"} : Alive(t) /\ on[t] = s
          \/ main = "startall"
    BY DEF SessionsOwned
  <2>1. \A t \in {"accept", "reconnect"} : Holds(t) => Alive(t)
    BY DEF Holds, Alive
  <2> QED
    BY <2>1 DEF IInv, OwnInv
<1> QED
  BY <1>1, LifecycleInvariant, PTL

\* The program ends with every thread joined, every session closed and every
\* resource released, and without its status file.
THEOREM ExitsClean == Spec => []CleanExit
<1>1. IInv => CleanExit
  <2> SUFFICES ASSUME IInv, main = "exited" PROVE
          /\ \A t \in Threads : at[t] = "none" \/ t \in joined
          /\ open = {} /\ registered = {}
          /\ server = "closed" /\ ~tun /\ ~identity /\ ~status
    BY DEF CleanExit
  <2>1. \A t \in Loops : Over(t)
    BY DEF IInv, LoopInv, Passed, Joined, Emptied
  <2>2. \A s \in Sessions : at[s] = "none" \/ s \in joined
    BY DEF IInv, WorkerInv, Emptied
  <2>3. \A t \in Threads : ~Alive(t)
    BY <2>1, <2>2 DEF IInv, LoopInv, Over, Alive, Threads
  <2>4. open \subseteq Sessions /\ ~Holds("accept") /\ ~Holds("reconnect")
    BY <2>3 DEF IInv, TypeOK, Alive, Holds, Threads, Loops
  <2>5. open = {}
    BY <2>3, <2>4 DEF IInv, OwnInv, Threads
  <2> QED
    BY <2>1, <2>2, <2>5 DEF IInv, ExitInv, Over, Threads, Joined, Emptied
<1> QED
  BY <1>1, LifecycleInvariant, PTL
=============================================================================
