----------------------------- MODULE Lifecycle ------------------------------
(***************************************************************************)
(* The threads of one daemon from start to exit: the main thread           *)
(* (daemon_run or run_join, wait_for_shutdown, app_shutdown), the accept,  *)
(* reconnect, data plane and routing loops, and one worker per session.    *)
(* What the threads compute is in the other modules; here are the things   *)
(* they use while they run (the TLS server, the virtual interface, the     *)
(* identity, the status file, the sessions) and who waits for whom.        *)
(*                                                                         *)
(* A thread at "receive" holds its session's receive_mutex, one at "send"  *)
(* the send_mutex of the session it is on.  Everything else is done under  *)
(* mutexes that are never held across a call that can wait.                *)
(***************************************************************************)
EXTENDS Naturals, FiniteSets

CONSTANTS
    Sessions,    \* bound: the connections made while the daemon runs
    PeerOf,      \* PeerOf[s]: the node at the other end
    MaxSessions, \* MAX_PEER_SESSIONS
    None         \* no session

Loops == {"accept", "reconnect", "data", "routing"}
Threads == Loops \cup Sessions  \* a session's worker has the session's name

ASSUME SessionsAssumption ==
    /\ Sessions \cap Loops = {}
    /\ None \notin Sessions
    /\ MaxSessions \in Nat

VARIABLES
    stop,       \* g_stop_requested
    running,    \* app.running
    nodeState,  \* app.node_state
    main,       \* where the main thread is
    server,     \* app.transport_server: "closed" or "listening"
    tun,        \* app.vnet.is_up
    identity,   \* app.identity is loaded and its lock file held
    status,     \* the status file exists
    at,         \* where each thread is
    on,         \* on[t]: the session a thread works on
    queue,      \* the sessions on which routing_loop has still to send
    used,       \* connections that have been made
    open,       \* sessions whose transport is open
    registered, \* app.sessions
    started,    \* sessions with worker_started
    workers,    \* app.session_workers
    closing,    \* app_shutdown's copy of app.sessions, not closed yet
    joining,    \* app_shutdown's workers, not joined yet
    joined      \* threads that have been joined

flags == <<stop, running, nodeState>>
resources == <<server, tun, identity>>
local == <<closing, joining>>
process == <<flags, main, resources, local>>  \* what only the main thread changes
pool == <<used, started, workers, joined>>
vars == <<process, status, at, on, queue, pool, open, registered>>

\* node_state.cpp: node_state_can_transition
CanTransition(from, to) ==
    to \in CASE from = "CREATED" -> {"DISCOVERING"}
             [] from = "DISCOVERING" ->
                    {"JOINING_NETWORK", "ACTIVE", "DISCOVERING", "LEAVING"}
             [] from = "JOINING_NETWORK" -> {"ACTIVE", "DISCOVERING", "LEAVING"}
             [] from = "ACTIVE" -> {"LEAVING", "DISCOVERING"}
             [] from = "LEAVING" -> {"CREATED"}

Init ==
    /\ stop = FALSE /\ running = TRUE /\ nodeState = "CREATED"
    /\ main \in {"start", "startjoin"}
    /\ server = "closed" /\ tun = FALSE /\ identity = TRUE /\ status = FALSE
    /\ at = [t \in Threads |-> "none"]
    /\ on = [t \in Threads |-> None]
    /\ queue = {}
    /\ used = {} /\ open = {} /\ registered = {} /\ started = {}
    /\ workers = {} /\ closing = {} /\ joining = {} /\ joined = {}

\* A thread goes to another place; what it works on changes or not.
Go(t, place) == at' = [at EXCEPT ![t] = place]
GoOn(t, place, s) == Go(t, place) /\ on' = [on EXCEPT ![t] = s]

\* The condition of every loop.  A thread looks at it when it starts and when
\* the last call of a pass returns; the return and the look are one step.
MayRun == running /\ ~stop

\* Mutant: a loop looks at app.running only while no stop is requested.
PassAfterStop(place) == IF running \/ stop THEN place ELSE "ended"

Pass(place) == IF MayRun THEN place ELSE "ended"

\* lifecycle.cpp: a signal.
RequestStop ==
    /\ ~stop
    /\ stop' = TRUE
    /\ UNCHANGED <<running, nodeState, main, resources, local, status, at, on,
                   queue, pool, open, registered>>

-----------------------------------------------------------------------------
(***************************************************************************)
(* Sessions                                                                *)
(***************************************************************************)

\* register_session refuses a session when there are too many, or when its
\* peer has another open one.
CanRegister(s) ==
    /\ Cardinality(registered) < MaxSessions
    /\ \A r \in registered \cap open : PeerOf[r] # PeerOf[s]

\* Sessions have no names; a new connection takes any that is left.
NewSession(s) ==
    /\ used # Sessions
    /\ s = CHOOSE r \in Sessions : r \notin used
    /\ used' = used \cup {s}

\* Somebody is in a call on the session: under its send_mutex, under either.
Sending(s) == \E t \in Threads : at[t] = "send" /\ on[t] = s
InCall(s) == at[s] = "receive" \/ Sending(s)

\* start_session_worker for the sessions S: the finished workers are taken out
\* of session_workers and joined, and each session without a thread gets one.
\* The finished flag is the last thing a worker sets, so that joining it does not
\* wait, and what other threads do between the two halves does not matter here.
Finished == {s \in workers : at[s] = "ended"}

\* Mutant: finished workers are dropped without being joined.
StartWithoutJoin(S) ==
    /\ joined' = joined
    /\ started' = started \cup S
    /\ workers' = (workers \ Finished) \cup (S \ started)

StartWorkers(S) ==
    /\ joined' = joined \cup Finished
    /\ started' = started \cup S
    /\ workers' = (workers \ Finished) \cup (S \ started)

Launched(f, S) == [t \in Threads |-> IF t \in S \ started THEN "top" ELSE f[t]]

-----------------------------------------------------------------------------
(***************************************************************************)
(* accept_loop                                                             *)
(***************************************************************************)

AcceptTop ==
    /\ at["accept"] = "top"
    /\ Go("accept", Pass("poll"))
    /\ UNCHANGED <<process, status, on, queue, pool, open, registered>>

\* transport_accept times out, or the listening socket is closed.
AcceptNothing ==
    /\ at["accept"] \in {"poll", "handshake"}
    /\ GoOn("accept", Pass("poll"), None)
    /\ UNCHANGED <<process, status, queue, pool, open, registered>>

\* Mutant: the new session is not filled in.
AcceptUnnamed(s) ==
    /\ at["accept"] = "poll"
    /\ server = "listening"
    /\ NewSession(s)
    /\ GoOn("accept", "handshake", None)
    /\ UNCHANGED <<process, status, queue, started, workers, joined, open,
                   registered>>

\* It takes a connection and makes a TLS session from the server's context.
AcceptConnection(s) ==
    /\ at["accept"] = "poll"
    /\ server = "listening"
    /\ NewSession(s)
    /\ GoOn("accept", "handshake", s)
    /\ UNCHANGED <<process, status, queue, started, workers, joined, open,
                   registered>>

\* The handshake may outlive the server, as the TLS session keeps the context.
\* The session is registered, or it is closed again: the daemon has stopped, or
\* register_session refuses.
AcceptHandshake ==
    LET s == on["accept"] IN
    /\ at["accept"] = "handshake"
    /\ IF running /\ CanRegister(s)
       THEN /\ open' = open \cup {s}
            /\ registered' = registered \cup {s}
            /\ Go("accept", "start")
            /\ UNCHANGED on
       ELSE /\ GoOn("accept", Pass("poll"), None)
            /\ UNCHANGED <<open, registered>>
    /\ UNCHANGED <<process, status, queue, pool>>

\* The accept and the reconnect loop start the worker of their new session;
\* reconnect_step writes the status file then.
StartSessionWorker(t) ==
    /\ at[t] = "start"
    /\ StartWorkers({on[t]})
    /\ status' = (status \/ t = "reconnect")
    /\ at' = [Launched(at, {on[t]})
                EXCEPT ![t] = IF t = "accept" THEN Pass("poll") ELSE "dial"]
    /\ on' = [on EXCEPT ![t] = None]
    /\ UNCHANGED <<process, queue, used, open, registered>>

-----------------------------------------------------------------------------
(***************************************************************************)
(* reconnect_loop and reconnect_step                                       *)
(***************************************************************************)

ReconnectTop ==
    /\ at["reconnect"] = "top"
    /\ Go("reconnect", Pass("dial"))
    /\ UNCHANGED <<process, status, on, queue, pool, open, registered>>

\* No target is left, or the daemon stops: update_status_file, and a new pass
\* after a pause.
ReconnectDone ==
    /\ at["reconnect"] = "dial"
    /\ status' = TRUE
    /\ Go("reconnect", Pass("dial"))
    /\ UNCHANGED <<process, on, queue, pool, open, registered>>

\* transport_connect_tls succeeds; the JOIN_REQUEST is sent.
ReconnectDial(s) ==
    /\ at["reconnect"] = "dial"
    /\ MayRun
    /\ NewSession(s)
    /\ open' = open \cup {s}
    /\ GoOn("reconnect", "opened", s)
    /\ UNCHANGED <<process, status, queue, started, workers, joined,
                   registered>>

\* The exchange ends: the session is registered, or it is closed because the
\* exchange failed or register_session refused.
ReconnectRegister ==
    LET s == on["reconnect"] IN
    /\ at["reconnect"] = "opened"
    /\ \/ /\ CanRegister(s)
          /\ registered' = registered \cup {s}
          /\ Go("reconnect", "activate")
          /\ UNCHANGED <<on, open>>
       \/ /\ open' = open \ {s}
          /\ GoOn("reconnect", "dial", None)
          /\ UNCHANGED registered
    /\ UNCHANGED <<process, status, queue, pool>>

\* activate_neighbor, which writes the status file, or refuses and the session
\* is removed (deactivate_neighbor writes the file) and closed.
ReconnectActivate ==
    LET s == on["reconnect"] IN
    /\ at["reconnect"] = "activate"
    /\ status' = TRUE
    /\ \/ Go("reconnect", "start") /\ UNCHANGED <<on, open, registered>>
       \/ /\ ~InCall(s)
          /\ registered' = registered \ {s}
          /\ open' = open \ {s}
          /\ GoOn("reconnect", "dial", None)
    /\ UNCHANGED <<process, queue, pool>>

-----------------------------------------------------------------------------
(***************************************************************************)
(* data_plane_loop and routing_loop                                        *)
(***************************************************************************)

LoopTop(t) ==
    /\ at[t] = "top"
    /\ Go(t, Pass("work"))
    /\ UNCHANGED <<process, status, on, queue, pool, open, registered>>

\* data_plane_loop: a packet is read from the interface and sent on a session,
\* under its send_mutex, or there is none or it is dropped.
ReadPacket ==
    /\ at["data"] = "work"
    /\ \/ GoOn("data", Pass("work"), None)
       \/ \E s \in registered \cap open :
             ~Sending(s) /\ GoOn("data", "send", s)
    /\ UNCHANGED <<process, status, queue, pool, open, registered>>

\* routing_loop waits and prunes, writes the status file if something changed,
\* and chooses the sessions on which HELLO or the routes are due.
RoutingPass ==
    /\ at["routing"] = "work"
    /\ IF running
       THEN /\ status' \in {status, TRUE}
            /\ queue' \in SUBSET (registered \cap open)
            /\ Go("routing", "next")
       ELSE Go("routing", "ended") /\ UNCHANGED <<queue, status>>
    /\ UNCHANGED <<process, on, pool, open, registered>>

RoutingSend ==
    /\ at["routing"] = "next"
    /\ \E s \in queue :
          /\ ~Sending(s)
          /\ queue' = queue \ {s}
          /\ GoOn("routing", "send", s)
    /\ UNCHANGED <<process, status, pool, open, registered>>

\* All is sent; the status file is written when routes were.
RoutingDone ==
    /\ at["routing"] = "next"
    /\ queue = {}
    /\ status' \in {status, TRUE}
    /\ Go("routing", Pass("work"))
    /\ UNCHANGED <<process, on, queue, pool, open, registered>>

\* send_on_session returns; a send that fails closes the session.
LoopSent(t) ==
    /\ at[t] = "send"
    /\ open' \in {open, open \ {on[t]}}
    /\ GoOn(t, IF t = "routing" THEN "next" ELSE Pass("work"), None)
    /\ UNCHANGED <<process, status, queue, pool, registered>>

-----------------------------------------------------------------------------
(***************************************************************************)
(* run_session                                                             *)
(***************************************************************************)

\* The condition of its loop.
Listen(s) == IF MayRun /\ s \in open' THEN "receive" ELSE "close"

WorkerTop(s) ==
    /\ at[s] = "top"
    /\ UNCHANGED open
    /\ Go(s, Listen(s))
    /\ UNCHANGED <<process, status, on, queue, pool, registered>>

\* receive_on_session returns nothing, the end of the session, or a message.
\* That may change the routes (and the status file), be written to the interface,
\* be answered or sent on to another session, or end this one.
WorkerReceive(s) ==
    /\ at[s] = "receive"
    /\ \/ /\ open' = open \ {s}
          /\ Go(s, "close")
          /\ UNCHANGED <<on, status>>
       \/ /\ UNCHANGED open
          /\ status' \in {status, TRUE}
          /\ \/ Go(s, Listen(s)) /\ UNCHANGED on
             \/ Go(s, "close") /\ UNCHANGED on
             \/ \E r \in registered : ~Sending(r) /\ GoOn(s, "send", r)
    /\ UNCHANGED <<process, queue, pool, registered>>

WorkerSent(s) ==
    /\ at[s] = "send"
    /\ open' \in {open, open \ {on[s]}}
    /\ \E place \in {Listen(s), "close"} : GoOn(s, place, None)
    /\ UNCHANGED <<process, status, queue, pool, registered>>

\* close_session takes both mutexes.
WorkerClose(s) ==
    /\ at[s] = "close"
    /\ ~InCall(s)
    /\ open' = open \ {s}
    /\ Go(s, "remove")
    /\ UNCHANGED <<process, status, on, queue, pool, registered>>

\* remove_session; deactivate_neighbor writes the status file unless its peer
\* has another session.  Then the finished flag is set.
WorkerRemove(s) ==
    /\ at[s] = "remove"
    /\ registered' = registered \ {s}
    /\ status' = (\/ status
                  \/ /\ s \in registered
                     /\ \A r \in registered' : PeerOf[r] # PeerOf[s])
    /\ Go(s, "ended")
    /\ UNCHANGED <<process, on, queue, pool, open>>

-----------------------------------------------------------------------------
(***************************************************************************)
(* The main thread: daemon_run or run_join                                 *)
(***************************************************************************)

Transition(to) ==
    /\ CanTransition(nodeState, to)
    /\ nodeState' = to

\* The state transition to DISCOVERING, which always can be made here.
Begin ==
    /\ main \in {"start", "startjoin"}
    /\ Transition("DISCOVERING")
    /\ main' = IF main = "start" THEN "runtime" ELSE "runtimejoin"
    /\ UNCHANGED <<stop, running, resources, local, status, at, on, queue,
                   pool, open, registered>>

\* start_runtime: the TLS server, the generation, the interface, the listening
\* socket.  Nobody else runs yet, so it is one step.
StartRuntime ==
    /\ main \in {"runtime", "runtimejoin"}
    /\ server' = "listening"
    /\ tun' = TRUE
    /\ Transition(IF main = "runtime" THEN "ACTIVE" ELSE "JOINING_NETWORK")
    /\ main' = IF main = "runtime" THEN "spawn" ELSE "join"
    /\ UNCHANGED <<stop, running, identity, local, status, at, on, queue,
                   pool, open, registered>>

\* One of them fails and what was opened is closed again, or run_join does not
\* get a session or is not admitted.
StartFails ==
    /\ main \in {"runtime", "runtimejoin", "join"}
    /\ main' = "shutdown"
    /\ UNCHANGED <<flags, resources, local, status, at, on, queue, pool, open,
                   registered>>

\* run_join is admitted (activate_neighbor writes the status file) and keeps the
\* session or, when the lookup or the announcement fails on it, does not.
JoinSucceeds(s) ==
    /\ main = "join"
    /\ NewSession(s)
    /\ \/ open' = open \cup {s} /\ registered' = registered \cup {s}
       \/ UNCHANGED <<open, registered>>
    /\ status' = TRUE
    /\ Transition("ACTIVE")
    /\ main' = "startall"
    /\ UNCHANGED <<stop, running, resources, local, at, on, queue, started,
                   workers, joined>>

\* Mutant: run_join goes on without its session's worker.
StartNone ==
    /\ main = "startall"
    /\ main' = "spawn"
    /\ UNCHANGED <<flags, resources, local, status, at, on, queue, pool, open,
                   registered>>

\* start_all_session_workers
StartAll ==
    /\ main = "startall"
    /\ StartWorkers(registered)
    /\ at' = Launched(at, registered)
    /\ main' = "spawn"
    /\ UNCHANGED <<flags, resources, local, status, on, queue, used, open,
                   registered>>

\* start_accept_worker, start_data_plane_worker, start_routing_worker and
\* start_reconnect_worker, in this order.
Spawn(t) ==
    /\ main = "spawn"
    /\ at[t] = "none"
    /\ t = "data" => at["accept"] # "none"
    /\ t = "routing" => at["data"] # "none"
    /\ t = "reconnect" => at["routing"] # "none"
    /\ Go(t, "top")
    /\ main' = IF t = "reconnect" THEN "report" ELSE "spawn"
    /\ UNCHANGED <<flags, resources, local, status, on, queue, pool, open,
                   registered>>

Report ==
    /\ main = "report"
    /\ status' = TRUE
    /\ main' = "wait"
    /\ UNCHANGED <<flags, resources, local, at, on, queue, pool, open,
                   registered>>

\* wait_for_shutdown
StopWaiting ==
    /\ main = "wait"
    /\ ~MayRun
    /\ nodeState' = IF nodeState = "ACTIVE" THEN "LEAVING" ELSE nodeState
    /\ main' = "shutdown"
    /\ UNCHANGED <<stop, running, resources, local, status, at, on, queue,
                   pool, open, registered>>

-----------------------------------------------------------------------------
(***************************************************************************)
(* app_shutdown.  The loops are joined in the order accept, reconnect,     *)
(* data plane, routing; main is the name of the one to be joined next.     *)
(***************************************************************************)

BeginShutdown ==
    /\ main = "shutdown"
    /\ running' = FALSE
    /\ server' = "closed"
    /\ main' = "accept"
    /\ UNCHANGED <<stop, nodeState, tun, identity, local, status, at, on,
                   queue, pool, open, registered>>

NextToJoin(t) ==
    CASE t = "accept" -> "reconnect"
      [] t = "reconnect" -> "data"
      [] t = "data" -> "routing"
      [] t = "routing" -> "swap"

\* A thread that was never started is not joinable.
JoinLoop(t) ==
    /\ main = t
    /\ at[t] \in {"none", "ended"}
    /\ joined' = joined \cup {u \in {t} : at[u] = "ended"}
    /\ main' = NextToJoin(t)
    /\ UNCHANGED <<flags, resources, local, status, at, on, queue, used,
                   started, workers, open, registered>>

SwapWorkers ==
    /\ main = "swap"
    /\ joining' = workers
    /\ workers' = {}
    /\ closing' = registered
    /\ main' = "close"
    /\ UNCHANGED <<flags, resources, status, at, on, queue, used, started,
                   joined, open, registered>>

\* A session is closed under both of its mutexes.
CloseSession(s) ==
    /\ main = "close"
    /\ s \in closing
    /\ ~InCall(s)
    /\ open' = open \ {s}
    /\ closing' = closing \ {s}
    /\ UNCHANGED <<flags, main, resources, joining, status, at, on, queue,
                   pool, registered>>

AllClosed ==
    /\ main = "close"
    /\ closing = {}
    /\ main' = "joinworkers"
    /\ UNCHANGED <<flags, resources, local, status, at, on, queue, pool, open,
                   registered>>

JoinWorker(s) ==
    /\ main \in {"joinworkers", "joinrest"}
    /\ s \in joining
    /\ at[s] = "ended"
    /\ joined' = joined \cup {s}
    /\ joining' = joining \ {s}
    /\ UNCHANGED <<flags, main, resources, closing, status, at, on, queue,
                   used, started, workers, open, registered>>

\* Mutant: the workers are left to themselves.
ClearWithoutJoin ==
    /\ main = "joinworkers"
    /\ joining' = {}
    /\ workers' = {}
    /\ registered' = {}
    /\ main' = "joinrest"
    /\ UNCHANGED <<flags, resources, closing, status, at, on, queue, used,
                   started, joined, open>>

\* workers are swapped out once more and app.sessions is cleared.
ClearSessions ==
    /\ main = "joinworkers"
    /\ joining = {}
    /\ joining' = workers
    /\ workers' = {}
    /\ registered' = {}
    /\ main' = "joinrest"
    /\ UNCHANGED <<flags, resources, closing, status, at, on, queue, used,
                   started, joined, open>>

\* vnet_shutdown, identity_close, and the status file is removed.
Release ==
    /\ main = "joinrest"
    /\ joining = {}
    /\ tun' = FALSE
    /\ identity' = FALSE
    /\ status' = FALSE
    /\ main' = "exited"
    /\ UNCHANGED <<flags, server, local, at, on, queue, pool, open,
                   registered>>

Exited == main = "exited" /\ UNCHANGED vars

-----------------------------------------------------------------------------

Accept ==
    \/ AcceptTop \/ AcceptNothing \/ AcceptHandshake
    \/ StartSessionWorker("accept")

Reconnect ==
    \/ ReconnectTop \/ ReconnectDone \/ ReconnectRegister \/ ReconnectActivate
    \/ StartSessionWorker("reconnect")

DataPlane == LoopTop("data") \/ ReadPacket \/ LoopSent("data")

Routing ==
    \/ LoopTop("routing") \/ RoutingPass \/ RoutingSend \/ RoutingDone
    \/ LoopSent("routing")

Worker(s) ==
    \/ WorkerTop(s) \/ WorkerReceive(s) \/ WorkerSent(s)
    \/ WorkerClose(s) \/ WorkerRemove(s)

Main ==
    \/ Begin \/ StartRuntime \/ StartFails \/ StartAll
    \/ \E s \in Sessions : JoinSucceeds(s)
    \/ \E t \in Loops : Spawn(t)
    \/ Report \/ StopWaiting \/ BeginShutdown
    \/ \E t \in Loops : JoinLoop(t)
    \/ SwapWorkers
    \/ \E s \in Sessions : CloseSession(s) \/ JoinWorker(s)
    \/ AllClosed \/ ClearSessions \/ Release

\* A new connection, made by the accept or the reconnect loop.
Connect(s) == AcceptConnection(s) \/ ReconnectDial(s)

Next ==
    \/ RequestStop
    \/ Main
    \/ Accept \/ Reconnect \/ DataPlane \/ Routing
    \/ \E s \in Sessions : Connect(s)
    \/ \E s \in Sessions : Worker(s)
    \/ Exited

(***************************************************************************)
(* Every thread goes on: reads, sends, handshakes and connects return      *)
(* because of their timeouts.  Signals and connections need not come.      *)
(***************************************************************************)
Fairness ==
    /\ WF_vars(Main)
    /\ WF_vars(Accept) /\ WF_vars(Reconnect)
    /\ WF_vars(DataPlane) /\ WF_vars(Routing)
    /\ \A s \in Sessions : WF_vars(Worker(s))

Spec == Init /\ [][Next]_vars /\ Fairness

-----------------------------------------------------------------------------
(***************************************************************************)
(* Properties                                                              *)
(***************************************************************************)

LoopPlaces == {"none", "top", "poll", "handshake", "start", "dial", "opened",
               "activate", "work", "next", "send", "ended"}
WorkerPlaces == {"none", "top", "receive", "send", "close", "remove",
                 "ended"}
MainPlaces == {"start", "startjoin", "runtime", "runtimejoin", "join",
               "startall", "spawn", "report", "wait", "shutdown", "swap",
               "close", "joinworkers", "joinrest", "exited"} \cup Loops

\* The variables have their types.
TypeOK ==
    /\ stop \in BOOLEAN /\ running \in BOOLEAN
    /\ nodeState \in {"CREATED", "DISCOVERING", "JOINING_NETWORK", "ACTIVE",
                      "LEAVING"}
    /\ main \in MainPlaces
    /\ server \in {"closed", "listening"}
    /\ tun \in BOOLEAN /\ identity \in BOOLEAN /\ status \in BOOLEAN
    /\ at \in [Threads -> LoopPlaces \cup WorkerPlaces]
    /\ on \in [Threads -> Sessions \cup {None}]
    /\ queue \in SUBSET Sessions
    /\ used \in SUBSET Sessions /\ open \in SUBSET Sessions
    /\ registered \in SUBSET Sessions /\ started \in SUBSET Sessions
    /\ workers \in SUBSET Sessions /\ closing \in SUBSET Sessions
    /\ joining \in SUBSET Sessions /\ joined \in SUBSET Threads

Alive(t) == at[t] \notin {"none", "ended"}

\* While a thread runs, the virtual interface and the identity it uses at any
\* time are there: app_shutdown releases them when the last one has ended.
NothingReleasedInUse == \A t \in Threads : Alive(t) => tun /\ identity

\* Every session that is open or registered is in the hands of somebody who will
\* close it: its worker, the loop that made the connection and has not started
\* the worker yet, or the main thread.  (Otherwise nobody would ever receive on
\* it, and its peer could not connect again.)
SessionsOwned ==
    \A s \in open \cup registered :
        \/ Alive(s)
        \/ \E t \in {"accept", "reconnect"} : Alive(t) /\ on[t] = s
        \/ main = "startall"

\* When the program ends every thread it started has been joined (a std::thread
\* that has not been ends the process in its destructor), no session is open,
\* the server, the interface and the lock file are released, and the status file
\* is gone although threads write it up to their end.
CleanExit ==
    main = "exited" =>
        /\ \A t \in Threads : at[t] = "none" \/ t \in joined
        /\ open = {} /\ registered = {}
        /\ server = "closed" /\ ~tun /\ ~identity /\ ~status

\* A requested stop leads to the end of the program, whatever the threads do at
\* that moment and even while the daemon is starting or joining.
StopLeadsToExit == stop ~> main = "exited"
=============================================================================
