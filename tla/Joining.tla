------------------------------ MODULE Joining -------------------------------
(***************************************************************************)
(* Two daemons become neighbors and stay it: a node joins with an          *)
(* invitation (run_join), looks itself up (kademlia_self_lookup), announces*)
(* itself and becomes active; when their session is lost, the one with the *)
(* lower id dials again (reconnect_step).  At the other end, and at both   *)
(* when the node is active, a session has a worker (run_session).          *)
(*                                                                         *)
(* The joining node's exchanges take the next message for the answer, and  *)
(* the other end's routing loop sends on the same session, so a HELLO that *)
(* comes first costs the session.  HELLO stands for every message that     *)
(* routing_loop or the data plane sends.                                   *)
(***************************************************************************)
EXTENDS Kademlia, Sequences

CONSTANTS
    Pairs,      \* the ids of the two nodes: functions from Nodes
    Others,     \* contacts the inviter may know
    Alpha,      \* contacts queried in a round of the lookup
    MaxRounds,  \* max_rounds of the lookup
    Conns,      \* bound: connections at a time
    MaxChatter, \* bound: HELLO and FIND_NODE messages nobody asked for
    MaxFaults,  \* bound: timeouts and failures
    None        \* no connection

Nodes == {"joiner", "inviter"}
Ends == Nodes \X Conns
Other(n) == CHOOSE m \in Nodes : m # n
Far(e) == <<Other(e[1]), e[2]>>

\* The lookup has rounds enough for a full answer (10 * 3 >= 20).
ASSUME JoiningAssumption ==
    /\ Alpha \in Nat /\ MaxRounds \in Nat /\ Alpha * MaxRounds >= K
    /\ \A p \in Pairs : p \in [Nodes -> Ids] /\ p["joiner"] # p["inviter"]
    /\ Others \subseteq Ids
    /\ None \notin Conns
    /\ MaxChatter \in Nat /\ MaxFaults \in Nat

VARIABLES
    id,         \* the ids of the two nodes
    phase,      \* where run_join is
    trusts,     \* trusts[n]: the other node is in n's trust table
    peer,       \* peer[n]: the other node in n's topology
    on,         \* on[n]: the connection run_join or reconnect_step works on
    open,       \* ends whose transport is open
    registered, \* ends in app.sessions
    trusted,    \* ends with session->trusted
    at,         \* where the worker of an end is
    handling,   \* the type of the message it handles
    inbox,      \* messages on their way to an end
    table,      \* app.kademlia_table
    told,       \* the contacts of the JOIN_RESPONSE
    queried,    \* contacts the lookup has queried
    round,      \* its rounds so far
    chatter,    \* messages nobody asked for, so far
    faults      \* timeouts and failures so far

local == <<on, phase, told, queried, round>>
sessions == <<open, registered, trusted>>
worker == <<at, handling>>
bounds == <<chatter, faults>>
vars == <<id, local, trusts, peer, sessions, worker, inbox, table, bounds>>

Message(type) == [type |-> type, token |-> FALSE, accepted |-> FALSE, peers |-> {}]
Request(token) == [Message("JOIN_REQUEST") EXCEPT !.token = token]
Rejection == Message("JOIN_RESPONSE")
Response(peers) == [Rejection EXCEPT !.accepted = TRUE, !.peers = peers]
Neighbors(peers) == [Message("NEIGHBORS") EXCEPT !.peers = peers]

Init ==
    /\ id \in Pairs
    /\ phase = "connect"
    /\ trusts = [n \in Nodes |-> FALSE]
    /\ peer = [n \in Nodes |-> "unknown"]
    /\ on = [n \in Nodes |-> None]
    /\ open = {} /\ registered = {} /\ trusted = {}
    /\ at = [e \in Ends |-> "none"]
    /\ handling = [e \in Ends |-> "none"]
    /\ inbox = [e \in Ends |-> <<>>]
    /\ table = [n \in Nodes |-> {}]
    /\ told = {} /\ queried = {} /\ round = 0
    /\ chatter = 0 /\ faults = 0

\* The accept, routing and reconnect loops run.
Running(n) == n = "inviter" \/ phase = "active"

\* A message sent from an end, in the mailboxes that are left after a receive.
Sent(boxes, e, m) ==
    [boxes EXCEPT ![Far(e)] = IF Far(e) \in open THEN Append(@, m) ELSE @]
Received(e) == [inbox EXCEPT ![e] = Tail(@)]
Closed(e) == [inbox EXCEPT ![e] = <<>>]

\* A call on an end fails: the other end is closed, or it is a fault.
Fails(e) ==
    \/ Far(e) \notin open /\ UNCHANGED bounds
    \/ /\ faults < MaxFaults
       /\ faults' = faults + 1
       /\ UNCHANGED chatter

\* The inviter hears of other nodes from its other sessions.
Learn(c) ==
    /\ c \notin table["inviter"] \cup {id[n] : n \in Nodes}
    /\ table' = [table EXCEPT !["inviter"] = Insert(@, id["inviter"], c)]
    /\ UNCHANGED <<id, local, trusts, peer, sessions, worker, inbox, bounds>>

-----------------------------------------------------------------------------
(***************************************************************************)
(* Sessions                                                                *)
(***************************************************************************)

\* register_session refuses a second open session with a peer.
CanRegister(n) == \A c \in Conns : <<n, c>> \notin registered \cap open

\* Connections have no names; a new one takes any that is left.
FreeConns == {c \in Conns : \A n \in Nodes :
                 <<n, c>> \notin open \cup registered /\ at[<<n, c>>] = "none"}

\* transport_connect_tls, the other end's accept_loop, which registers the
\* session and starts its worker or closes it, and the JOIN_REQUEST.
Connect(n, c, token) ==
    LET far == <<Other(n), c>> IN
    /\ on[n] = None
    /\ FreeConns # {} /\ c = CHOOSE d \in FreeConns : TRUE
    /\ on' = [on EXCEPT ![n] = c]
    /\ IF CanRegister(Other(n))
       THEN /\ open' = open \cup {<<n, c>>, far}
            /\ registered' = registered \cup {far}
            /\ at' = [at EXCEPT ![far] = "receive"]
            /\ inbox' = [inbox EXCEPT ![far] = <<Request(token)>>]
       ELSE /\ open' = open \cup {<<n, c>>}
            /\ UNCHANGED <<registered, at, inbox>>
    /\ UNCHANGED <<id, trusts, peer, trusted, handling, table, chatter>>

\* What remove_session makes of the peer, with the sessions that are left:
\* deactivate_neighbor leaves it as it is when there is another one.
Removed(n, rest) ==
    IF peer[n] = "unknown" \/ \E c \in Conns : <<n, c>> \in rest THEN peer
    ELSE [peer EXCEPT ![n] = "disconnected"]

\* Mutant: the session is removed and its transport left open.
DropOnly(e) ==
    /\ registered' = registered \ {e}
    /\ trusted' = trusted \ {e}
    /\ peer' = Removed(e[1], registered')
    /\ UNCHANGED <<open, inbox>>

\* remove_session and close_session.
Drop(e) ==
    /\ registered' = registered \ {e}
    /\ trusted' = trusted \ {e}
    /\ peer' = Removed(e[1], registered')
    /\ open' = open \ {e}
    /\ inbox' = Closed(e)

-----------------------------------------------------------------------------
(***************************************************************************)
(* run_join                                                                *)
(***************************************************************************)

Mine == <<"joiner", on["joiner"]>>

Join(c) ==
    /\ phase = "connect"
    /\ Connect("joiner", c, TRUE)
    /\ phase' = "response"
    /\ UNCHANGED <<told, queried, round, faults>>

\* No connection, no answer or not the right one, a rejection, or the state
\* cannot be saved: the session is closed and the program ends.
JoinFails ==
    /\ phase \in {"connect", "response"}
    /\ \/ phase = "response" /\ Fails(Mine)
       \/ /\ phase = "response"
          /\ inbox[Mine] # <<>> /\ ~Head(inbox[Mine]).accepted
          /\ UNCHANGED bounds
       \/ /\ phase = "connect"
          /\ faults < MaxFaults /\ faults' = faults + 1
          /\ UNCHANGED chatter
    /\ phase' = "failed"
    /\ open' = open \ {Mine}
    /\ inbox' = IF phase = "response" THEN Closed(Mine) ELSE inbox
    /\ on' = [on EXCEPT !["joiner"] = None]
    /\ UNCHANGED <<id, told, queried, round, trusts, peer, registered, trusted,
                   worker, table>>

\* handle_join_response: the inviter first, then the contacts of its answer.
HandleJoinResponse(t, m) ==
    InsertAll(Insert(t, id["joiner"], id["inviter"]), id["joiner"], m.peers)

\* An accepting JOIN_RESPONSE: the inviter is trusted, its session registered,
\* the inviter activated, and the table filled.
JoinAccepted ==
    LET m == Head(inbox[Mine]) IN
    /\ phase = "response"
    /\ inbox[Mine] # <<>> /\ m.accepted
    /\ trusts' = [trusts EXCEPT !["joiner"] = TRUE]
    /\ registered' = registered \cup {Mine}
    /\ trusted' = trusted \cup {Mine}
    /\ peer' = [peer EXCEPT !["joiner"] = "connected"]
    /\ table' = [table EXCEPT !["joiner"] = HandleJoinResponse(@, m)]
    /\ told' = ({id["inviter"]} \cup m.peers) \ {id["joiner"]}
    /\ inbox' = Received(Mine)
    /\ phase' = "lookup"
    /\ UNCHANGED <<id, on, queried, round, open, worker, bounds>>

\* A round of kademlia_self_lookup.  query_peer answers nothing for a contact
\* that is not trusted, and only the inviter is; the inviter has the session
\* of the join, because it is queried once.
ToQuery ==
    LET candidates == FindClosest(table["joiner"], id["joiner"], K)
    IN  Closest(candidates \ queried, id["joiner"], Alpha)

LookupRound ==
    /\ phase = "lookup"
    /\ round < MaxRounds /\ ToQuery # {}
    /\ queried' = queried \cup ToQuery
    /\ round' = round + 1
    /\ IF id["inviter"] \in ToQuery
       THEN /\ inbox' = Sent(inbox, Mine, Message("FIND_NODE"))
            /\ phase' = "neighbors"
       ELSE UNCHANGED <<inbox, phase>>
    /\ UNCHANGED <<id, on, told, trusts, peer, sessions, worker, table, bounds>>

\* What the exchange awaits is the next message; anything else, or nothing,
\* costs the session.
Awaited(type) == inbox[Mine] # <<>> /\ Head(inbox[Mine]).type = type
Unexpected(type) ==
    \/ inbox[Mine] # <<>> /\ Head(inbox[Mine]).type # type /\ UNCHANGED bounds
    \/ Fails(Mine)

QueryAnswered ==
    /\ phase = "neighbors"
    /\ Awaited("NEIGHBORS")
    /\ table' = [table EXCEPT !["joiner"] =
                    InsertAll(@, id["joiner"], Head(inbox[Mine]).peers)]
    /\ inbox' = Received(Mine)
    /\ phase' = "lookup"
    /\ UNCHANGED <<id, on, told, queried, round, trusts, peer, sessions, worker,
                   bounds>>

QueryFails ==
    /\ phase = "neighbors"
    /\ Unexpected("NEIGHBORS")
    /\ Drop(Mine)
    /\ phase' = "lookup"
    /\ UNCHANGED <<id, on, told, queried, round, trusts, worker, table>>

LookupDone ==
    /\ phase = "lookup"
    /\ round = MaxRounds \/ ToQuery = {}
    /\ phase' = "announce"
    /\ UNCHANGED <<id, on, told, queried, round, trusts, peer, sessions, worker,
                   inbox, table, bounds>>

\* announce_to_peer for the closest contacts that have a session.
Announces ==
    /\ id["inviter"] \in FindClosest(table["joiner"], id["joiner"], K)
    /\ Mine \in registered

Announce ==
    /\ phase = "announce"
    /\ IF Announces
       THEN /\ inbox' = Sent(inbox, Mine, Message("NODE_ANNOUNCE"))
            /\ phase' = "ack"
       ELSE UNCHANGED inbox /\ phase' = "start"
    /\ UNCHANGED <<id, on, told, queried, round, trusts, peer, sessions, worker,
                   table, bounds>>

Announced ==
    /\ phase = "ack"
    /\ Awaited("NODE_ANNOUNCE_ACK")
    /\ inbox' = Received(Mine)
    /\ phase' = "start"
    /\ UNCHANGED <<id, on, told, queried, round, trusts, peer, sessions, worker,
                   table, bounds>>

AnnounceFails ==
    /\ phase = "ack"
    /\ Unexpected("NODE_ANNOUNCE_ACK")
    /\ Drop(Mine)
    /\ phase' = "start"
    /\ UNCHANGED <<id, on, told, queried, round, trusts, worker, table>>

\* start_all_session_workers and the loops.
Activate ==
    /\ phase = "start"
    /\ phase' = "active"
    /\ at' = IF Mine \in registered THEN [at EXCEPT ![Mine] = "receive"] ELSE at
    /\ on' = [on EXCEPT !["joiner"] = None]
    /\ UNCHANGED <<id, told, queried, round, trusts, peer, sessions, handling,
                   inbox, table, bounds>>

-----------------------------------------------------------------------------
(***************************************************************************)
(* reconnect_step                                                          *)
(***************************************************************************)

Dialling(n) == Running(n) /\ on[n] # None

\* The node with the lower id dials a trusted peer it has no open session with.
\* A peer that is not running does not answer.  reconnect_loop pauses for half a
\* second or more between two passes, in which a session that was closed is also
\* removed; that it still is not is one of the faults.
Redial(n, c) ==
    /\ Running(n) /\ Running(Other(n))
    /\ trusts[n]
    /\ Below(id[n], id[Other(n)])
    /\ CanRegister(n)
    /\ Connect(n, c, FALSE)
    /\ faults' = faults + IF \E e \in Ends : at[e] = "remove" THEN 1 ELSE 0
    /\ faults' <= MaxFaults
    /\ UNCHANGED <<phase, told, queried, round>>

\* The peer accepts: the session is registered, the peer activated and the
\* worker started.
RedialAccepted(n) ==
    LET e == <<n, on[n]>> IN
    /\ Dialling(n)
    /\ inbox[e] # <<>> /\ Head(inbox[e]).accepted
    /\ CanRegister(n)
    /\ inbox' = Received(e)
    /\ registered' = registered \cup {e}
    /\ trusted' = trusted \cup {e}
    /\ peer' = [peer EXCEPT ![n] = "connected"]
    /\ at' = [at EXCEPT ![e] = "receive"]
    /\ on' = [on EXCEPT ![n] = None]
    /\ UNCHANGED <<id, phase, told, queried, round, trusts, open, handling,
                   table, bounds>>

RedialFails(n) ==
    LET e == <<n, on[n]>> IN
    /\ Dialling(n)
    /\ \/ Fails(e)
       \/ /\ inbox[e] # <<>>
          /\ ~Head(inbox[e]).accepted \/ ~CanRegister(n)
          /\ UNCHANGED bounds
    /\ open' = open \ {e}
    /\ inbox' = Closed(e)
    /\ on' = [on EXCEPT ![n] = None]
    /\ UNCHANGED <<id, phase, told, queried, round, trusts, peer, registered,
                   trusted, worker, table>>

-----------------------------------------------------------------------------
(***************************************************************************)
(* run_session                                                             *)
(***************************************************************************)

Goes(e, place) == at' = [at EXCEPT ![e] = place] /\ UNCHANGED handling

\* touch_neighbor: a peer in the topology is Connected, before the answer.
Touched(n) ==
    IF peer[n] = "unknown" THEN peer ELSE [peer EXCEPT ![n] = "connected"]

\* A JOIN_REQUEST of a trusted peer, or with a ticket that is good.
WorkerAdmits(e) ==
    LET n == e[1] IN
    /\ at[e] = "receive" /\ inbox[e] # <<>>
    /\ Head(inbox[e]).type = "JOIN_REQUEST"
    /\ Head(inbox[e]).token \/ trusts[n]
    /\ trusts' = [trusts EXCEPT ![n] = TRUE]
    /\ trusted' = trusted \cup {e}
    /\ peer' = Touched(n)
    /\ inbox' = Received(e)
    /\ at' = [at EXCEPT ![e] = "reply"]
    /\ handling' = [handling EXCEPT ![e] = "JOIN_REQUEST"]
    /\ UNCHANGED <<id, local, open, registered, table, bounds>>

\* The ticket is not good, the peer not trusted, or it cannot be saved.
WorkerRejects(e) ==
    /\ at[e] = "receive" /\ inbox[e] # <<>>
    /\ Head(inbox[e]).type = "JOIN_REQUEST"
    /\ \/ (Head(inbox[e]).token \/ ~trusts[e[1]]) /\ UNCHANGED bounds
       \/ faults < MaxFaults /\ faults' = faults + 1 /\ UNCHANGED chatter
    /\ inbox' = Sent(Received(e), e, Rejection)
    /\ Goes(e, "close")
    /\ UNCHANGED <<id, local, trusts, peer, sessions, table>>

\* Other messages.  On an end that is not trusted yet they would end the session,
\* but nothing can come before the JOIN_REQUEST of the node that dialled.
WorkerReceives(e) ==
    LET n == e[1]
        m == Head(inbox[e])
        asks == m.type \in {"FIND_NODE", "NODE_ANNOUNCE"}
    IN
    /\ at[e] = "receive" /\ inbox[e] # <<>>
    /\ e \in trusted /\ m.type # "JOIN_REQUEST"
    /\ peer' = Touched(n)
    /\ inbox' = Received(e)
    /\ table' = IF m.type = "NEIGHBORS"
                THEN [table EXCEPT ![n] = InsertAll(@, id[n], m.peers)]
                ELSE table
    /\ at' = IF asks THEN [at EXCEPT ![e] = "reply"] ELSE at
    /\ handling' = IF asks THEN [handling EXCEPT ![e] = m.type] ELSE handling
    /\ UNCHANGED <<id, local, trusts, sessions, bounds>>

\* process_join_request and handle_node_announce insert the node that sent the
\* message; handle_find_node does not.
KnownAfter(n, asked) ==
    IF asked = "FIND_NODE" THEN table[n]
    ELSE Insert(table[n], id[n], id[Other(n)])

\* dispatch_join_protocol_message, under kademlia_mutex, and the answer.
WorkerReplies(e) ==
    LET n == e[1]
        asked == handling[e]
        known == KnownAfter(n, asked)
        closest == FindClosest(known, id[Other(n)], K)
        answer == CASE asked = "JOIN_REQUEST" -> Response(closest)
                    [] asked = "FIND_NODE" -> Neighbors(closest)
                    [] asked = "NODE_ANNOUNCE" -> Message("NODE_ANNOUNCE_ACK")
    IN
    /\ at[e] = "reply"
    /\ table' = [table EXCEPT ![n] = known]
    /\ inbox' = Sent(inbox, e, answer)
    /\ at' = [at EXCEPT ![e] = IF asked = "FIND_NODE" THEN "receive" ELSE "bind"]
    /\ handling' = [handling EXCEPT ![e] = "none"]
    /\ UNCHANGED <<id, local, trusts, peer, sessions, bounds>>

\* bind_session refuses while the peer has another session, open or not.
WorkerBinds(e) ==
    LET n == e[1] IN
    /\ at[e] = "bind"
    /\ IF \E c \in Conns \ {e[2]} : <<n, c>> \in registered
       THEN Goes(e, "close") /\ UNCHANGED peer
       ELSE Goes(e, "receive") /\ peer' = [peer EXCEPT ![n] = "connected"]
    /\ UNCHANGED <<id, local, trusts, sessions, inbox, table, bounds>>

\* The end of the session: closed by the other end, a time limit or a limit of
\* messages, a send that fails.
WorkerEnds(e) ==
    /\ at[e] \in {"receive", "reply"}
    /\ Fails(e)
    /\ Goes(e, "close")
    /\ UNCHANGED <<id, local, trusts, peer, sessions, inbox, table>>

\* close_session
WorkerCloses(e) ==
    /\ at[e] = "close"
    /\ open' = open \ {e}
    /\ inbox' = Closed(e)
    /\ Goes(e, "remove")
    /\ UNCHANGED <<id, local, trusts, peer, registered, trusted, table, bounds>>

\* remove_session
WorkerRemoves(e) ==
    /\ at[e] = "remove"
    /\ registered' = registered \ {e}
    /\ trusted' = trusted \ {e}
    /\ peer' = Removed(e[1], registered')
    /\ at' = [at EXCEPT ![e] = "none"]
    /\ handling' = [handling EXCEPT ![e] = "none"]
    /\ UNCHANGED <<id, local, trusts, open, inbox, table, bounds>>

Chats(e, type) ==
    /\ chatter < MaxChatter
    /\ chatter' = chatter + 1
    /\ inbox' = Sent(inbox, e, Message(type))
    /\ UNCHANGED <<id, local, trusts, peer, sessions, worker, table, faults>>

\* A worker refreshes the contacts.
WorkerRefreshes(e) ==
    /\ at[e] = "receive" /\ e \in trusted
    /\ Chats(e, "FIND_NODE")

\* routing_loop sends on the open sessions of peers that are Connected.
RoutingSends(e) ==
    /\ e \in registered \cap open
    /\ Running(e[1]) /\ peer[e[1]] = "connected"
    /\ Chats(e, "HELLO")

-----------------------------------------------------------------------------

RunJoin ==
    \/ \E c \in Conns : Join(c)
    \/ JoinFails \/ JoinAccepted
    \/ LookupRound \/ QueryAnswered \/ QueryFails \/ LookupDone
    \/ Announce \/ Announced \/ AnnounceFails \/ Activate

Reconnect(n) ==
    \/ \E c \in Conns : Redial(n, c)
    \/ RedialAccepted(n) \/ RedialFails(n)

Worker(e) ==
    \/ WorkerAdmits(e) \/ WorkerRejects(e)
    \/ WorkerReceives(e) \/ WorkerReplies(e) \/ WorkerBinds(e)
    \/ WorkerEnds(e) \/ WorkerCloses(e) \/ WorkerRemoves(e)

Next ==
    \/ RunJoin
    \/ \E n \in Nodes : Reconnect(n)
    \/ \E e \in Ends : Worker(e) \/ WorkerRefreshes(e) \/ RoutingSends(e)
    \/ \E c \in Others : Learn(c)

(***************************************************************************)
(* Every thread goes on, as its reads and writes have time limits.         *)
(***************************************************************************)
Fairness ==
    /\ WF_vars(RunJoin)
    /\ \A n \in Nodes : WF_vars(Reconnect(n))
    /\ \A e \in Ends : WF_vars(Worker(e))

Spec == Init /\ [][Next]_vars /\ Fairness

-----------------------------------------------------------------------------
(***************************************************************************)
(* Properties                                                              *)
(***************************************************************************)

Phases == {"connect", "response", "lookup", "neighbors", "announce", "ack",
           "start", "active", "failed"}
Types == {"JOIN_REQUEST", "JOIN_RESPONSE", "FIND_NODE", "NEIGHBORS",
          "NODE_ANNOUNCE", "NODE_ANNOUNCE_ACK", "HELLO"}
Messages == [type : Types, token : BOOLEAN, accepted : BOOLEAN, peers : SUBSET Ids]

\* The variables have their types; in every table the buckets keep their limit
\* and no node is its own contact (kademlia_insert).
TypeOK ==
    /\ id \in Pairs
    /\ phase \in Phases
    /\ trusts \in [Nodes -> BOOLEAN]
    /\ peer \in [Nodes -> {"unknown", "disconnected", "connected"}]
    /\ on \in [Nodes -> Conns \cup {None}]
    /\ open \subseteq Ends /\ registered \subseteq Ends /\ trusted \subseteq Ends
    /\ at \in [Ends -> {"none", "receive", "reply", "bind", "close", "remove"}]
    /\ handling \in [Ends -> Types \cup {"none"}]
    /\ inbox \in [Ends -> Seq(Messages)]
    /\ table \in [Nodes -> SUBSET Ids]
    /\ \A n \in Nodes : WellFormed(table[n], id[n])
    /\ told \subseteq Ids /\ queried \subseteq Ids /\ round \in 0 .. MaxRounds
    /\ chatter \in 0 .. MaxChatter /\ faults \in 0 .. MaxFaults

\* What a node that has joined can rely on: it and the inviter trust each other,
\* every contact of the JOIN_RESPONSE found room in its buckets (the answer may
\* be K contacts, the inviter comes on top), and the lookup has asked the inviter
\* although it stops after max_rounds.  Only when K contacts of the answer are
\* nearer does the lookup, which nobody else answers, leave the inviter out.
JoinComplete ==
    /\ told \subseteq table["joiner"]
    /\ phase = "active" =>
          /\ \A n \in Nodes : trusts[n]
          /\ Cardinality(Nearer(told, id["joiner"], id["inviter"])) < K =>
                 id["inviter"] \in queried

\* The two nodes are neighbors: one session, registered and open at both ends,
\* and Connected in both topologies.
Neighboring ==
    /\ \E c \in Conns : \A n \in Nodes : <<n, c>> \in open \cap registered
    /\ \A n \in Nodes : peer[n] = "connected"

\* When the faults and the messages that overtake an answer have ended, the two
\* nodes agree for good: the join has failed and no session is left, or both
\* have the other as a connected neighbor, on whatever connection, although the
\* session may have been lost at either end during or after the join.
PairSettles ==
    <>[](IF phase = "failed" THEN open = {} /\ registered = {}
         ELSE phase = "active" /\ Neighboring)
=============================================================================
