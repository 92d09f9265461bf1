------------------------------- MODULE LiveBoard -------------------------------
(***************************************************************************)
(* The live board: the page that shows a game (web/app.js), its            *)
(* subscription socket (web/graphql.js), the gateway's mutations and the   *)
(* gameUpdated subscription (services/gateway/graph), and the bus between  *)
(* them (services/gateway/internal/pubsub).                                *)
(*                                                                         *)
(* A game is the number of moves the game-service has stored; a snapshot   *)
(* of it is that number when it was read.  The page opens games and moves  *)
(* in them, and an opponent moves too.  Only the page's newest socket is   *)
(* modelled: of one that was closed for a newer one nothing remains but    *)
(* its onclose event.  Seats, clocks, legal moves and drawing are left     *)
(* out, and so is Subscriber.close, which only the queue's socket uses.    *)
(***************************************************************************)
EXTENDS Sequences, FiniteSets, Naturals

CONSTANTS
    Games, First,   \* the games, and the one in the page's address
    None,
    Buffer,         \* subscriberBuffer
    MaxFrames,      \* frames that may be under way to the page
    MaxInFlight,    \* HTTP requests at a time
    MaxMoves, MaxOpens, MaxDrops, MaxFaults

ASSUME LiveBoardAssumption ==
    /\ First \in Games
    /\ Buffer \in Nat \ {0} /\ MaxFrames \in Nat \ {0}
    /\ MaxInFlight \in Nat \ {0}
    /\ MaxOpens \in Nat \ {0}
    /\ {MaxMoves, MaxDrops, MaxFaults} \subseteq Nat

Requests == 1..MaxInFlight

VARIABLES
    stored,     \* for each game, the moves stored
    request,    \* the HTTP requests under way, the page's and the opponent's
    opens, moved,   \* how many games were opened and moves made
    \* The page.
    shown,      \* the snapshot on the board, and how it came there
    \* Its Subscriber.
    active,     \* the subscription wanted: its id and its game
    nextId,
    socket,     \* "none", "connecting", "open", "lost" or "closed"
    acked,      \* connection_ack has come
    timer,      \* a reconnection is scheduled
    replaced,   \* sockets closed for a newer one, their onclose still to come
    \* The newest socket and the gateway behind it.
    up, down,   \* frames from and to the page
    subs,       \* the subscriptions it serves, by id
    \* What has gone wrong, and the history that the properties speak of.
    drops, faults,
    lastPublished,  \* for each game, the snapshot published last
    missed,     \* the newest update for the page was dropped at its full buffer
    refused,    \* the subscription wanted was answered by an error
    everReplaced

page == <<shown, request, opens, moved>>
subscriber == <<active, nextId, socket, acked, timer, replaced, everReplaced>>
gateway == <<up, down, subs>>
history == <<lastPublished, missed, refused>>
boardVars == <<stored, page, subscriber, gateway, drops, faults, history>>

NoRequest == [at |-> "none", game |-> None, moves |-> 0, mine |-> FALSE]
NoSub == [id |-> 0, game |-> None]
NoServed == [game |-> None, at |-> "none", current |-> 0, buf |-> <<>>]
NoSubs == [i \in 1..MaxOpens |-> NoServed]

Snapshot(g, n, from) == [game |-> g, moves |-> n, from |-> from]

BoardInit ==
    /\ stored = [g \in Games |-> 0]
    /\ request = [r \in Requests |->
                    IF r = 1 THEN [NoRequest EXCEPT !.at = "opening", !.game = First,
                                                    !.mine = TRUE]
                    ELSE NoRequest]
    /\ opens = 1 /\ moved = 0
    /\ shown = Snapshot(None, 0, "none")
    /\ active = NoSub
    /\ nextId = 1
    /\ socket = "none"
    /\ acked = FALSE /\ timer = FALSE /\ replaced = 0 /\ everReplaced = FALSE
    /\ up = <<>> /\ down = <<>> /\ subs = NoSubs
    /\ drops = 0 /\ faults = 0
    /\ lastPublished = [g \in Games |-> 0]
    /\ missed = FALSE /\ refused = FALSE

(***************************************************************************)
(* The Subscriber.                                                         *)
(***************************************************************************)

Frame(type, id, g, n) == [type |-> type, id |-> id, game |-> g, moves |-> n]
Start(sub) == Frame("subscribe", sub.id, sub.game, 0)

\* #connect: a socket that is there is closed for the new one, and its onclose
\* event is still to come unless it has been closed already.
ConnectSocket ==
    LET closes == socket \in {"connecting", "open", "lost"}
    IN /\ replaced' = IF closes THEN replaced + 1 ELSE replaced
       /\ everReplaced' = (everReplaced \/ closes)
       /\ socket' = "connecting"
       /\ acked' = FALSE
       /\ up' = <<>> /\ down' = <<>> /\ subs' = NoSubs

\* subscribe: the old subscription is completed and the new one is started, at
\* once on a socket that is acknowledged, else when the new one is.
SubscribeGame(g) ==
    LET new == [id |-> nextId, game |-> g]
        stop == IF active.id = 0 THEN <<>> ELSE <<Frame("complete", active.id, None, 0)>>
    IN /\ active' = new
       /\ nextId' = nextId + 1
       /\ refused' = FALSE
       /\ missed' = FALSE
       /\ IF acked
          THEN /\ up' = IF socket = "open" THEN up \o stop \o <<Start(new)>> ELSE up
               /\ UNCHANGED <<down, subs, socket, acked, replaced, everReplaced>>
          ELSE ConnectSocket
       /\ UNCHANGED timer

\* Mutant: the subscription is not issued again.
ResumeNothing == <<>>

Resume == IF active.id = 0 THEN <<>> ELSE <<Start(active)>>

\* onopen, and the round trip of connection_init and connection_ack.
SocketOpens ==
    /\ socket = "connecting"
    /\ socket' = "open"
    /\ acked' = TRUE
    /\ up' = Resume
    /\ refused' = FALSE
    /\ UNCHANGED <<stored, page, active, nextId, timer, replaced, everReplaced, down,
                   subs, drops, faults, lastPublished, missed>>

\* The network or the gateway goes away.
Drop ==
    /\ socket \in {"connecting", "open"} /\ drops < MaxDrops
    /\ drops' = drops + 1
    /\ socket' = "lost"
    /\ up' = <<>> /\ down' = <<>> /\ subs' = NoSubs
    /\ UNCHANGED <<stored, page, active, nextId, acked, timer, replaced, everReplaced,
                   faults, history>>

\* onclose, of the newest socket or of one that was replaced: the handler does not
\* tell them apart.
OnClose ==
    /\ \/ socket = "lost" /\ socket' = "closed" /\ UNCHANGED replaced
       \/ replaced > 0 /\ replaced' = replaced - 1 /\ UNCHANGED socket
    /\ acked' = FALSE
    /\ timer' = TRUE
    /\ UNCHANGED <<stored, page, active, nextId, everReplaced, gateway, drops, faults,
                   history>>

Reconnect ==
    /\ timer
    /\ timer' = FALSE
    /\ ConnectSocket
    /\ UNCHANGED <<stored, page, active, nextId, drops, faults, history>>

\* Only frames of the subscription now wanted are accepted.
Wanted(frame) == frame.id = active.id

\* onmessage: an update is shown; an error only shows in the status line.
OnMessage ==
    /\ socket = "open" /\ down # <<>>
    /\ down' = Tail(down)
    /\ LET frame == Head(down)
       IN /\ shown' = IF frame.type = "next" /\ Wanted(frame)
                      THEN Snapshot(frame.game, frame.moves, "push") ELSE shown
          /\ refused' = (refused \/ (frame.type = "error" /\ frame.id = active.id))
    /\ UNCHANGED <<stored, request, opens, moved, subscriber, up, subs, drops, faults,
                   lastPublished, missed>>

(***************************************************************************)
(* The gateway's end of the socket: GameUpdated.                           *)
(***************************************************************************)

\* Mutant: the current state is read first, and then the bus is joined.
JoinedLate(sub) == sub.at = "relaying"

\* The bus delivers to a subscription from its first step on: Subscribe waits until
\* it is confirmed.
Joined(sub) == sub.at # "none"

ReadFrame ==
    /\ socket = "open" /\ up # <<>>
    /\ up' = Tail(up)
    /\ LET frame == Head(up)
       IN subs' = [subs EXCEPT ![frame.id] =
                     IF frame.type = "subscribe"
                     THEN [NoServed EXCEPT !.game = frame.game, !.at = "joined"]
                     ELSE NoServed]
    /\ UNCHANGED <<stored, page, subscriber, down, drops, faults, history>>

\* GetGame, after the bus has been joined.  Without it the subscription is refused.
Fetch(i) ==
    /\ subs[i].at = "joined"
    /\ \/ /\ subs' = [subs EXCEPT ![i].at = "fetched", ![i].current = stored[subs[i].game]]
          /\ missed' = (missed /\ (i # active.id \/ subs[i].buf # <<>>))
          /\ UNCHANGED <<down, faults>>
       \/ /\ faults < MaxFaults /\ faults' = faults + 1
          /\ subs' = [subs EXCEPT ![i] = NoServed]
          /\ down' = Append(down, Frame("error", i, None, 0))
          /\ UNCHANGED missed
    /\ UNCHANGED <<stored, page, subscriber, up, drops, lastPublished, refused>>

\* The current state goes out first, then what the bus brings.
SendCurrent(i) ==
    /\ subs[i].at = "fetched"
    /\ subs' = [subs EXCEPT ![i].at = "relaying", ![i].current = 0]
    /\ down' = Append(down, Frame("next", i, subs[i].game, subs[i].current))
    /\ UNCHANGED <<stored, page, subscriber, up, drops, faults, history>>

Forward(i) ==
    /\ subs[i].at = "relaying" /\ subs[i].buf # <<>> /\ Len(down) < MaxFrames
    /\ subs' = [subs EXCEPT ![i].buf = Tail(@)]
    /\ down' = Append(down, Frame("next", i, subs[i].game, Head(subs[i].buf)))
    /\ UNCHANGED <<stored, page, subscriber, up, drops, faults, history>>

(***************************************************************************)
(* Requests.                                                               *)
(***************************************************************************)

Issue(new) ==
    \E r \in Requests :
        /\ request[r] = NoRequest /\ \A q \in 1..(r - 1) : request[q] # NoRequest
        /\ request' = [request EXCEPT ![r] = new]

\* openGame, from the history, a link or the address (hashchange).
Open(g) ==
    /\ opens < MaxOpens
    /\ opens' = opens + 1
    /\ Issue([at |-> "opening", game |-> g, moves |-> stored[g], mine |-> TRUE])
    /\ UNCHANGED <<stored, shown, moved, subscriber, gateway, drops, faults, history>>

\* submitMove, and the opponent's: the game-service stores the move.  Resigning and
\* joining a game take the same way.  (A request that fails before it has stored
\* anything is one that was not made.)
Move(g, mine) ==
    /\ moved < MaxMoves /\ (mine => g = shown.game)
    /\ moved' = moved + 1
    /\ stored' = [stored EXCEPT ![g] = @ + 1]
    /\ Issue([at |-> "stored", game |-> g, moves |-> stored'[g], mine |-> mine])
    /\ UNCHANGED <<shown, opens, subscriber, gateway, drops, faults, history>>

\* What the game-service can have read for a request: the game at any moment since
\* the request was made, or since its move was stored.
Readings(r) == request[r].moves .. stored[request[r].game]

\* The mutation's answer goes back to its caller.
Answer(r, n) ==
    request' = [request EXCEPT ![r] =
                  IF @.mine THEN [@ EXCEPT !.at = "answered", !.moves = n] ELSE NoRequest]

\* publish: every subscription of the game gets the snapshot, or drops it when its
\* buffer is full.
Publish(r, n) ==
    LET g == request[r].game
        hears == {i \in DOMAIN subs : Joined(subs[i]) /\ subs[i].game = g}
        full == {i \in hears : Len(subs[i].buf) = Buffer}
    IN /\ request[r].at = "stored"
       /\ subs' = [i \in DOMAIN subs |->
                     IF i \in hears \ full THEN [subs[i] EXCEPT !.buf = Append(@, n)]
                     ELSE subs[i]]
       /\ missed' = (active.id \in full \/ (missed /\ active.id \notin hears))
       /\ lastPublished' = [lastPublished EXCEPT ![g] = n]
       /\ Answer(r, n)
       /\ UNCHANGED <<stored, shown, opens, moved, subscriber, up, down, drops, faults,
                      refused>>

\* The game cannot be loaded again after the commit, and nothing is published; or
\* the bus fails, which is logged, and the mutation is answered.
PublishFails(r, n) ==
    /\ request[r].at = "stored" /\ faults < MaxFaults
    /\ faults' = faults + 1
    /\ Answer(r, n) \/ request' = [request EXCEPT ![r] = NoRequest]
    /\ UNCHANGED <<stored, shown, opens, moved, subscriber, gateway, drops, history>>

\* applyGame of an answer: whatever is on the board now, and whichever game.  A
\* game that was opened is then subscribed to.
Apply(r, n) ==
    /\ request[r].at = "opening" \/ (request[r].at = "answered" /\ n = request[r].moves)
    /\ request' = [request EXCEPT ![r] = NoRequest]
    /\ shown' = Snapshot(request[r].game, n, "call")
    /\ IF request[r].at = "opening"
       THEN SubscribeGame(request[r].game)
       ELSE UNCHANGED <<subscriber, gateway, missed, refused>>
    /\ UNCHANGED <<stored, opens, moved, drops, faults, lastPublished>>

Serve(r) ==
    request[r] # NoRequest /\ \E n \in Readings(r) : Publish(r, n) \/ Apply(r, n)
ServeFails(r) ==
    request[r] # NoRequest /\ \E n \in Readings(r) : PublishFails(r, n)
Gateway(i) == Fetch(i) \/ SendCurrent(i) \/ Forward(i)

BoardNext ==
    \/ \E g \in Games : Open(g) \/ \E mine \in BOOLEAN : Move(g, mine)
    \/ \E r \in Requests : Serve(r) \/ ServeFails(r)
    \/ SocketOpens \/ Drop \/ OnClose \/ Reconnect \/ OnMessage \/ ReadFrame
    \/ \E i \in DOMAIN subs : Gateway(i)

BoardSpec == BoardInit /\ [][BoardNext]_boardVars

\* Requests are served, events and timers fire and frames arrive; nothing makes the
\* players act, and nothing fails for ever.
BoardFairSpec ==
    /\ BoardSpec
    /\ WF_boardVars(SocketOpens) /\ WF_boardVars(OnClose) /\ WF_boardVars(Reconnect)
    /\ WF_boardVars(OnMessage) /\ WF_boardVars(ReadFrame)
    /\ \A r \in Requests : WF_boardVars(Serve(r))
    /\ \A i \in 1..MaxOpens : WF_boardVars(Gateway(i))

(***************************************************************************)
(* Properties.                                                             *)
(***************************************************************************)

Served == socket = "open" /\ acked /\ subs[active.id].at = "relaying"

\* Nothing is under way and the page's subscription is served.
Quiet ==
    /\ \A r \in Requests : request[r] = NoRequest
    /\ active.id # 0 /\ Served /\ subs[active.id].buf = <<>>
    /\ up = <<>> /\ down = <<>>

\* When all is quiet the board shows the game as it is stored, through drops,
\* reconnections and switches of game, with three exceptions: the answer of a call
\* came after a newer push and took the board back, the newest update found the
\* page's buffer full, or the update published last was not the newest one.
BehindOnlyBy ==
    Quiet /\ (shown.game # active.game \/ shown.moves # stored[active.game]) =>
        \/ shown.from = "call"
        \/ missed
        \/ lastPublished[active.game] # stored[active.game]

\* Once the network stays up, the subscription is served and stays served, unless
\* it was refused, or a socket was ever closed for a newer one: onclose of the old
\* socket schedules a reconnection that closes the new one, and so on.
StaysServed ==
    <>[](active.id # 0 => Served \/ refused \/ everReplaced)
=============================================================================
