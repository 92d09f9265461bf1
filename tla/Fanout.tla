-------------------------------- MODULE Fanout --------------------------------
(***************************************************************************)
(* The spectators of one game: the hubs of services/fanout, which tail the *)
(* game's event stream and broadcast it, their creation and teardown by    *)
(* hub.Manager, the WebSocket handler, and the client of web/watch.js that *)
(* reconnects with the id of the last move it saw.                         *)
(*                                                                         *)
(* A critical section under Manager.mu or hub.mu is one step.  An entry of *)
(* the stream is named by its position; ids are positions but where the    *)
(* code compares them as strings.  What a write to the socket has not yet  *)
(* brought to the client counts as buffered.                               *)
(***************************************************************************)
EXTENDS Relay

CONSTANTS
    Replicas,   \* the fanout replicas
    Viewers,
    SendBuffer, \* sendBuffer, deltas
    Burst,      \* stream entries written in the same millisecond
    \* Bound of an instance:
    MaxLeaves   \* times viewers lose their connection

ASSUME FanoutAssumption ==
    /\ SendBuffer \in Nat \ {0}
    /\ Burst \in 1..100
    /\ MaxLeaves \in Nat

VARIABLES
    hub,        \* each replica's hub of the game, if up
    conns,      \* the connections ever accepted, each with its Sub
    viewer,
    leaves

fanVars == <<hub, conns, viewer, leaves>>
vars == <<relayVars, fanVars>>

\* Connection n, of which only the unsubscribe is left to do, and nothing at all.
Returned(c) == [c EXCEPT !.at = "lookup", !.initial = <<>>, !.ch = <<>>, !.kicked = FALSE]
Closed(c) == [Returned(c) EXCEPT !.at = "closed", !.gen = 0]

NoHub == [up |-> FALSE, gen |-> 0, history |-> <<>>, subs |-> {}]

-----------------------------------------------------------------------------
(* Stream ids: "<ms>-<seq>". *)

Ms(i) == (i - 1) \div Burst
Digits(n) == IF n < 10 THEN <<n>> ELSE <<n \div 10, n % 10>>

\* The order of strings on decimal numbers.
StringAfter(a, b) ==
    LET x == Digits(a)  y == Digits(b)
    IN  \E k \in DOMAIN x :
          /\ \A i \in 1..(k - 1) : i \in DOMAIN y /\ x[i] = y[i]
          /\ k \in DOMAIN y => x[k] > y[k]

\* d.ID > from: the milliseconds have the same number of digits.
NewerThan(i, j) ==
    \/ Ms(i) > Ms(j)
    \/ Ms(i) = Ms(j) /\ StringAfter((i - 1) % Burst, (j - 1) % Burst)

\* The entries of a sequence at some of its positions, in their order.
Selected(s, at) ==
    [n \in 1..Cardinality(at) |->
        s[CHOOSE k \in at : Cardinality({j \in at : j <= k}) = n]]

\* Mutant: the move the client saw last is sent again.
FilterFrom(history, from) ==
    Selected(history, {k \in DOMAIN history : from = 0 \/ history[k] >= from})

\* filterAfter; 0 is the empty id of a viewer that has seen nothing.
FilterAfter(history, from) ==
    Selected(history, {k \in DOMAIN history : from = 0 \/ NewerThan(history[k], from)})

LastOf(history) == IF history = <<>> THEN 0 ELSE history[Len(history)]

-----------------------------------------------------------------------------
(* The hub. *)

\* The hub that Subscribe finds, or creates with the stream as it stands.  If the
\* preload fails the new hub tails the stream from the start.
Opened(h) ==
    IF h.up THEN {h}
    ELSE {[up |-> TRUE, gen |-> h.gen + 1, history |-> past, subs |-> {}] :
             past \in {[i \in DOMAIN stream |-> i]}
                 \cup (IF failed < MaxFailed THEN {<<>>} ELSE {})}

\* A viewer (re)connects to some replica: Manager.Subscribe and hub.attach.
Subscribe(v, rep) ==
    LET n == Len(conns) + 1
    IN  /\ viewer[v].conn = 0
        /\ \E h \in Opened(hub[rep]) :
             /\ hub' = [hub EXCEPT ![rep] = [h EXCEPT !.subs = @ \cup {n}]]
             /\ conns' = Append(conns,
                    [viewer |-> v, replica |-> rep, gen |-> h.gen, at |-> "open",
                     initial |-> FilterAfter(h.history, viewer[v].lastId),
                     ch |-> <<>>, kicked |-> FALSE])
             /\ viewer' = [viewer EXCEPT ![v].conn = n,
                    ![v].lagged = @ \/ viewer[v].lastId > LastOf(h.history)]
             /\ failed' = IF ~hub[rep].up /\ h.history = <<>> /\ stream # <<>>
                          THEN failed + 1 ELSE failed
    /\ UNCHANGED <<rows, published, stream, relay, leaves>>

\* A send to the channel of connection n would block.
Full(n) == Len(conns[n].ch) >= SendBuffer

\* Mutant: a full buffer loses the delta instead of the subscriber.
BroadcastLossy(rep) ==
    LET h == hub[rep]  next == LastOf(h.history) + 1
        full == {n \in h.subs : Full(n)}
    IN  /\ h.up
        /\ next \in DOMAIN stream
        /\ hub' = [hub EXCEPT ![rep].history = Append(@, next)]
        /\ conns' = [n \in DOMAIN conns |->
               IF n \in h.subs \ full THEN [conns[n] EXCEPT !.ch = Append(@, next)]
               ELSE conns[n]]
        /\ UNCHANGED <<relayVars, viewer, leaves>>

\* run reads the entries after the last one and broadcasts each; a subscriber
\* whose buffer is full is dropped.
Broadcast(rep) ==
    LET h == hub[rep]  next == LastOf(h.history) + 1
        full == {n \in h.subs : Full(n)}
    IN  /\ h.up
        /\ next \in DOMAIN stream
        /\ hub' = [hub EXCEPT ![rep].history = Append(@, next), ![rep].subs = @ \ full]
        /\ conns' = [n \in DOMAIN conns |->
               IF n \in full THEN [conns[n] EXCEPT !.kicked = TRUE]
               ELSE IF n \in h.subs THEN [conns[n] EXCEPT !.ch = Append(@, next)]
               ELSE conns[n]]
        /\ UNCHANGED <<relayVars, viewer, leaves>>

-----------------------------------------------------------------------------
(* The connection. *)

\* The handler writes the backlog, then live deltas; watch.js appends whatever
\* arrives.
Deliver(n) ==
    LET c == conns[n]  v == c.viewer
        d == IF c.initial # <<>> THEN Head(c.initial) ELSE Head(c.ch)
    IN  /\ c.at = "open" /\ viewer[v].conn = n
        /\ c.initial # <<>> \/ c.ch # <<>>
        /\ conns' = [conns EXCEPT ![n] = IF c.initial # <<>>
                                         THEN [c EXCEPT !.initial = Tail(@)]
                                         ELSE [c EXCEPT !.ch = Tail(@)]]
        /\ viewer' = [viewer EXCEPT ![v].lastId = d, ![v].seen = Append(@, d)]
        /\ UNCHANGED <<relayVars, hub, leaves>>

\* The client's end of the connection is lost; the handler may not know yet.
Leave(v) ==
    /\ viewer[v].conn # 0
    /\ leaves < MaxLeaves
    /\ leaves' = leaves + 1
    /\ viewer' = [viewer EXCEPT ![v].conn = 0]
    /\ UNCHANGED <<relayVars, hub, conns>>

\* The handler returns: its client is gone, or it was kicked (which it looks at
\* only once the backlog is written).
Return(n) ==
    LET c == conns[n]
    IN  /\ c.at = "open"
        /\ viewer[c.viewer].conn # n \/ (c.kicked /\ c.initial = <<>>)
        /\ conns' = [conns EXCEPT ![n] = Returned(c)]
        /\ viewer' = [viewer EXCEPT ![c.viewer].conn = IF @ = n THEN 0 ELSE @]
        /\ UNCHANGED <<relayVars, hub, leaves>>

\* The three critical sections of Manager.Unsubscribe: find the hub ...
Lookup(n) ==
    LET h == hub[conns[n].replica]
    IN  /\ conns[n].at = "lookup"
        /\ conns' = [conns EXCEPT ![n] = IF h.up THEN [@ EXCEPT !.at = "detach", !.gen = h.gen]
                                         ELSE Closed(@)]
        /\ UNCHANGED <<relayVars, hub, viewer, leaves>>

\* ... leave it (one that is down has no subscriber any more) ...
Detach(n) ==
    LET c == conns[n]  h == hub[c.replica]
        rest == IF h.gen = c.gen THEN h.subs \ {n} ELSE {}
    IN  /\ c.at = "detach"
        /\ hub' = IF h.gen = c.gen THEN [hub EXCEPT ![c.replica].subs = rest] ELSE hub
        /\ conns' = [conns EXCEPT ![n] = IF rest = {} THEN [@ EXCEPT !.at = "teardown"] ELSE Closed(@)]
        /\ UNCHANGED <<relayVars, viewer, leaves>>

\* Mutants of the check before the hub is torn down.
LastToLeaveAny(h, gen) == h.up /\ h.gen = gen

LastToLeave(h, gen) == h.up /\ h.gen = gen /\ h.subs = {}

\* ... and tear it down if it is still this one and still empty.
Teardown(n) ==
    LET c == conns[n]  h == hub[c.replica]
    IN  /\ c.at = "teardown"
        /\ hub' = IF LastToLeave(h, c.gen)
                  THEN [hub EXCEPT ![c.replica] = [NoHub EXCEPT !.gen = h.gen]]
                  ELSE hub
        /\ conns' = [conns EXCEPT ![n] = Closed(@)]
        /\ UNCHANGED <<relayVars, viewer, leaves>>

-----------------------------------------------------------------------------
Init ==
    /\ RelayInit
    /\ hub = [rep \in Replicas |-> NoHub]
    /\ conns = <<>>
    /\ viewer = [v \in Viewers |-> [conn |-> 0, lastId |-> 0, seen |-> <<>>,
                                    lagged |-> FALSE]]
    /\ leaves = 0

Unsubscribe(n) == Lookup(n) \/ Detach(n) \/ Teardown(n)

Connect(v) == \E rep \in Replicas : Subscribe(v, rep)

Next ==
    \/ RelayNext /\ UNCHANGED fanVars
    \/ \E v \in Viewers : Connect(v) \/ Leave(v)
    \/ \E rep \in Replicas : Broadcast(rep)
    \/ \E n \in DOMAIN conns : Deliver(n) \/ Return(n) \/ Unsubscribe(n)

Spec == Init /\ [][Next]_vars

\* Relays, hubs and handlers loop for ever, and watch.js reconnects by itself.
FairSpec ==
    /\ Spec
    /\ RelayFairness
    /\ \A v \in Viewers : WF_vars(Connect(v))
    /\ \A rep \in Replicas : WF_vars(Broadcast(rep))
    /\ WF_vars(\E n \in DOMAIN conns : Deliver(n))
    /\ WF_vars(\E n \in DOMAIN conns : Return(n))
    /\ WF_vars(\E n \in DOMAIN conns : Unsubscribe(n))

-----------------------------------------------------------------------------
(* What a spectator is promised. *)

Increasing(s) == \A i \in 1..(Len(s) - 1) : s[i] < s[i + 1]

\* A spectator misses no move, through kicks, reconnects, hub teardowns and other
\* replicas: each entry it is shown follows one it has been shown ("never lost
\* between the two", hub.go:116; "replays the gap", hub.go:10).
NothingMissed ==
    \A v \in Viewers : LET seen == viewer[v].seen IN
        \A i \in DOMAIN seen :
            seen[i] > 1 => \E j \in 1..(i - 1) : seen[j] = seen[i] - 1

\* A spectator is shown an entry twice only after it has connected to a hub that
\* was behind it, on another replica or after a failed preload.
DoubledOnlyByLag ==
    \A v \in Viewers : ~viewer[v].lagged => Increasing(viewer[v].seen)

Plies(v) == {stream[viewer[v].seen[i]] : i \in DOMAIN viewer[v].seen}

\* Every move that is committed is shown to every spectator, whatever relays,
\* statements and connections fail on the way.
EveryMoveShown ==
    \A ply \in 1..MaxRows : \A v \in Viewers : rows >= ply ~> ply \in Plies(v)
=============================================================================
