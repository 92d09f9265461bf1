----------------------------- MODULE Matchmaking -----------------------------
(***************************************************************************)
(* Finding an opponent in one time control: the queue in Redis and its     *)
(* pairing script (pkg/redisx/matchmaking.go), the gateway's resolvers     *)
(* that enter and leave it (services/gateway/graph/matchmaking.go), and    *)
(* the page that asks, waits and is told (web/app.js).                     *)
(*                                                                         *)
(* A call takes one step per round trip to Redis or to the game-service,   *)
(* and may be lost with its gateway between any two.  The pairing script   *)
(* is one step: Redis runs it to completion.  Leave is a pipeline, which   *)
(* is two.  Pub/sub keeps nothing for who is not subscribed.               *)
(*                                                                         *)
(* Each time control has keys of its own, so one is modelled.  Which of    *)
(* two matched players is White is a coin flip no property tells apart.    *)
(* A player's rating does not change while it waits.                       *)
(***************************************************************************)
EXTENDS Integers, FiniteSets

CONSTANTS
    Players,
    Elo,          \* the rating of each player's account
    Calls,        \* calls to the gateway; each is made at most once
    None,
    InitialBand, BandPerSec, MaxBand, QueueTTL,
    \* Bounds of an instance:
    MaxTime,      \* the last second
    MaxFailed     \* calls and services that fail

ASSUME MatchmakingAssumption ==
    /\ Elo \in [Players -> Nat]
    /\ None \notin Nat \cup Players
    /\ {InitialBand, BandPerSec, MaxBand, QueueTTL, MaxTime, MaxFailed} \subseteq Nat
    /\ QueueTTL > 0
    /\ InitialBand <= MaxBand

VARIABLES
    now,
    queue,     \* the sorted set: the score of each waiting player, or None
    since,     \* the hash: when each waiting player joined, or None
    expires,   \* when both keys expire, or None
    call,
    page,      \* what each player's page shows
    games,     \* games stored: by which call, for whom, and whether it answered with it
    failed,
    \* History, read by no guard.
    entries,   \* how often each player came to stand in the queue or was paired at once
    dropped    \* players a fault or a race took out of the queue unpaired

redisVars == <<queue, since, expires>>
histVars  == <<entries, dropped>>
vars == <<now, redisVars, call, page, games, failed, histVars>>

NoCall == [pc |-> "idle", who |-> None, opponent |-> None, page |-> FALSE]

Queued(p) == queue[p] # None

--------------------------------------------------------------------------
\* The pairing script.

Abs(x) == IF x < 0 THEN -x ELSE x

\* How wide a gap a player accepts after its wait; one not waiting has waited 0.
Band(p) ==
    LET wait == IF since[p] = None \/ since[p] > now THEN 0 ELSE now - since[p]
        open == InitialBand + wait * BandPerSec
    IN  IF open < MaxBand THEN open ELSE MaxBand

Gap(p, elo) == Abs(queue[p] - elo)

\* Mutant: a gap that is exactly the opponent's band is refused.
StrictCandidates(me, elo) ==
    {p \in Players \ {me} :
        Queued(p) /\ Gap(p, elo) <= Band(me) /\ Gap(p, elo) < Band(p)}

\* Both must accept the gap.
Candidates(me, elo) ==
    {p \in Players \ {me} :
        /\ Queued(p)
        /\ Gap(p, elo) <= Band(me)
        /\ Gap(p, elo) <= Band(p)}

\* The nearest; of two equally near the lower rated, which the walk meets first.
Best(me, elo) ==
    {p \in Candidates(me, elo) : \A q \in Candidates(me, elo) :
        \/ Gap(p, elo) < Gap(q, elo)
        \/ Gap(p, elo) = Gap(q, elo) /\ queue[p] <= queue[q]}

Without(f, S) == [p \in Players |-> IF p \in S THEN None ELSE f[p]]

\* Mutant: the pair is taken out of the hash only.
LeaveInQueue(S) == since' = Without(since, S) /\ UNCHANGED <<queue, expires>>

Dequeue(S) ==
    /\ queue' = Without(queue, S)
    /\ since' = Without(since, S)
    /\ expires' = IF \A p \in Players \ S : ~Queued(p) THEN None ELSE expires

\* Not paired: stand in the queue, since the first time.
Wait(me, elo) ==
    /\ Candidates(me, elo) = {}
    /\ queue' = [queue EXCEPT ![me] = elo]
    /\ since' = [since EXCEPT ![me] = IF @ = None THEN now ELSE @]
    /\ UNCHANGED expires

\* Who was not paired then renews the expiry of the keys, if they are still there.
Renew == expires' = IF \E p \in Players : Queued(p) THEN now + QueueTTL ELSE expires

--------------------------------------------------------------------------
\* The page.

Waiting == {"ticket", "watching"}

Show(p, what) == page' = [page EXCEPT ![p] = what]

\* A call answers its page, unless that page is gone.
Answer(c, what) == IF call[c].page THEN Show(call[c].who, what) ELSE UNCHANGED page

Begin(c, p, pc, heard) ==
    /\ call[c].pc = "idle"
    /\ call' = [call EXCEPT ![c] = [pc |-> pc, who |-> p, opponent |-> None, page |-> heard]]

\* "Find opponent": enterQueue, up to the rating it reads.
Find(c, p) ==
    /\ page[p] = "home"
    /\ Begin(c, p, "enqueue", TRUE)
    /\ Show(p, "asking")
    /\ UNCHANGED <<now, redisVars, games, failed, histVars>>

\* The page subscribes to matchFound once it holds a ticket.
Subscribe(p) ==
    /\ page[p] = "ticket"
    /\ Show(p, "watching")
    /\ UNCHANGED <<now, redisVars, call, games, failed, histVars>>

\* "Leave queue": the page keeps waiting until leaveQueue has answered.
Cancel(c, p) ==
    /\ page[p] \in Waiting
    /\ \A d \in Calls : call[d].who = p => call[d].pc \in {"idle", "done"}
    /\ Begin(c, p, "zrem", TRUE)
    /\ UNCHANGED <<now, redisVars, page, games, failed, histVars>>

\* The tab is closed or reloaded: a waiting page sends leaveQueue as a beacon.
\* No call in flight has a page to answer any more.
Reload(p) ==
    /\ page[p] # "home"
    /\ Show(p, "home")
    /\ LET deaf == [d \in Calls |-> [call[d] EXCEPT !.page = @ /\ call[d].who # p]]
       IN  IF page[p] \in Waiting
           THEN \E c \in Calls :
                   /\ call[c].pc = "idle"
                   /\ call' = [deaf EXCEPT ![c] =
                          [pc |-> "zrem", who |-> p, opponent |-> None, page |-> FALSE]]
           ELSE call' = deaf
    /\ UNCHANGED <<now, redisVars, games, failed, histVars>>

--------------------------------------------------------------------------
\* The gateway's calls.

Step(c, pc) == call' = [call EXCEPT ![c].pc = pc]

\* enterQueue runs the script.
Enqueue(c) ==
    LET me == call[c].who IN
    /\ call[c].pc = "enqueue"
    /\ entries' = [entries EXCEPT ![me] = IF Queued(me) THEN @ ELSE @ + 1]
    /\ dropped' = dropped \ {me}
    /\ \/ \E best \in Best(me, Elo[me]) :
             /\ Dequeue({me, best})
             /\ call' = [call EXCEPT ![c].pc = "create", ![c].opponent = best]
       \/ Wait(me, Elo[me]) /\ Step(c, "ticket")
    /\ UNCHANGED <<now, page, games, failed>>

\* A call that now waits, or that put its opponent back, renews the expiry and
\* answers.
Ticket(c) ==
    /\ call[c].pc \in {"ticket", "requeued"}
    /\ Renew
    /\ Step(c, "done")
    /\ Answer(c, IF call[c].pc = "ticket" THEN "ticket" ELSE "home")
    /\ UNCHANGED <<now, queue, since, games, failed, histVars>>

Game(c, told) ==
    [call |-> c, caller |-> call[c].who, opponent |-> call[c].opponent, told |-> told]

CreateGame(c) ==
    /\ call[c].pc = "create"
    /\ games' = games \cup {Game(c, TRUE)}
    /\ Step(c, "notify")
    /\ UNCHANGED <<now, redisVars, page, failed, histVars>>

\* The game-service answers with an error, or not in time: it stored no game, or it
\* stored one and the session could not be created or the answer came late.
CreateFails(c) ==
    /\ call[c].pc = "create"
    /\ failed < MaxFailed
    /\ failed' = failed + 1
    /\ games' \in {games, games \cup {Game(c, FALSE)}}
    /\ Step(c, "requeue")
    /\ UNCHANGED <<now, redisVars, page, histVars>>

\* Mutant: a failed creation is only reported.
ReportOnly(c) ==
    /\ call[c].pc = "requeue"
    /\ dropped' = dropped \cup {call[c].who}
    /\ Step(c, "done")
    /\ Answer(c, "home")
    /\ UNCHANGED <<now, redisVars, games, failed, entries>>

\* CreateGame failed: the opponent goes back through the script, under the
\* caller's rating, also when the game was stored.  An opponent found for it there
\* is not looked at.
Requeue(c) ==
    LET me == call[c].opponent
        elo == Elo[call[c].who] IN
    /\ call[c].pc = "requeue"
    /\ \/ \E best \in Best(me, elo) :
             /\ Dequeue({me, best})
             /\ dropped' = dropped \cup {call[c].who, me, best}
             /\ Step(c, "done")
             /\ Answer(c, "home")
       \/ /\ Wait(me, elo)
          /\ dropped' = dropped \cup {call[c].who}
          /\ Step(c, "requeued")
          /\ UNCHANGED page
    /\ UNCHANGED <<now, games, failed, entries>>

\* The opponent learns of the game if its page is subscribed; the caller by the
\* answer.  A failed publish is only logged.
Notify(c) ==
    LET opponent == call[c].opponent IN
    /\ call[c].pc = "notify"
    /\ Step(c, "done")
    /\ \E sent \in BOOLEAN :
        /\ ~sent => failed < MaxFailed
        /\ failed' = failed + (IF sent THEN 0 ELSE 1)
        /\ page' = [p \in Players |->
               IF \/ p = call[c].who /\ call[c].page
                  \/ p = opponent /\ sent /\ page[p] = "watching"
               THEN "playing" ELSE page[p]]
    /\ UNCHANGED <<now, redisVars, games, histVars>>

\* leaveQueue, the pipeline's two commands.  A late one takes a newer entry out.
ZRem(c) ==
    LET p == call[c].who IN
    /\ call[c].pc = "zrem"
    /\ queue' = Without(queue, {p})
    /\ expires' = IF \A q \in Players \ {p} : ~Queued(q) THEN None ELSE expires
    /\ Step(c, "hdel")
    /\ dropped' = IF call[c].page THEN dropped ELSE dropped \cup {p}
    /\ UNCHANGED <<now, since, page, games, failed, entries>>

HDel(c) ==
    /\ call[c].pc = "hdel"
    /\ since' = Without(since, {call[c].who})
    /\ Step(c, "done")
    /\ IF page[call[c].who] \in Waiting THEN Answer(c, "home") ELSE UNCHANGED page
    /\ UNCHANGED <<now, queue, expires, games, failed, histVars>>

\* The gateway dies, or Redis does not answer: the page is told of an error.
\* A page that waits, leaving, stays as it is.
Fail(c) ==
    /\ call[c].pc \notin {"idle", "done"}
    /\ failed < MaxFailed
    /\ failed' = failed + 1
    /\ Step(c, "done")
    /\ IF page[call[c].who] = "asking" THEN Answer(c, "home") ELSE UNCHANGED page
    /\ dropped' = CASE call[c].pc \in {"create", "requeue"} ->
                              dropped \cup {call[c].who, call[c].opponent}
                    [] call[c].pc = "hdel" -> dropped \cup {call[c].who}
                    [] OTHER -> dropped
    /\ UNCHANGED <<now, redisVars, games, entries>>

--------------------------------------------------------------------------
\* Redis expires both keys; time passes.

ExpireKeys ==
    /\ expires = now
    /\ queue' = Without(queue, Players)
    /\ since' = Without(since, Players)
    /\ expires' = None
    /\ dropped' = dropped \cup {p \in Players : Queued(p)}
    /\ UNCHANGED <<now, call, page, games, failed, entries>>

Tick ==
    /\ now < MaxTime
    /\ expires # now
    /\ now' = now + 1
    /\ UNCHANGED <<redisVars, call, page, games, failed, histVars>>

Init ==
    /\ now = 0
    /\ queue = [p \in Players |-> None]
    /\ since = [p \in Players |-> None]
    /\ expires = None
    /\ call = [c \in Calls |-> NoCall]
    /\ page = [p \in Players |-> "home"]
    /\ games = {}
    /\ failed = 0
    /\ entries = [p \in Players |-> 0]
    /\ dropped = {}

Serve(c) == Enqueue(c) \/ Ticket(c) \/ CreateGame(c) \/ Requeue(c) \/ Notify(c)
                \/ ZRem(c) \/ HDel(c)

Next ==
    \/ \E c \in Calls, p \in Players : Find(c, p) \/ Cancel(c, p)
    \/ \E p \in Players : Subscribe(p) \/ Reload(p)
    \/ \E c \in Calls : Serve(c) \/ CreateFails(c) \/ Fail(c)
    \/ ExpireKeys
    \/ Tick

Spec == Init /\ [][Next]_vars

--------------------------------------------------------------------------

GamesOf(p) == {g \in games : p \in {g.caller, g.opponent}}

\* The games made of p's entries.  One that was stored by a creation that failed is
\* made of its caller's entry only: the opponent's goes back to the queue.
MadeOf(p) == {g \in GamesOf(p) : g.told \/ p = g.caller}

Quiet == \A c \in Calls : call[c].pc \in {"idle", "done"}

\* The calls that are making a game for p, or are to put it back.
Making(p) ==
    {c \in Calls : \/ call[c].pc = "create" /\ p \in {call[c].who, call[c].opponent}
                   \/ call[c].pc = "requeue" /\ p = call[c].opponent}

\* One place in the queue is at most one game: of what a player has entered, each
\* entry is still waiting, is being made a game of, or is one game.  The pairing
\* script must take both players out, however many calls race, and the opponent
\* put back after a failed creation must not have been paired meanwhile.  The one
\* game an entry may have beside this is the one that a failed creation stored
\* without telling anybody, and only for the opponent that is put back: for the
\* caller, whose entry is not put back, such a game is counted like any other.
OneGamePerEntry ==
    \A p \in Players :
        Cardinality(MadeOf(p)) + Cardinality(Making(p)) + (IF Queued(p) THEN 1 ELSE 0)
            <= entries[p]

\* Nobody waits beside an acceptable opponent: whoever of two came second, or was
\* put back, or came again, would have been paired with the first.
NoMissedPair ==
    \A p, q \in Players :
        p # q /\ Queued(p) /\ Queued(q) => Gap(p, queue[q]) > InitialBand

\* A page that waits is in the queue or has a game to find in its history, unless
\* a call died holding the player, a discarded pairing took it, a late leave
\* overtook its new entry, or the queue expired.
WaitsForSomething ==
    Quiet => \A p \in Players :
        page[p] \in Waiting /\ p \notin dropped => Queued(p) \/ GamesOf(p) # {}

=============================================================================
