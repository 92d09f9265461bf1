# Formal models of Alekhine's Counter-Gambit

TLA+ specifications of the parts of the platform whose correctness depends on
interleavings, failures, time or long sequences of legal steps: the live game
session and the cluster it runs on, the game-service over Postgres, the outbox and
its relays, the spectator fanout, the live board and its subscription, matchmaking,
the analysis workers, the engine worker, accounts, and the rules of chess. TLC
checks them on small instances. TLAPS proves, for every value of the constants, the
invariants of the session, its cluster, the game-service, the relay, matchmaking, the
analysis workers, the engine worker and accounts, and that the session implements its
contract.
Paths below are relative to the repository.

    tlc -config sm_game.cfg MCSmGame      # any run of PROJECT.json
    tlapm SmGameProofs.tla                # the proofs

## 1. Inventory

| Component | State | Operations | Talks to | What is hard | What makes it correct |
|---|---|---|---|---|---|
| Live game (`services/session-manager/src/sm_game.erl`, `sm_clock.erl`) | turn, two clocks, status, result, presence, spectators, timers | move, resign, end_game, join, reconnect, disconnect, watch, unwatch, snapshot; flag and grace timers | called by game-service over gRPC; Redis checkpoint | messages of expired timers behind or before requests; outages | time is neither made nor lost, the flag always falls and only justly, the first result is final, no acknowledged move is lost |
| Checkpoints (`sm_checkpoint.erl`) | one blob per game with a TTL | save, load | Redis | refused writes nobody hears of, expiry | a restore finds the last settled state |
| Session cluster (`session_manager.erl`, `sm_game_sup.erl`, `sm_cluster.erl`, `sm_registry.erl`) | a registry and a member list, one copy per node | route a call, restore on the owner, register, retry | sm_game on any node | two nodes restoring, copies that lag, a retry of a call that was only slow | one process per game, or back to one; one fault loses no move that was answered |
| game-service (`services/game-service/internal/server`) | none of its own | CreateGame, JoinGame, SubmitMove and the engine's reply, Resign, hooks after an end | pkg/store, session, Kafka, object store, engine | several statements per call, calls overlap, any step may fail | tables agree, seats and results are kept, effects happen once |
| Store (`pkg/store`) | games, moves, move_outbox, users, ratings, openings | one transaction per operation | Postgres | reads of two statements, updates without a guard | per-game order of plies |
| Outbox relay (`pkg/eventlog`, `pkg/store/outbox.go`) | published_at per row, Redis stream per game | fetch, append, mark | Postgres, Redis | one relay per replica; death between append and mark | every row reaches the stream, in order |
| Fanout (`services/fanout`) | a hub per watched game: history, subscribers | Subscribe, broadcast, kick, Unsubscribe, teardown | stream, WebSockets | attach against broadcast, teardown against attach, slow clients | a spectator misses nothing and is always served |
| Spectator page (`web/watch.js`) | last id, move list | connect, onmessage, reconnect | fanout | reconnecting to a hub that is behind | each move once |
| Matchmaking (`pkg/redisx/matchmaking.go`, `services/gateway/graph/matchmaking.go`, the queue of `web/app.js`) | queue by Elo, waiting times, their expiry | pair-or-enqueue script, leave, notify, requeue | game-service, pub/sub | failure after pairing, notification without a listener, a late leave | one game per entry, no acceptable pair left standing, nobody stranded |
| Analysis (`pkg/kafkax`, `services/analysis-worker`, `pkg/redisx/novelty.go`) | consumer offsets, reports, the novelty filter | poll, handle, commit | Kafka, engine, store, Redis | at-least-once delivery, a failed record in a batch, partitions that move | every finished game analysed, novelties new |
| Accounts (`server/auth.go`, `pkg/store/auth.go`, the gateway's sign-in resolvers) | users, login tokens, session cookies | guest, register, upgrade, login, request and redeem a token, logout | Postgres | two upgrades of one guest, two redemptions of one token, failure between two statements | an identifier is one account, a session is earned |
| Chess rules (`pkg/chess`) | a board | legal moves, apply, outcome, SAN | game-service, worker | rights that outlive their rook, attacks described twice, repetition | the descriptions agree, the board's memory is true |
| Live board (`web/app.js`, `web/graphql.js`, `gameUpdated` and the bus of `services/gateway`) | the game shown, one subscription, its socket; buffers per subscriber | open, move, subscribe, reconnect, publish, relay | game-service, Redis pub/sub | answers and pushes travel apart, full buffers, sockets that drop | the board ends where the game stands, the subscription comes back |
| Engine worker (`services/engine-worker`, `pkg/engine`, `pkg/redisx/evalcache.go`) | one UCI process, its output, a mutex; cached evaluations | search, cancel, answer from the book, cache | game-service, analysis worker, Redis | a deadline passing during a search, the process dying | an answer is the caller's own and whole, nobody waits for ever |
| Rest of the gateway, ratings, counters, object store, telemetry, other clients | | | | | see section 8 |

How a move travels: the gateway calls `SubmitMove`; the game-service reads the
game, checks turn and legality, and commits move, outbox row and position in one
transaction; it tells the session, which switches clocks and writes its
checkpoint; some replica's relay appends the row to the game's stream; every hub
of the game reads it and broadcasts it to its spectators.

`PROJECT.json` lists the hazards of this code line by line, with the properties that
bear on each. Not all of them are excluded by a property. Some do happen: a call
counted twice, a session out of step with the database, a late message of a grace
window, a lost checkpoint write, a match nobody heard of, a late leave, a failed record,
a late answer on the board, a chain of reconnections. Of these either no property
holds, or one that names the case, by a history variable or a premise, and shows that
nothing else goes wrong; a note at the hazard says which, and section 6 describes them.

## 2. Modules

| Module | Models | Used by |
|---|---|---|
| `SmClock` | `sm_clock.erl`: the clock as a value and its functions | `SmGame`, `GameContract` |
| `SmGame` | `sm_game.erl` with its mailbox, timers, checkpoint, crash and restore | `MCSmGame`, `SmGameProofs` |
| `GameContract` | what a live game promises, without timers, mailboxes or crashes | `SmGame` (refinement) |
| `GameService` | the handlers of `server.go` and `history.go` over the tables of `pkg/store` | `MCGameService`, `GameServiceProofs` |
| `Relay` | outbox rows, relays and the stream | `Fanout`, `MCRelay`, `DeliveryProofs` |
| `Fanout` | hubs, connections and spectators, fed by `Relay` | `MCFanout`, `DeliveryProofs` |
| `SessionCluster` | where a game's process runs, and how calls find, lose and restore it | `MCSessionCluster`, `SessionClusterProofs` |
| `Matchmaking` | queue, pairing, the gateway's queue resolvers and the waiting page | `MCMatchmaking`, `MatchmakingProofs` |
| `Analysis` | the consumer group, the handler, novelty filter and reports | `MCAnalysis`, `AnalysisProofs` |
| `Accounts` | accounts, login tokens and sessions | `MCAccounts`, `AccountsProofs` |
| `Chess` | the rules and a game played by them | `MCChess` |
| `EngineWorker` | the engine worker, its UCI process, the client and the evaluation cache | `MCEngineWorker`, `EngineWorkerProofs` |
| `LiveBoard` | the page's board and subscription, the gateway's mutations, bus and `gameUpdated` | `MCLiveBoard`, `DeliveryProofs` |
| `SmGameProofs`, `SessionClusterProofs`, `GameServiceProofs`, `DeliveryProofs`, `MatchmakingProofs`, `AnalysisProofs`, `EngineWorkerProofs`, `AccountsProofs` | theorems and their proofs | |
| `MC*` | constants of the instances TLC runs | the `.cfg` files |

### SmGame

One game. `Handle` takes the head of the mailbox and runs the clause of
`handle_call` or `handle_info` for it, whole: `AcceptMove` moves the clock,
re-arms the flag timer and saves the checkpoint, as the code does before it
replies. `FlagTimer` and `GraceTimer` are the Erlang runtime: an armed timer puts
its message in the mailbox at its instant or later; cancelling takes back a timer
but not a message. `Crash` loses mailbox and timers; `Restore` is
`ensure_game/1` with `init_restore/2`; `Save` may be refused; `Expire` is the TTL.

- A player is named by the seat it holds; other ids are `Outsiders`.
- A side absent from the `connected` map counts as connected, as
  `maps:get(P, Connected, true)` has it.
- `now` is both the monotonic clock of timers and the wall clock of checkpoints:
  clock skew between nodes is not modelled.
- A call is applied or lost with the process; the retry of a call that timed out
  but was applied is in `SessionCluster`.
- `moves`, `acked` and `inGrace` are history. `moves` also bounds the instance.

### GameContract

Turn, status, result and each side's budget. Thinking burns the budget of the
side to move; a move must find it positive and adds the increment; only the side
to move can lose on time. `SmGame` maps `budget` to the live time of each clock
while the game runs. A crash and a restore are stutters: the outage only costs
the time that `Think` charges.

### GameService

One game, any number of concurrent calls. Each statement or transaction of
`pkg/store`, and each call to another service, is a step; `call[c].at` is where
call `c` stands, `call[c].row` what it read. A position is the line of moves that
reached it (a move is named by the call that made it), so two tables that
disagree about the position are seen to. Whether a move is legal and how it ends
the game is nondeterministic within what the side that moved can bring about.
The session is reduced to its status and turn; `SessionDecides` is a flag-fall or
an abandonment, of which the game-service is not told. `torn` is history: some
`SubmitMove` read the row and the move list with a commit in between.

### Relay

The outbox rows of one game, named by their ply, which `OutboxInOrder` of
`GameService` justifies. A relay fetches a batch, appends row by row, and marks
what it appended. An append that fails for the relay may have reached Redis.
Append, mark and process can fail at any point.

### Fanout

Extends `Relay`. A stream entry is named by its position. Critical sections under
`Manager.mu` and `hub.mu` are single steps; `Manager.Unsubscribe` has three of
them. Ids are compared as the code does, as strings, in `NewerThan`; `Burst` says
how many entries share a millisecond. What has been written to a socket and not
received counts as buffered. `gen` tells successive hubs of a replica apart, as
pointer equality does in the code. `lagged` is history.

### SessionCluster

One game on several nodes, in the detail that `SmGame` leaves out: a game is the
line of calls it has counted. Each node has its own copy of the registry
(`where`) and of the member list (`view`), which `news` messages bring up to
date; `syn` is external and modelled by what `sm_registry.erl` uses it for: a
registration is checked on the node that makes it, and of two processes the later
registration stays. `ensure_game` is two steps, the checkpoint being loaded before
the process registers. `Timeout` is the five seconds of `gen_server:call`; the
message stays in the mailbox. A process saves a move before it answers it, and may
die in between, alone or with its node: `LeftBehind` is what that leaves as the
checkpoint. Partitions between living nodes and refused writes are left out. `forked`
is history.

### Matchmaking

One time control. The Lua script is one step, as Redis runs it; the renewal of
the expiry is another round trip, and `Leave` is a pipeline of two commands. A
call may be lost between any two steps. The page is `home`, `asking`, holding a
`ticket`, `watching` (subscribed) or `playing`; a reload abandons the answers of
its calls and, if it waits, sends the leave beacon of `pagehide`, which may be
late. A creation may fail before the game is stored or after it (the session could not
be created, or the answer came too late); the gateway does the same in both cases, and
the game has `told = FALSE`. `entries` and `dropped` are history.

### Analysis

Partitions are sequences of requests; `polled` is what the Kafka client of the
partition's owner has handed out, `committed` what a new owner starts from. The
handler asks the filter, records, saves, each of which may fail or be the worker's
last. The filter is exact: its false positives only hide novelties.

### Accounts

Each statement of `pkg/store/auth.go` is a step, so that a call can fail after its
write and before its answer. Names and emails are `Spellings` with a `Fold` (lower
case); a guest's name is its id, which nobody may register. A password is named
after the call that chose it.

### Chess

Operators with the names of `pkg/chess`, on a board that is the six fields of a
FEN. `Play` is what `SubmitMove` does with them.

### EngineWorker

Calls about positions at one depth. `Handle` is the gRPC handler, `Lock`, `Ready`,
`ReadLine`, `Stop`, `Drain` and `Closed` are `Engine.Analyze` with `readSearch`: the
two cases of its `select` are actions of their own, both enabled when a line waits
and the context is done. The UCI process is external: it answers `isready` while it
searches, ends a search by itself or on `stop`, and may die. A line says which
position it is about and whether its search ran to the end, so that what a caller
gets can be compared with what it asked. A handler's context is done only after its
caller has given up: gRPC rounds the deadline it passes on up.

### LiveBoard

A game is the number of moves stored, a snapshot that number when it was read. A
request is `opening` (`openGame`), or `stored`, `answered` and applied (the
mutations; publishing comes before answering, as in the resolvers). The
`Subscriber` is modelled with its flags as they are (`acked`, the timer, the socket
that `#connect` closes), and onclose events of replaced sockets come when they like.
`GameUpdated` joins the bus, reads, and relays in separate steps; a publish reaches
all who have joined or is dropped at a full buffer. `missed`, `refused`,
`lastPublished` and `everReplaced` are history.

## 3. Runs

| Run | Expect | Checks |
|---|---|---|
| `sm_game` | pass | `TimeConserved`, `TimersArmed`, `FlagJust`, `AckedMovesSurvive`, `ResultStable`, `ImplementsContract`, `GameEnds` |
| `session_cluster` | pass | `OneProcess`, `ForkHeals`, `AckedIsDurable`, `OneFaultLosesNothing` |
| `game_service` | pass | `OutboxInOrder`, `OneGame`, `EffectsOnce`, `EndIsFollowedUp`, `BoardResultStands` |
| `result_overwritten` | violation | `ResultStands` |
| `relay` | pass | `StreamInOrder`, `MarkedIsInStream`, `RepeatsBounded`, `EveryRowStreamed` |
| `fanout` | pass | `NothingMissed`, `DoubledOnlyByLag`, `EveryMoveShown` |
| `live_board` | pass | `BehindOnlyBy`, `StaysServed` |
| `matchmaking` | pass | `OneGamePerEntry`, `NoMissedPair`, `WaitsForSomething` |
| `analysis` | pass | `LostOnlyByFailure`, `NoveltyIsFirst`, `EveryRequestSettled` |
| `engine_worker` | pass | `AnswerIsOwn`, `CacheIsSound`, `EveryCallReturns` |
| `accounts` | pass | `OneAccountPerIdentifier`, `SessionsEarned` |
| `chess` | pass | `AttackAgrees`, `RightsSound`, `SANTellsMoves`, `ThreefoldIsCurrent` |

What they show:

- `sm_game`: through every interleaving of requests, expiring timers, time, one
  crash and one refused write, time is conserved, the flag of a running game is
  always armed for the right instant, no stale flag message is ever delivered to
  a running game (so the epoch in the message is a second line of defence), and
  results and acknowledged moves survive as long as Redis took every write. Until it
  refuses one, all of this is invisible from outside but for the time an outage costs
  (`ImplementsContract`); and an idle game ends.
- `session_cluster`: as long as no node joins, a game has one process; after a
  join it may have two, and comes back to one. Acknowledged moves stay, unless a
  second process was started beside a living one or from an old checkpoint, and
  `OneFaultLosesNothing` says what that takes: while nobody joins, neither a death
  nor any number of calls that time out is enough. Two deaths are, and so is one
  together with a timeout, so its bounds are tight.
- `game_service`: overlapping calls keep tables in step; `UNIQUE (game_id, ply)`
  serialises moves; the stored moves are one game, each by the player whose ply it
  is, unless a read was torn; ratings and openings count a game once.
  `BoardResultStands`: a result reached on the board is not written over, although
  nothing in `AppendMove` checks the status; a move that was under way has its ply
  taken, or has read that the game is over.
- `result_overwritten`: a resignation is written over. The comment at
  `store.go:271-273` says of a finished game that "a repeated or racing request cannot
  overwrite the original result". That is true of `EndGame`, which it stands above, and
  of no other request: a `SubmitMove` that read the game before the resignation stores
  its move and `IN_PROGRESS` after it. TLC shows it with three calls (create, move,
  resign).
- `relay`, `fanout`: every committed move reaches every spectator in order,
  whichever relay, statement or connection fails; doubles come only from rows
  relayed twice, each at most once per relay and failure, and from hubs behind
  the spectator.
- `matchmaking`: an entry is at most one game through pairing, failure and
  requeueing, but for the opponent put back after a creation that failed with its game
  stored, who has that game and may get another; no two players who accept each other wait side by side when both
  have just come; who waits is queued or has a game, with exactly the exceptions
  `dropped` records.
- `analysis`: the death of a worker, a moving partition and a failed commit lose
  nothing; a request is lost only by its own failure or a fetch thrown away.
- `engine_worker`: a cancelled search leaves nothing behind that the next call
  could read as its own; no search that was stopped reaches a caller or the cache;
  the death of the process fails the calls that wait instead of blocking them.
- `live_board`: joining the bus before reading closes the gap between the two, so
  that a board at rest is behind only because a call's answer came last, a buffer
  was full, or the last update published was not the newest; after a drop the
  subscription is issued again and served.
- `accounts`: no race or half-finished call gives two accounts one identifier, a
  session to someone who did not earn it, or an upgraded account to another.
- `chess`: on every position reached, attack detection and move generation agree,
  castling rights and en-passant squares are true, SAN is unambiguous, and the
  repetition found is of the present position.

Bounds. `sm_game` has 1 unit of time per side, increment 1, grace 1, four
instants, two moves, two queued requests, one crash and one refused write, with
spectators and refused callers among the requests: a flag can fall before, on and
after a move, during an outage and during a grace window, and TTLs expire within
the run. The liveness property keeps the instance this small; the proofs of section 5
cover every other. `session_cluster` has two
nodes, both founders, two deaths (a node or its process), one later join (a restarted
node), one timed-out call and one call per side: enough for a fork and for a retry
on both sides of one.
`game_service` has four calls: create, join, and two that race, or create and
three that race; `result_overwritten` needs three and no failure. `relay` has two relays, three rows and batches of two, so that
batches overlap partially; `fanout` has one relay, since the product with two is
too large, and a buffer of one so that a kick takes two moves; its one viewer
races with itself, its old connection's unsubscribe being still under way when the
new one attaches to the same hub. `matchmaking` has three players, two of them at
the edge of the initial band and the third within reach of a widened one, four
calls and one failure. `analysis` has two workers, two partitions, games that share
positions, one garbled record and two failures. `accounts` has one browser, whose
calls overlap, four calls and names that differ in case only. `chess` plays up to
ten plies from ten positions (`MCChess` says what each is for); all outcomes occur.
`engine_worker` has two analyses of one position, so that one may find the other's
evaluation cached or its search left over, one move of the engine on a position the
book may have, one `info` line per search and one death. `live_board` has two games,
two opens, two moves, two requests in flight, one frame under way and a buffer of
one, so that a full buffer takes two moves, one drop and one failure.
`CHECK_DEADLOCK FALSE` is set because instances end: time, calls and moves are
bounded and a finished game has nothing left to do. Symmetry (over calls, players
or accounts) is used only where no liveness is checked.

## 4. Fairness

- `SmGame`: `Handle`, `FlagTimer`, `GraceTimer`, `Tick` are weakly fair: the
  runtime schedules the process, delivers due timers, and time passes. Clients owe
  nothing, so `Send` and `Restore` are not fair, and `GameEnds` speaks of a
  process that stays up.
- `Relay`: `Run` loops until shutdown, so fetching, appending and marking are
  weakly fair; failures are finitely many (`MaxFailed`). Moves are not fair.
- `Fanout`: in addition the hub's reader, the connection handlers and the page's
  automatic reconnect are weakly fair. Leaving is not.
- `Analysis`: every worker keeps polling, handling and committing (`Run` loops
  until shutdown and a dead worker is restarted); failures, crashes and moves of
  partitions are finitely many and owed by nobody.
- `EngineWorker`: handlers run, deadlines pass and reach the worker, the process
  reads its input. That a search ends by itself is not assumed, only that it ends
  when stopped. Which case `select` takes is left open: the lines of a search are
  finitely many, so neither choice can be made for ever.
- `LiveBoard`: requests are served, the gateway's goroutines run, sockets open,
  events and timers fire. Moves, opens, drops and failures are owed by nobody.

The other specifications state safety only.

## 5. Proofs

`SmGameProofs` proves `Spec => []IInv` for every time control, grace, TTL, set of
requests and bound. `IInv` conjoins

- `TypeOK`;
- `ClockInv`: the clock of a running game runs for the side to move; time is
  conserved in the process and, which the crash makes necessary, in the
  checkpoint as well (what it says is left, at the instant it was written);
- `FlagInv`: `FlagArmed` and `NoStaleFlag`, which need each other; an expired flag
  message means the clock is exhausted (`FlagOverdue`), so a move handled behind
  it is flagged rather than accepted; nothing is armed while the process is down;
  `FlagJust`, and the same of the result in the checkpoint;
- `GraceArmed`;
- `DurableInv`: with no write refused the checkpoint is the state of the last
  move or result (`CheckpointCurrent`), from which `AckedMovesSurvive` and
  `ResultStable` follow.

Each action has a lemma per part. The theorems name the properties of `sm_game`:
`TimeIsConserved`, `TimersAlwaysArmed` (from `FlagAlwaysArmed`, `NoFlagIsStale` and
`GraceAlwaysArmed`), `FlagIsJust`, `AcknowledgedIsDurable`, `ResultIsStable`; and
`TypeCorrect`.

`SmGameProofs` also proves `SessionImplementsContract`: `Spec` implies
`ImplementsContract`, every step up to the first refused write is a step of
`GameContract` or leaves what the players see; and `ContractWithoutLoss`: a behaviour
in which no write is refused is one of `GameContract`. It is a step simulation, with
one lemma per action.
Besides `IInv` it needs `Mirrored`, the checkpoint of a running game is the turn in
progress, without which a restore would be a move of the clock that the contract
does not have, and `Undecided`. After a refused write the refinement is false: a
crash then takes back a move that was seen.

`DeliveryProofs` proves `RelaySpec => []RelayInv` for any number of relays, any batch
size and any number of failures, and from it `StreamInOrder` and
`MarkedIsInStream`. The strengthening is that what a relay has done is in the
stream (`DoneInStream`) and that below any row a relay is still to append there
is none missing but its own earlier ones (`NoHole`): a fetch takes the oldest
unpublished rows, and a published row is in the stream.

`RepeatsBounded` is a count, so its invariant is one too. While a row is not marked,
each of its entries belongs to a relay whose cycle has not ended or to a failure;
once it is marked, the relays that still hold it are the only ones to add more, and
each adds at most one (`Accounted`). Marking turns the first account into the second.

`DeliveryProofs` then proves of `Fanout`, for any number of relays, replicas, viewers
and connections, `NothingMissed` and `DoubledOnlyByLag`, from `FanoutInv`. A hub's
history is the stream up to some entry (`HubInv`). What is under way on a connection,
its initial catch-up and then its channel, counts on without a hole from an entry up
to which the viewer has been shown everything, and as long as the hub still serves the
connection it ends where the hub's history ends (`ConnInv`); so a kick, a teardown or
a lost connection cuts a tail off and makes no hole, and the next hub goes on after
the last entry that was received. A viewer who never joined a hub that was behind it
has been shown each entry once (`ShownInv`). Two corollaries join both ends, from the
outbox to the page: `MovesShownInOrder`, no move is shown before every earlier one, and
`ShownBounded`, a viewer who has not lagged sees a move at most once per relay and once
per failure. The hypothesis of these five theorems is `Burst <= 10`: ids are compared as
strings, and with an eleventh entry of one game in one millisecond `filterAfter` would
skip entries (section 6). It is a hypothesis of the theorems and no assumption of the
model.

Of `LiveBoard` it proves `BehindOnlyBy`, for any games, requests, frames, buffer, drops
and failures. `BoardInv` says that no answer and no update is ahead of what is stored
(`NoneAhead`); that every game opened takes one id and has one to take (`IdsLeft`); that
an id is not used again, so that what carries the wanted id is about the wanted game
(`IdsInv`); and, the heart of it (`NewestInv`), that unless an update was dropped the last
one in the page's buffer is the one published last, and if the buffer is empty and that
one is the game as stored, then the subscription has read it, or the last update on its
way to the page tells it, or the board shows it or was written by a call since
(`Tells`). A move makes the last clause vacuous until it is published, a new or lost
socket makes all of it vacuous until the subscription has joined the bus again, and
reading the game after joining is what makes it true at the first read.

`SessionClusterProofs` proves `OneProcess`, `ForkHeals`, `AckedIsDurable` and
`OneFaultLosesNothing` for any cluster, any joins, deaths and timeouts. A live process is
registered on its own node (`RegisteredHere`), and of any two the news that will
kill one is on its way (`ForksTold`): that is `ForkHeals`. While nobody joins, every
node knows all that are alive, so whoever starts a process is the node of highest
weight (`OneOwner`), and its registry shows the first process: that is `OneProcess`.
As long as no fork has happened, the checkpoint is the state of the one process and
holds what was answered (`Durable`). `OneFault` shows that a first fault forks
nothing. Before any death the first process runs and every node knows it, so a restore
finds it registered, and only a call that gave up waiting tries one (`Running`); so
when a process or node dies and no call has timed out, nobody holds a checkpoint loaded
earlier, and until one of the restores has started the game the checkpoint does not
change: all of them hold the same.

`GameServiceProofs` proves `OutboxInOrder`, `OneGame`, `EffectsOnce`,
`EndIsFollowedUp` and the action property `BoardResultStands`, for any set of calls and
any failures. A call remembers what it read: `CallsKnow` says what each program
point may rely on (the row existed, the ply it will try was read, a decided game was
seen decided), `LinesFollow` that without a torn read a move about to be stored was
computed on the line that its ply follows. `PliesStored` ties the outbox to the moves. `ScoredIsMarked` makes
the rating step idempotent: the mark and the points are one statement. `FollowedUp`
says that each thing still owed to an ended game is owed by a call that will do it.
For `BoardResultStands`, `EndHolds` says that a row that was read is never longer than
the outbox (`NotAhead`), and that once the game has ended on the board every call is too
late (`TooLate`): its row is finished or of an earlier position, or the ply it holds is
taken. The move that ends the game takes the ply that the others hold; a resignation
takes none, which is why it is not protected.

`MatchmakingProofs` proves `OneGamePerEntry`, `NoMissedPair` and `WaitsForSomething`,
for any players, ratings, calls and failures. The first is inductive with the games
and calls counted being finite, and the opponent of a pair being another player
(`CallsNamed`). It counts the games of `MadeOf`: those made, and those that a failed
creation stored for its caller; such a game takes the place of the caller's entry, while
the opponent's entry goes back to the queue. The second needs that no band is narrower than the initial one. The
third speaks of quiet moments only, so its invariant says who cares for a player in
between: the queue, a game, the call that paired it, or a leave that its page waits
for (`HopesHeld`). That a leave is not one of an older page rests on a page having one
call at a time (`PagesHear`).

`AnalysisProofs` proves `LostOnlyByFailure` and `NoveltyIsFirst`, for any assignment
of partitions and any rebalancing. What was polled since a partition last moved is
settled or in its owner's hands (`PolledInv`), so a clean batch commits nothing
unhandled. The filter holds each reported game but those it failed to record, and a
worker's novelty is in no game reported when it asked (`FilterInv`, `AskedInv`).

`EngineWorkerProofs` proves `AnswerIsOwn` and `CacheIsSound`, for any number of
callers, any length of search and a death of the process at any moment. One handler
holds the mutex (`Locked`); while it searches, all that is on the pipes is about its
position and a `go` comes right behind its `position`; between searches nothing of
one is left, which is what draining is for (`StreamInv`). A search is stopped only for a
caller that has gone (`StopJust`, `GoneFirst`), so a cut evaluation is returned to nobody
and never cached (`ResponseOwn`, `CacheOwn`).

`AccountsProofs` proves `OneAccountPerIdentifier` and `SessionsEarned`, for any browsers,
names and failures. A row has its guest name or a chosen one, with no two alike under
`lower` (`RowsSound`); a session, and a call that is about to issue one, was earned by
a password, a token or a registration (`SessionsSound`); a token belongs to an account
and to one call only (`TokensNamed`, `TokensOnce`), the second because redeeming is one
guarded statement.

Each of these invariants was first checked by TLC on the instance of its run.

Assumptions: the named `ASSUME` of each module, which TLC evaluates in every run.
They type the constants and keep `None` apart from values, but for these: Erlang
terms order equal weights by node name, so that no two nodes tie, and `phash2` gives
27 bits (`ClusterAssumption`); there are finitely many relays (`RelayAssumption`); a
page opens at least the game of its address (`LiveBoardAssumption`); a name that
begins with `guest-` cannot be chosen (`AccountsAssumption`,
`auth.go:254-257`); a game that is analysed has a move (`AnalysisAssumption`); a band
does not begin wider than it may grow, 100 against 800 (`MatchmakingAssumption`).

Only model-checked: liveness (`GameEnds`, `EveryRowStreamed`, `EveryMoveShown`,
`EveryRequestSettled`, `EveryCallReturns`, `StaysServed`), which is beyond the prover;
and the four invariants of `Chess`. They compare two computations over rays and boards,
or sequences of positions, on games from given positions; that they hold on every board
would need an induction over rays, which is out of the prover's reach.

## 6. Known races

What the models reach that a reader of the code may not expect. Where a property
meets one of these cases, it excludes that case and no other, by a history variable or
a premise that names it; where none is named, no property speaks of it.

- `GetGame` reads the row and the move list in two statements outside a transaction.
  When a move commits between them, the caller is checked against the old position
  and its move is stored as the next ply, which is the opponent's: a player's second
  request, overlapping its first, moves for the other side, although the comment at
  `server.go:164` says that only the side to move may (`torn` in
  `OneGame` and `BoardResultStands`).
- `AppendMove` updates the status without a guard: a move that read the game before
  a resignation was stored writes over the result (run `result_overwritten`). The
  calls that end the game again run its hooks, and ratings stay as first applied.
- `JoinGame` stores the seat first and creates the session later: a resignation in
  between finds no session to stop, and the clocks of a decided game run. Two
  notifications of moves in the other order leave the session a move behind.
- `grace_expired` has no epoch, unlike `flag_fired`: a window that expires behind a
  queued reconnect and disconnect forfeits the player at the start of the next one.
- A call that exits is repeated, whether or not it was applied: after a timeout the
  first may still be in the mailbox, and a process that dies between its checkpoint and
  its answer leaves the move in the checkpoint. Once the opponent has moved in between,
  both are counted. Nothing tells a repeated call from a new one, so no property
  excludes this.
- A restore that loaded its checkpoint before another process was started, played
  and lost starts from the old checkpoint and saves it again; a node that has just
  joined and knows nobody starts a live game a second time (`forked`). The first takes
  two deaths, or a death and a timeout (`OneFaultLosesNothing`). A caller
  whose node has not heard of the winner of a registration is told `no_such_game`.
- A row relayed twice is shown twice: nothing after the stream removes duplicates,
  though `relay.go` says that consumers do.
- Stream ids are compared as strings (`hub.go:227`): an 11th entry of one millisecond
  would sort before the 3rd. One game does not get there; `Burst` is 2 in the
  run and at most 10 in the proofs.
- Waiting players are paired only when somebody calls the script: two whose bands
  have opened to each other while they wait stay apart until a third call.
- A `CreateGame` that fails may have stored the game (`server.go:104-131`: the row is
  committed before the session is created). The comment at `matchmaking.go:77-78`, that
  the opponent has "no game either", is then not true: the opponent goes back to the
  queue with a game standing that nobody has been told of, and the caller has one that
  it was told had failed (`told`, and `MadeOf` in `OneGamePerEntry`).
- A failed `CreateGame` puts the opponent back under the caller's rating, and drops
  a third player if the script pairs the two; a late leave beacon takes a new
  entry out; the queue expires under who waits longest (`dropped`).
- A record whose handler failed is not polled again by the worker that keeps the
  partition, and is committed by its next clean batch, although `kafkax.go:135` says
  that it is retried; a fetch with one partition in error throws the others' records
  away (`errored`, `dropped` in `LostOnlyByFailure`).
- When the positions of a game cannot be recorded, later games report them as
  novelties again (`unfiled`); the comment in `worker.go` says the reverse.
- A token is consumed before its user is loaded: a failure in between burns it.
- `applyGame` compares neither game nor position: an answer that is later than a
  newer push takes the board back, and an answer about a game that was left takes it
  to that game, until the next update (`shown.from = "call"`). `openGame` writes the
  address before it has the game, and the `hashchange` this causes opens it again.
- The last update of a game may find a subscriber's buffer full, or be published
  before an older one; nothing sends it again (`missed`, `lastPublished`).
- `onclose` does not tell a replaced socket from the present one. A `subscribe` before
  the acknowledgement, or while a reconnection is scheduled, closes a socket for a
  new one; the old one's `onclose` schedules a reconnection that closes the new one,
  whose `onclose` schedules the next, with no end (`everReplaced`).
- A subscription that is answered by an error frame, because `GetGame` failed once, is
  not tried again while the socket stays (`refused`).
- A UCI process that died is not started again: every later search fails, while the
  worker still reports that it serves. `ready` waits without regard to the context.

## 7. Plan

Done: all modules of section 2 and the proofs of section 5.

Left: the token bucket of the gateway's rate limits, and the fair-play series.

## 8. Not modelled

Elo and accuracy formulas (floating point), what a UCI engine finds, the moves and
weights of the opening book (data), counters, rate limits and leaderboards (derived
data, one Redis command each), object storage, telemetry, configuration, the texts
of FEN, UCI and PGN, the fair-play series, `Subscriber.close` (only the queue's socket
is ever closed), the web and command-line clients but for `watch.js`, the queue and
the board, infrastructure, and generated code. About 18,000 of the repository's
26,000 lines of Go are generated (`proto/gen`, the GraphQL server of the gateway);
of the rest the definitions of these modules stand for something under a half.
