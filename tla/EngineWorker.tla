----------------------------- MODULE EngineWorker -----------------------------
(***************************************************************************)
(* The engine worker: the UCI process that searches, the reader of its     *)
(* output, the mutex around it, the gRPC handler, and the client with its  *)
(* evaluation cache (services/engine-worker, pkg/engine,                   *)
(* pkg/redisx/evalcache.go).                                               *)
(*                                                                         *)
(* Every call asks once, at one depth, about one position: the analysis    *)
(* pipeline without the opening book and through the cache, the            *)
(* game-service's reply with the book and past the cache.  All callers     *)
(* have a deadline.  An evaluation is told apart by the position its best  *)
(* move and its score are about, and by whether the search was cut short.  *)
(*                                                                         *)
(* The process is external.  It answers "isready" also while it searches,  *)
(* starts a search only when the one before has ended, ends a search by    *)
(* itself or when told to stop, and may die; nothing starts it again.      *)
(***************************************************************************)
EXTENDS Sequences, FiniteSets, Naturals

CONSTANTS
    Calls, Positions,
    Fen,            \* the position a call asks about
    Play,           \* the calls of the play path (use_book)
    Seed,           \* the positions of the built-in opening book
    None,
    MaxInfo,        \* "info" lines of one search
    MaxDeaths       \* deaths of the process

ASSUME EngineWorkerAssumption ==
    /\ Fen \in [Calls -> Positions]
    /\ Play \subseteq Calls /\ Seed \subseteq Positions
    /\ None \notin Calls \cup Positions
    /\ {MaxInfo, MaxDeaths} \subseteq Nat

VARIABLES
    \* The clients.
    client,     \* for each call, "idle", "sent", "done" or "failed"
    answer,     \* what a call that is done was given
    cache,      \* for each position, the evaluation kept in Redis
    \* The handlers.
    handler,    \* for each call, where its handler is
    response,   \* what the handler returned; None is an error
    cancelled,  \* the calls whose context is done at the worker
    book,       \* the opening book that the worker was started with
    holder,     \* who holds the engine's mutex
    res,        \* the result that the search in progress has collected
    stopped,    \* "stop" has been sent
    \* The process.
    stdin,      \* commands it has not read
    lines,      \* lines it has written and nobody has read
    process     \* whether it lives, its position, search and "info" lines

clientVars == <<client, answer, cache>>
handlerVars == <<handler, response, holder, res, stopped>>
vars == <<clientVars, handlerVars, cancelled, book, stdin, lines, process>>

Eval(position, score, full, fromBook) ==
    [best |-> position, score |-> score, full |-> full, fromBook |-> fromBook]
NoResult == Eval(None, None, FALSE, FALSE)

Line(kind, position, full) == [kind |-> kind, of |-> position, full |-> full]
Cmd(kind, position) == [kind |-> kind, of |-> position]

Init ==
    /\ client = [c \in Calls |-> "idle"]
    /\ answer = [c \in Calls |-> None]
    /\ cache = [p \in Positions |-> None]
    /\ handler = [c \in Calls |-> "none"]
    /\ response = [c \in Calls |-> None]
    /\ cancelled = {}
    /\ book \in {{}, Seed}
    /\ holder = None
    /\ res = NoResult
    /\ stopped = FALSE
    /\ stdin = <<>>
    /\ lines = <<>>
    /\ process = [alive |-> TRUE, position |-> None, search |-> None, infos |-> 0]

(***************************************************************************)
(* The client.                                                             *)
(***************************************************************************)

\* Mutant: the book's answers are cached too.
CacheableAll(c) == c \in Calls

Cacheable(c) == c \notin Play

\* analyze: a hit is the answer; a miss, an expired entry or an error of Redis
\* sends the request.
Hit(c) ==
    /\ client[c] = "idle" /\ Cacheable(c) /\ cache[Fen[c]] # None
    /\ client' = [client EXCEPT ![c] = "done"]
    /\ answer' = [answer EXCEPT ![c] = cache[Fen[c]]]
    /\ UNCHANGED <<cache, handlerVars, cancelled, book, stdin, lines, process>>

Ask(c) ==
    /\ client[c] = "idle"
    /\ client' = [client EXCEPT ![c] = "sent"]
    /\ handler' = [handler EXCEPT ![c] = "called"]
    /\ UNCHANGED <<answer, cache, response, holder, res, stopped, cancelled, book,
                   stdin, lines, process>>

\* The response arrives in time; the write to the cache may fail.
Receive(c) ==
    /\ client[c] = "sent" /\ handler[c] = "returned"
    /\ IF response[c] = None
       THEN /\ client' = [client EXCEPT ![c] = "failed"]
            /\ UNCHANGED <<answer, cache>>
       ELSE /\ client' = [client EXCEPT ![c] = "done"]
            /\ answer' = [answer EXCEPT ![c] = response[c]]
            /\ \/ Cacheable(c) /\ cache' = [cache EXCEPT ![Fen[c]] = response[c]]
               \/ UNCHANGED cache
    /\ UNCHANGED <<handlerVars, cancelled, book, stdin, lines, process>>

\* The deadline passes.  The worker learns of it later (gRPC gives it no less
\* than the time the caller has left), so the caller has always gone first.
GiveUp(c) ==
    /\ client[c] = "sent"
    /\ client' = [client EXCEPT ![c] = "failed"]
    /\ UNCHANGED <<answer, cache, handlerVars, cancelled, book, stdin, lines, process>>

ContextDone(c) ==
    /\ client[c] = "failed" /\ handler[c] # "returned" /\ c \notin cancelled
    /\ cancelled' = cancelled \cup {c}
    /\ UNCHANGED <<clientVars, handlerVars, book, stdin, lines, process>>

(***************************************************************************)
(* The worker.                                                             *)
(***************************************************************************)

Return(c, r) ==
    /\ handler' = [handler EXCEPT ![c] = "returned"]
    /\ response' = [response EXCEPT ![c] = r]
    /\ holder' = IF holder = c THEN None ELSE holder

Send(cmds) == stdin' = IF process.alive THEN stdin \o cmds ELSE stdin

\* Server.Analyze: a position of the book is answered without a search.
Handle(c) ==
    /\ handler[c] = "called"
    /\ IF c \in Play /\ Fen[c] \in book
       THEN Return(c, Eval(Fen[c], None, TRUE, TRUE))
       ELSE /\ handler' = [handler EXCEPT ![c] = "lock"]
            /\ UNCHANGED <<response, holder>>
    /\ UNCHANGED <<clientVars, cancelled, book, res, stopped, stdin, lines, process>>

\* Engine.Analyze takes the mutex, whatever has become of its context, and asks
\* whether the process is ready.  A write to a process that is dead fails.
Lock(c) ==
    /\ handler[c] = "lock" /\ holder = None
    /\ IF process.alive
       THEN /\ handler' = [handler EXCEPT ![c] = "ready"]
            /\ holder' = c
            /\ UNCHANGED response
       ELSE Return(c, None)
    /\ Send(<<Cmd("isready", None)>>)
    /\ UNCHANGED <<clientVars, cancelled, book, res, stopped, lines, process>>

\* waitFor("readyok") throws away what comes before it, then the search begins.
Ready(c) ==
    /\ handler[c] = "ready" /\ lines # <<>>
    /\ lines' = Tail(lines)
    /\ IF Head(lines).kind # "readyok"
       THEN UNCHANGED <<handlerVars, stdin>>
       ELSE /\ IF process.alive
               THEN /\ handler' = [handler EXCEPT ![c] = "search"]
                    /\ UNCHANGED <<response, holder>>
               ELSE Return(c, None)
            /\ Send(<<Cmd("position", Fen[c]), Cmd("go", None)>>)
            /\ res' = NoResult
            /\ stopped' = FALSE
    /\ UNCHANGED <<clientVars, cancelled, book, process>>

\* What a line adds to the result.
Parsed(line) ==
    CASE line.kind = "info" -> [res EXCEPT !.score = line.of]
      [] line.kind = "bestmove" -> [res EXCEPT !.best = line.of, !.full = line.full]
      [] OTHER -> res

\* readSearch, the case of a line; chosen at random when the context is done too.
ReadLine(c) ==
    /\ handler[c] = "search" /\ lines # <<>>
    /\ lines' = Tail(lines)
    /\ res' = Parsed(Head(lines))
    /\ IF Head(lines).kind = "bestmove"
       THEN Return(c, res')
       ELSE UNCHANGED <<handler, response, holder>>
    /\ UNCHANGED <<clientVars, cancelled, book, stopped, stdin, process>>

\* Mutants: the call leaves its search behind; it waits without stopping it.
LeaveSearch(c) ==
    /\ handler[c] = "search" /\ c \in cancelled
    /\ Return(c, None)
    /\ UNCHANGED <<clientVars, res, stopped, cancelled, book, stdin, lines, process>>
WaitOnly(c) ==
    /\ handler[c] = "search" /\ c \in cancelled
    /\ handler' = [handler EXCEPT ![c] = "drain"]
    /\ UNCHANGED <<clientVars, response, holder, res, stopped, cancelled, book, stdin,
                   lines, process>>

\* readSearch, the case of a context that is done: "stop" once, then one line.
Stop(c) ==
    /\ handler[c] = "search" /\ c \in cancelled
    /\ handler' = [handler EXCEPT ![c] = "drain"]
    /\ stopped' = TRUE
    /\ IF stopped THEN UNCHANGED stdin ELSE Send(<<Cmd("stop", None)>>)
    /\ UNCHANGED <<clientVars, response, holder, res, cancelled, book, lines, process>>

Drain(c) ==
    /\ handler[c] = "drain" /\ lines # <<>>
    /\ lines' = Tail(lines)
    /\ IF Head(lines).kind = "bestmove"
       THEN Return(c, None)
       ELSE /\ handler' = [handler EXCEPT ![c] = "search"]
            /\ UNCHANGED <<response, holder>>
    /\ UNCHANGED <<clientVars, cancelled, book, res, stopped, stdin, process>>

\* The channel of lines is closed once the process is dead and all is read.
Closed(c) ==
    /\ handler[c] \in {"ready", "search", "drain"} /\ lines = <<>> /\ ~process.alive
    /\ Return(c, None)
    /\ UNCHANGED <<clientVars, cancelled, book, res, stopped, stdin, lines, process>>

(***************************************************************************)
(* The process.                                                            *)
(***************************************************************************)

EngineReads ==
    /\ process.alive /\ stdin # <<>>
    /\ Head(stdin).kind = "go" => process.search = None
    /\ stdin' = Tail(stdin)
    /\ CASE Head(stdin).kind = "isready" ->
              /\ lines' = Append(lines, Line("readyok", None, TRUE))
              /\ UNCHANGED process
         [] Head(stdin).kind = "position" ->
              /\ process' = [process EXCEPT !.position = Head(stdin).of]
              /\ UNCHANGED lines
         [] Head(stdin).kind = "go" ->
              /\ process' = [process EXCEPT !.search = process.position, !.infos = 0]
              /\ UNCHANGED lines
         [] Head(stdin).kind = "stop" ->
              /\ process' = [process EXCEPT !.search = None]
              /\ lines' = IF process.search = None THEN lines
                          ELSE Append(lines, Line("bestmove", process.search, FALSE))
    /\ UNCHANGED <<clientVars, handlerVars, cancelled, book>>

EngineInfo ==
    /\ process.alive /\ process.search # None /\ process.infos < MaxInfo
    /\ process' = [process EXCEPT !.infos = @ + 1]
    /\ lines' = Append(lines, Line("info", process.search, TRUE))
    /\ UNCHANGED <<clientVars, handlerVars, cancelled, book, stdin>>

EngineEnds ==
    /\ process.alive /\ process.search # None
    /\ process' = [process EXCEPT !.search = None]
    /\ lines' = Append(lines, Line("bestmove", process.search, TRUE))
    /\ UNCHANGED <<clientVars, handlerVars, cancelled, book, stdin>>

EngineDies ==
    /\ process.alive /\ MaxDeaths > 0
    /\ process' = [process EXCEPT !.alive = FALSE, !.search = None]
    /\ stdin' = <<>>
    /\ UNCHANGED <<clientVars, handlerVars, cancelled, book, lines>>

Handler(c) ==
    Handle(c) \/ Lock(c) \/ Ready(c) \/ ReadLine(c) \/ Stop(c) \/ Drain(c) \/ Closed(c)

Next ==
    \/ \E c \in Calls :
          Hit(c) \/ Ask(c) \/ Receive(c) \/ GiveUp(c) \/ ContextDone(c) \/ Handler(c)
    \/ EngineReads \/ EngineInfo \/ EngineEnds \/ EngineDies

Spec == Init /\ [][Next]_vars

\* Handlers run, deadlines pass and are passed on, and the process reads what it
\* is sent.  A search need not end by itself in any given time.  ReadLine and Stop
\* are alternatives of one select, which takes either.
FairSpec ==
    /\ Spec
    /\ WF_vars(EngineReads)
    /\ \A c \in Calls : WF_vars(Handler(c)) /\ WF_vars(GiveUp(c)) /\ WF_vars(ContextDone(c))

(***************************************************************************)
(* Properties.                                                             *)
(***************************************************************************)

\* What a caller is given is about the position it asked about, best move and
\* score, and comes from a search that was not cut short, or from the book for a
\* caller that allows it: nothing is left in the stream by a call that was
\* cancelled, and no result of a stopped search gets out (Engine.readSearch).
AnswerIsOwn ==
    \A c \in Calls : answer[c] # None =>
        /\ answer[c].best = Fen[c] /\ answer[c].score \in {Fen[c], None}
        /\ answer[c].full
        /\ answer[c].fromBook => c \in Play

\* The cache holds for a position what a whole search of it found, never a move of
\* the book, which has no score (Client.analyze).
CacheIsSound ==
    \A p \in Positions : cache[p] # None =>
        cache[p].best = p /\ cache[p].full /\ ~cache[p].fromBook

\* A call that reaches the engine returns, however long a search would take and
\* whoever holds the mutex when the process dies: nobody waits for ever.
EveryCallReturns ==
    \A c \in Calls : handler[c] = "lock" ~> handler[c] = "returned"
=============================================================================
