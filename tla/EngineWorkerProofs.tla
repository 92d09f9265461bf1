-------------------------- MODULE EngineWorkerProofs --------------------------
(***************************************************************************)
(* Proofs that the engine worker answers every call about its own position *)
(* and keeps its cache sound, for every number of callers and positions,   *)
(* every length of search and any moment of the process's death.           *)
(***************************************************************************)
EXTENDS EngineWorker, TLAPS

-----------------------------------------------------------------------------
(* The inductive invariant. *)

Cmds == [kind : {"isready", "position", "go", "stop"}, of : Positions \cup {None}]
Lines == [kind : {"readyok", "info", "bestmove"}, of : Positions \cup {None}, full : BOOLEAN]
Evals == [best : Positions \cup {None}, score : Positions \cup {None},
          full : BOOLEAN, fromBook : BOOLEAN]
Processes == [alive : BOOLEAN, position : Positions \cup {None},
              search : Positions \cup {None}, infos : Nat]

TypeOK ==
    /\ client \in [Calls -> {"idle", "sent", "done", "failed"}]
    /\ answer \in [Calls -> Evals \cup {None}]
    /\ cache \in [Positions -> Evals \cup {None}]
    /\ handler \in [Calls -> {"none", "called", "lock", "ready", "search", "drain", "returned"}]
    /\ response \in [Calls -> Evals \cup {None}]
    /\ cancelled \subseteq Calls
    /\ holder \in Calls \cup {None}
    /\ res \in Evals
    /\ stopped \in BOOLEAN
    /\ stdin \in Seq(Cmds)
    /\ lines \in Seq(Lines)
    /\ process \in Processes

\* The mutex is held by the one handler that talks to the process.
Locked == \A c \in Calls : handler[c] \in {"ready", "search", "drain"} <=> holder = c

\* A call that was not made has no handler.
Unasked == \A c \in Calls : client[c] = "idle" => handler[c] = "none"

\* The caller of a handler whose context is done has gone.
GoneFirst == \A c \in cancelled : client[c] = "failed"

\* Somebody has sent "go" and has not yet read its "bestmove".
Searching == holder # None /\ handler[holder] \in {"search", "drain"}

\* A search is stopped for a caller that has gone.
StopJust == Searching /\ stopped => holder \in cancelled

\* The process is dead: it reads and searches no more.
DeadQuiet == ~process.alive => process.search = None /\ stdin = <<>>

\* Between searches nothing of one is left on the way to or from the process.
BetweenQuiet ==
    ~Searching =>
        /\ process.search = None
        /\ \A i \in DOMAIN stdin : stdin[i].kind \in {"isready", "stop"}
        /\ \A i \in DOMAIN lines : lines[i].kind = "readyok"

\* Who asks whether the process is ready gets one answer, and leaves neither the
\* question nor the answer behind.
Asks(i) == i \in DOMAIN stdin /\ stdin[i].kind = "isready"
Handshake ==
    /\ holder = None => lines = <<>>
    /\ holder = None \/ Searching => \A i \in DOMAIN stdin : ~Asks(i)
    /\ ~Searching =>
           /\ Len(lines) <= 1
           /\ \A i \in DOMAIN stdin : Asks(i) =>
                  lines = <<>> /\ \A j \in DOMAIN stdin : Asks(j) => i = j

\* During one everything on the way is about the holder's position.  A "go" comes
\* right behind its "position".
OwnSearch ==
    Searching =>
        /\ process.search \in {None, Fen[holder]}
        /\ \A i \in DOMAIN stdin :
               /\ stdin[i].kind = "position" =>
                      /\ stdin[i].of = Fen[holder]
                      /\ i + 1 \in DOMAIN stdin /\ stdin[i + 1].kind = "go"
               /\ stdin[i].kind = "go" =>
                      IF i = 1 THEN process.position = Fen[holder]
                               ELSE stdin[i - 1].kind = "position"
        /\ \A i \in DOMAIN lines :
               lines[i].kind # "readyok" => lines[i].of = Fen[holder] /\ (lines[i].full \/ stopped)
        /\ res.score \in {None, Fen[holder]} /\ ~res.fromBook

\* The holder's search is yet to begin, under way or over, and its "bestmove" is
\* the last line of all.
OneSearch ==
    Searching =>
        /\ \A i \in DOMAIN stdin : stdin[i].kind = "go" =>
               /\ process.search = None
               /\ \A j \in DOMAIN stdin : stdin[j].kind = "go" => i = j
               /\ \A j \in DOMAIN lines : lines[j].kind # "bestmove"
        /\ \A j \in DOMAIN lines : lines[j].kind = "bestmove" =>
               process.search = None /\ j = Len(lines)

\* A "stop" that will cut the holder's search short was sent for it, not left
\* behind by an earlier call.
StopOwn ==
    Searching =>
        \A j \in DOMAIN stdin : stdin[j].kind = "stop" =>
            /\ process.search # None => stopped
            /\ \A i \in DOMAIN stdin : stdin[i].kind = "go" /\ i < j => stopped

\* An evaluation of position p fit for caller c, whole or not.
About(e, p) == e.best = p /\ e.score \in {p, None}

\* What a handler has returned: only a caller that has gone is given less than a
\* whole search.
ResponseOwn ==
    \A c \in Calls : response[c] # None =>
        /\ About(response[c], Fen[c])
        /\ response[c].full \/ client[c] = "failed"
        /\ response[c].fromBook => c \in Play

CacheOwn ==
    \A p \in Positions : cache[p] # None =>
        About(cache[p], p) /\ cache[p].full /\ ~cache[p].fromBook

StreamInv == DeadQuiet /\ BetweenQuiet /\ Handshake /\ OwnSearch /\ OneSearch /\ StopOwn

IInv ==
    /\ TypeOK /\ Locked /\ Unasked /\ GoneFirst /\ StopJust /\ StreamInv
    /\ ResponseOwn /\ CacheOwn /\ AnswerIsOwn

-----------------------------------------------------------------------------
(* Facts about the two streams and the mutex. *)

\* Reading the head of a stream.
LEMMA StreamTail ==
    ASSUME NEW S, NEW q \in Seq(S), q # <<>>
    PROVE  /\ Head(q) \in S /\ Head(q) = q[1] /\ 1 \in DOMAIN q
           /\ Tail(q) \in Seq(S) /\ Len(Tail(q)) = Len(q) - 1
           /\ \A i \in DOMAIN Tail(q) :
                  /\ i \in Nat \ {0} /\ i + 1 \in DOMAIN q
                  /\ Tail(q)[i] = q[i + 1] /\ Tail(q)[i] \in S
           /\ \A i \in DOMAIN q : i # 1 => i - 1 \in DOMAIN Tail(q)
  OBVIOUS

\* Writing one element to a stream.
LEMMA StreamAppend ==
    ASSUME NEW S, NEW q \in Seq(S), NEW x \in S
    PROVE  /\ Append(q, x) \in Seq(S) /\ q \o <<x>> = Append(q, x)
           /\ Len(Append(q, x)) = Len(q) + 1
           /\ \A i \in DOMAIN q : i \in DOMAIN Append(q, x) /\ Append(q, x)[i] = q[i] /\ i <= Len(q)
           /\ \A i \in DOMAIN Append(q, x) :
                  \/ i \in DOMAIN q /\ Append(q, x)[i] = q[i]
                  \/ i = Len(q) + 1 /\ Append(q, x)[i] = x
  OBVIOUS

\* Writing two.
LEMMA StreamAppendTwo ==
    ASSUME NEW S, NEW q \in Seq(S), NEW x \in S, NEW y \in S
    PROVE  /\ q \o <<x, y>> \in Seq(S) /\ Len(q \o <<x, y>>) = Len(q) + 2
           /\ \A i \in DOMAIN (q \o <<x, y>>) :
                  \/ i \in DOMAIN q /\ i <= Len(q) /\ (q \o <<x, y>>)[i] = q[i]
                  \/ i = Len(q) + 1 /\ (q \o <<x, y>>)[i] = x
                  \/ i = Len(q) + 2 /\ (q \o <<x, y>>)[i] = y
           /\ Len(q) + 1 \in DOMAIN (q \o <<x, y>>)
           /\ Len(q) + 2 \in DOMAIN (q \o <<x, y>>)
  OBVIOUS

LEMMA CmdType ==
    ASSUME NEW k \in {"isready", "position", "go", "stop"}, NEW p \in Positions \cup {None}
    PROVE  Cmd(k, p) \in Cmds /\ Cmd(k, p).kind = k /\ Cmd(k, p).of = p
  BY DEF Cmd, Cmds

\* What reading a line makes of a result.
LEMMA ParsedType ==
    ASSUME TypeOK, NEW line \in Lines
    PROVE  /\ Parsed(line) \in Evals /\ Parsed(line).fromBook = res.fromBook
           /\ line.kind = "readyok" => Parsed(line) = res
           /\ line.kind = "info" => Parsed(line).score = line.of
           /\ line.kind # "info" => Parsed(line).score = res.score
           /\ line.kind = "bestmove" => Parsed(line).best = line.of /\ Parsed(line).full = line.full
  BY DEF TypeOK, Parsed, Lines, Evals

LEMMA InitInv == Init => IInv
  <1> SUFFICES ASSUME Init PROVE IInv
    OBVIOUS
  <1>1. NoResult \in Evals
    BY DEF NoResult, Eval, Evals
  <1>6. process \in Processes
    BY DEF Init, Processes
  <1>2. TypeOK
    <2>1. /\ client \in [Calls -> {"idle", "sent", "done", "failed"}]
          /\ answer \in [Calls -> Evals \cup {None}] /\ cache \in [Positions -> Evals \cup {None}]
          /\ handler \in [Calls -> {"none", "called", "lock", "ready", "search", "drain", "returned"}]
          /\ response \in [Calls -> Evals \cup {None}]
      BY DEF Init
    <2>2. cancelled \subseteq Calls /\ holder \in Calls \cup {None} /\ res \in Evals /\ stopped \in BOOLEAN
      BY <1>1 DEF Init
    <2>3. stdin \in Seq(Cmds) /\ lines \in Seq(Lines)
      BY DEF Init
    <2> QED
      BY <1>6, <2>1, <2>2, <2>3 DEF TypeOK
  <1>3. ~Searching
    BY DEF Init, Searching
  <1>4. Locked /\ Unasked /\ GoneFirst /\ StopJust
    BY <1>3, EngineWorkerAssumption DEF Init, Locked, Unasked, GoneFirst, StopJust
  <1>5. StreamInv
    BY <1>3 DEF Init, StreamInv, DeadQuiet, BetweenQuiet, Handshake, Asks, OwnSearch, OneSearch, StopOwn
  <1> QED
    BY <1>2, <1>4, <1>5 DEF Init, IInv, ResponseOwn, CacheOwn, AnswerIsOwn

LEMMA TypeStep ==
    ASSUME TypeOK, [Next]_vars
    PROVE  TypeOK'
  <1> USE EngineWorkerAssumption
  <1>0. NoResult \in Evals
    BY DEF NoResult, Eval, Evals
  <1>1. ASSUME NEW c \in Calls, Hit(c) \/ Ask(c) \/ Receive(c) \/ GiveUp(c) \/ ContextDone(c)
        PROVE  TypeOK'
    <2>1. CASE Hit(c)
      BY <2>1 DEF TypeOK, Hit, handlerVars
    <2>2. CASE Ask(c)
      BY <2>2 DEF TypeOK, Ask
    <2>3. CASE Receive(c)
      BY <2>3 DEF TypeOK, Receive, handlerVars
    <2>4. CASE GiveUp(c)
      BY <2>4 DEF TypeOK, GiveUp, handlerVars
    <2>5. CASE ContextDone(c)
      BY <2>5 DEF TypeOK, ContextDone, clientVars, handlerVars
    <2> QED
      BY <1>1, <2>1, <2>2, <2>3, <2>4, <2>5
  <1>2. ASSUME NEW c \in Calls, Handle(c) PROVE TypeOK'
    <2>1. Eval(Fen[c], None, TRUE, TRUE) \in Evals
      BY DEF Eval, Evals
    <2>2. CASE c \in Play /\ Fen[c] \in book
      <3>1. \E r \in Evals : Return(c, r)
        BY <1>2, <2>1, <2>2 DEF Handle, Eval
      <3> QED
        BY <1>2, <3>1 DEF TypeOK, Handle, Return, clientVars
    <2>3. CASE ~(c \in Play /\ Fen[c] \in book)
      BY <1>2, <2>3 DEF TypeOK, Handle, clientVars
    <2> QED
      BY <2>2, <2>3
  <1>3. ASSUME NEW c \in Calls, Lock(c) PROVE TypeOK'
    <2>1. stdin \o <<Cmd("isready", None)>> \in Seq(Cmds)
      BY CmdType, StreamAppend DEF TypeOK
    <2> QED
      BY <1>3, <2>1 DEF TypeOK, Lock, Return, Send, clientVars
  <1>4. ASSUME NEW c \in Calls, Ready(c) PROVE TypeOK'
    <2>1. stdin \o <<Cmd("position", Fen[c]), Cmd("go", None)>> \in Seq(Cmds)
      BY CmdType, StreamAppendTwo DEF TypeOK
    <2>2. Tail(lines) \in Seq(Lines)
      BY <1>4, StreamTail DEF TypeOK, Ready
    <2> QED
      BY <1>0, <1>4, <2>1, <2>2 DEF TypeOK, Ready, Return, Send, clientVars, handlerVars
  <1>5. ASSUME NEW c \in Calls, ReadLine(c) PROVE TypeOK'
    <2>1. Tail(lines) \in Seq(Lines) /\ Head(lines) \in Lines
      BY <1>5, StreamTail DEF TypeOK, ReadLine
    <2>2. res' \in Evals
      BY <1>5, <2>1, ParsedType DEF ReadLine
    <2>3. /\ handler' \in [Calls -> {"none", "called", "lock", "ready", "search", "drain", "returned"}]
          /\ response' \in [Calls -> Evals \cup {None}] /\ holder' \in Calls \cup {None}
      <3>1. UNCHANGED <<handler, response, holder>> \/ Return(c, res')
        BY <1>5 DEF ReadLine
      <3>2. res' \in Evals \cup {None}
        BY <2>2
      <3> HIDE <1>5
      <3> QED
        BY <3>1, <3>2 DEF TypeOK, Return
    <2> QED
      BY <1>5, <2>1, <2>2, <2>3 DEF TypeOK, ReadLine, clientVars
  <1>6. ASSUME NEW c \in Calls, Stop(c) PROVE TypeOK'
    <2>1. stdin \o <<Cmd("stop", None)>> \in Seq(Cmds)
      BY CmdType, StreamAppend DEF TypeOK
    <2> QED
      BY <1>6, <2>1 DEF TypeOK, Stop, Send, clientVars
  <1>7. ASSUME NEW c \in Calls, Drain(c) PROVE TypeOK'
    <2>1. Tail(lines) \in Seq(Lines)
      BY <1>7, StreamTail DEF TypeOK, Drain
    <2> QED
      BY <1>7, <2>1 DEF TypeOK, Drain, Return, clientVars
  <1>12. ASSUME NEW c \in Calls, Closed(c) PROVE TypeOK'
    BY <1>12 DEF TypeOK, Closed, Return, clientVars
  <1>8. CASE EngineReads
    <2>1. Tail(stdin) \in Seq(Cmds) /\ Head(stdin) \in Cmds
      BY <1>8, StreamTail DEF TypeOK, EngineReads
    <2>2. process.search \in Positions \cup {None} /\ lines \in Seq(Lines)
      BY DEF TypeOK, Processes
    <2>3. /\ Append(lines, Line("readyok", None, TRUE)) \in Seq(Lines)
          /\ Append(lines, Line("bestmove", process.search, FALSE)) \in Seq(Lines)
      <3>1. /\ Line("readyok", None, TRUE) \in Lines
            /\ Line("bestmove", process.search, FALSE) \in Lines
        BY <2>2 DEF Line, Lines
      <3> QED
        BY <2>2, <3>1, StreamAppend DEF Line
    <2>4. lines' \in Seq(Lines)
      BY <1>8, <2>1, <2>2, <2>3 DEF EngineReads, Cmds
    <2>5. process' \in Processes
      <3>1. Head(stdin).of \in Positions \cup {None} /\ process \in Processes
        BY <2>1 DEF Cmds, TypeOK
      <3>2. /\ [process EXCEPT !.position = Head(stdin).of] \in Processes
            /\ [process EXCEPT !.search = process.position, !.infos = 0] \in Processes
            /\ [process EXCEPT !.search = None] \in Processes
        BY <3>1 DEF Processes
      <3> QED
        BY <1>8, <2>1, <3>1, <3>2 DEF EngineReads, Cmds
    <2> QED
      BY <1>8, <2>1, <2>4, <2>5 DEF TypeOK, EngineReads, clientVars, handlerVars
  <1>9. CASE EngineInfo \/ EngineEnds
    <2>1. process.search \in Positions \cup {None} /\ lines \in Seq(Lines) /\ process \in Processes
      BY DEF TypeOK, Processes
    <2>2. /\ Append(lines, Line("info", process.search, TRUE)) \in Seq(Lines)
          /\ Append(lines, Line("bestmove", process.search, TRUE)) \in Seq(Lines)
      <3>1. /\ Line("info", process.search, TRUE) \in Lines
            /\ Line("bestmove", process.search, TRUE) \in Lines
        BY <2>1 DEF Line, Lines
      <3> QED
        BY <2>1, <3>1, StreamAppend DEF Line
    <2>3. /\ [process EXCEPT !.infos = @ + 1] \in Processes
          /\ [process EXCEPT !.search = None] \in Processes
      BY <2>1 DEF Processes
    <2> QED
      BY <1>9, <2>2, <2>3 DEF TypeOK, EngineInfo, EngineEnds, clientVars, handlerVars
  <1>10. CASE EngineDies
    <2>1. [process EXCEPT !.alive = FALSE, !.search = None] \in Processes
      BY DEF TypeOK, Processes
    <2> QED
      BY <1>10, <2>1 DEF TypeOK, EngineDies, clientVars, handlerVars
  <1>11. CASE UNCHANGED vars
    BY <1>11 DEF TypeOK, vars, clientVars, handlerVars
  <1> QED
    BY <1>1, <1>2, <1>3, <1>4, <1>5, <1>6, <1>7, <1>8, <1>9, <1>10, <1>11, <1>12 DEF Next, Handler

-----------------------------------------------------------------------------
(* The mutex and the calls. *)

\* A handler that returns gives the mutex back, and only then does it change hands.
LEMMA ReturnUnlocks ==
    ASSUME TypeOK, Locked, NEW c \in Calls, NEW r, Return(c, r)
    PROVE  /\ Locked'
           /\ Searching' => Searching /\ holder' = holder /\ holder # c
           /\ handler[c] \notin {"ready", "search", "drain"} => (Searching' <=> Searching) /\ holder' = holder
           /\ handler[c] \in {"ready", "search", "drain"} => holder' = None
  BY EngineWorkerAssumption DEF TypeOK, Locked, Return, Searching

MutexInv == Locked /\ Unasked /\ GoneFirst /\ StopJust

LEMMA MutexStep ==
    ASSUME TypeOK, MutexInv, [Next]_vars
    PROVE  MutexInv'
  <1> USE EngineWorkerAssumption
  <1>0. Locked /\ Unasked /\ GoneFirst /\ StopJust
    BY DEF MutexInv
  <1>1. ASSUME NEW c \in Calls, Hit(c) \/ Receive(c) \/ GiveUp(c) \/ ContextDone(c)
        PROVE  MutexInv'
    BY <1>0, <1>1 DEF TypeOK, MutexInv, Locked, Unasked, GoneFirst, StopJust, Searching,
       Hit, Receive, GiveUp, ContextDone, handlerVars, clientVars
  <1>2. ASSUME NEW c \in Calls, Ask(c) PROVE MutexInv'
    BY <1>0, <1>2 DEF TypeOK, MutexInv, Locked, Unasked, GoneFirst, StopJust, Searching, Ask
  <1>3. ASSUME NEW c \in Calls, NEW r, Return(c, r), handler[c] # "none",
               UNCHANGED <<client, cancelled>>, Searching' => stopped' = stopped
        PROVE  MutexInv'
    <2>1. Locked' /\ (Searching' => Searching /\ holder' = holder)
      BY <1>0, <1>3, ReturnUnlocks
    <2>2. StopJust'
      BY <1>0, <1>3, <2>1 DEF StopJust
    <2>3. Unasked' /\ GoneFirst'
      BY <1>0, <1>3 DEF Unasked, GoneFirst, Return, TypeOK
    <2> QED
      BY <2>1, <2>2, <2>3 DEF MutexInv
  <1>4. ASSUME NEW c \in Calls, Handler(c),
               UNCHANGED <<handler, response, holder>> /\ stopped' = stopped
        PROVE  MutexInv'
    <2>1. UNCHANGED <<client, cancelled>>
      BY <1>4 DEF Handler, Handle, Lock, Ready, ReadLine, Stop, Drain, Closed, clientVars
    <2> QED
      BY <1>0, <1>4, <2>1 DEF MutexInv, Locked, Unasked, GoneFirst, StopJust, Searching
  <1>5. ASSUME NEW c \in Calls, NEW h \in {"lock", "ready", "search", "drain"},
               handler' = [handler EXCEPT ![c] = h], UNCHANGED <<client, cancelled>>,
               \/ /\ handler[c] = "called" /\ h = "lock" /\ UNCHANGED <<holder, stopped>>
               \/ /\ handler[c] = "lock" /\ h = "ready" /\ holder = None /\ holder' = c
               \/ /\ handler[c] = "ready" /\ h = "search" /\ holder' = holder /\ stopped' = FALSE
               \/ /\ handler[c] = "search" /\ h = "drain" /\ holder' = holder /\ c \in cancelled
               \/ /\ handler[c] = "drain" /\ h = "search" /\ UNCHANGED <<holder, stopped>>
        PROVE  MutexInv'
    BY <1>0, <1>5 DEF TypeOK, MutexInv, Locked, Unasked, GoneFirst, StopJust, Searching
  <1>6. ASSUME NEW c \in Calls, Handler(c) PROVE MutexInv'
    <2>1. CASE Handle(c)
      BY <1>3, <1>5, <2>1 DEF Handle, clientVars
    <2>2. CASE Lock(c)
      BY <1>3, <1>5, <2>2 DEF Lock, clientVars
    <2>3. CASE Ready(c)
      <3>1. CASE Return(c, None)
        <4>1. ~Searching'
          BY <1>0, <2>3, <3>1, ReturnUnlocks DEF Ready, Searching
        <4> QED
          BY <1>3, <2>3, <3>1, <4>1 DEF Ready, clientVars
      <3> QED
        BY <1>4, <1>5, <1>6, <2>3, <3>1 DEF Ready, handlerVars, clientVars
    <2>4. CASE ReadLine(c)
      <3>1. stopped' = stopped /\ UNCHANGED <<client, cancelled>> /\ handler[c] = "search"
        BY <2>4 DEF ReadLine, clientVars
      <3>2. UNCHANGED <<handler, response, holder>> \/ \E r : Return(c, r)
        BY <2>4 DEF ReadLine
      <3> QED
        BY <1>3, <1>4, <1>6, <3>1, <3>2
    <2>5. CASE Stop(c)
      BY <1>5, <2>5 DEF Stop, clientVars
    <2>6. CASE Drain(c)
      BY <1>3, <1>5, <2>6 DEF Drain, clientVars
    <2>7. CASE Closed(c)
      BY <1>3, <2>7 DEF Closed, clientVars
    <2> QED
      BY <1>6, <2>1, <2>2, <2>3, <2>4, <2>5, <2>6, <2>7 DEF Handler
  <1>7. CASE EngineReads \/ EngineInfo \/ EngineEnds \/ EngineDies \/ UNCHANGED vars
    <2>1. UNCHANGED <<client, handler, holder, cancelled, stopped>>
      BY <1>7 DEF EngineReads, EngineInfo, EngineEnds, EngineDies, vars, clientVars, handlerVars
    <2> QED
      BY <1>0, <2>1 DEF MutexInv, Locked, Unasked, GoneFirst, StopJust, Searching
  <1> QED
    BY <1>1, <1>2, <1>6, <1>7 DEF Next

CallsInv == ResponseOwn /\ CacheOwn /\ AnswerIsOwn

LEMMA CallsStep ==
    ASSUME TypeOK, MutexInv, OwnSearch, CallsInv, [Next]_vars
    PROVE  CallsInv'
  <1> USE EngineWorkerAssumption
  <1>0. ResponseOwn /\ CacheOwn /\ AnswerIsOwn /\ Locked /\ GoneFirst /\ StopJust
    BY DEF MutexInv, CallsInv
  <1>1. ASSUME NEW c \in Calls, Hit(c) PROVE CallsInv'
    BY <1>0, <1>1 DEF TypeOK, CallsInv, ResponseOwn, CacheOwn, AnswerIsOwn, About,
       Hit, Cacheable, handlerVars
  <1>2. ASSUME NEW c \in Calls, Ask(c) \/ GiveUp(c) \/ ContextDone(c) PROVE CallsInv'
    BY <1>0, <1>2 DEF TypeOK, CallsInv, ResponseOwn, CacheOwn, AnswerIsOwn,
       Ask, GiveUp, ContextDone, handlerVars, clientVars
  <1>3. ASSUME NEW c \in Calls, Receive(c) PROVE CallsInv'
    <2>1. UNCHANGED response /\ client[c] = "sent"
      BY <1>3 DEF Receive, handlerVars
    <2>2. ResponseOwn'
      BY <1>0, <1>3, <2>1 DEF ResponseOwn, Receive, TypeOK
    <2>3. response[c] # None =>
             /\ About(response[c], Fen[c]) /\ response[c].full
             /\ response[c].fromBook => c \in Play
      BY <1>0, <2>1 DEF ResponseOwn
    <2>4. AnswerIsOwn'
      BY <1>0, <1>3, <2>3 DEF AnswerIsOwn, Receive, TypeOK, About
    <2>5. CacheOwn'
      BY <1>0, <1>3, <2>3 DEF CacheOwn, Receive, TypeOK, Cacheable
    <2> QED
      BY <2>2, <2>4, <2>5 DEF CallsInv
  <1>4. ASSUME NEW c \in Calls, NEW r, Return(c, r), UNCHANGED clientVars,
               r # None => /\ About(r, Fen[c])
                           /\ r.full \/ client[c] = "failed"
                           /\ r.fromBook => c \in Play
        PROVE  CallsInv'
    BY <1>0, <1>4 DEF TypeOK, CallsInv, ResponseOwn, CacheOwn, AnswerIsOwn, Return, clientVars
  <1>5. CASE UNCHANGED <<client, answer, cache, response>>
    BY <1>0, <1>5 DEF CallsInv, ResponseOwn, CacheOwn, AnswerIsOwn
  <1>6. ASSUME NEW c \in Calls, Handle(c) PROVE CallsInv'
    BY <1>4, <1>5, <1>6 DEF Handle, About, Eval, clientVars
  <1>7. ASSUME NEW c \in Calls, ReadLine(c) PROVE CallsInv'
    <2>1. UNCHANGED clientVars
      BY <1>7 DEF ReadLine
    <2>2. CASE Head(lines).kind # "bestmove"
      <3>1. response' = response
        BY <1>7, <2>2 DEF ReadLine
      <3> QED
        BY <1>5, <2>1, <3>1 DEF clientVars
    <2>3. CASE Head(lines).kind = "bestmove"
      <3>0. Return(c, res')
        BY <1>7, <2>3 DEF ReadLine
      <3>1. holder = c /\ Searching
        BY <1>0, <1>7 DEF Locked, ReadLine, Searching
      <3>2. Head(lines) \in Lines /\ Head(lines) = lines[1] /\ 1 \in DOMAIN lines
        BY <1>7, StreamTail DEF TypeOK, ReadLine
      <3>3. /\ Head(lines).of = Fen[c] /\ (Head(lines).full \/ stopped)
            /\ res.score \in {None, Fen[c]} /\ ~res.fromBook
        BY <2>3, <3>1, <3>2 DEF OwnSearch
      <3>4. stopped => client[c] = "failed"
        BY <1>0, <3>1 DEF StopJust, GoneFirst
      <3>5. /\ res'.best = Fen[c] /\ res'.score \in {None, Fen[c]}
            /\ res'.full = Head(lines).full /\ ~res'.fromBook
        BY <1>7, <2>3, <3>2, <3>3, ParsedType DEF ReadLine
      <3> QED
        BY <1>4, <2>1, <3>0, <3>3, <3>4, <3>5 DEF About
    <2> QED
      BY <2>2, <2>3
  <1>8. ASSUME NEW c \in Calls, Lock(c) \/ Ready(c) \/ Stop(c) \/ Drain(c) \/ Closed(c)
        PROVE  CallsInv'
    <2>1. UNCHANGED clientVars /\ (UNCHANGED response \/ Return(c, None))
      BY <1>8 DEF Lock, Ready, Stop, Drain, Closed, handlerVars
    <2> QED
      BY <1>4, <1>5, <2>1 DEF clientVars
  <1>9. CASE EngineReads \/ EngineInfo \/ EngineEnds \/ EngineDies \/ UNCHANGED vars
    BY <1>5, <1>9 DEF EngineReads, EngineInfo, EngineEnds, EngineDies, vars, clientVars, handlerVars
  <1> QED
    BY <1>1, <1>2, <1>3, <1>6, <1>7, <1>8, <1>9 DEF Next, Handler

-----------------------------------------------------------------------------
(* The streams. *)

\* A step that touches neither the streams nor the search in progress.
LEMMA StreamKept ==
    ASSUME StreamInv, UNCHANGED <<stdin, lines, process, res, holder>>, Searching' <=> Searching,
           Searching /\ stopped => stopped'
    PROVE  StreamInv'
  BY DEF StreamInv, DeadQuiet, Handshake, Asks, BetweenQuiet, OwnSearch, OneSearch, StopOwn

\* Nobody searches afterwards, and nothing of a search is on its way.
LEMMA StreamIdle ==
    ASSUME ~Searching', DeadQuiet', BetweenQuiet', Handshake'
    PROVE  StreamInv'
  BY DEF StreamInv, OwnSearch, OneSearch, StopOwn

\* The holder takes a line.
LEMMA StreamRead ==
    ASSUME TypeOK, Locked, StreamInv, lines # <<>>, lines' = Tail(lines),
           UNCHANGED <<stdin, process>>,
           NEW c \in Calls, holder = c, handler[c] \in {"search", "drain"}
    PROVE  /\ Head(lines).kind = "bestmove" /\ ~Searching' => StreamInv'
           /\ /\ Head(lines).kind # "bestmove" /\ Searching' /\ holder' = c
              /\ stopped' = stopped /\ res'.fromBook = res.fromBook
              /\ \/ res'.score = res.score
                 \/ Head(lines).kind = "info" /\ res'.score = Head(lines).of
              => StreamInv'
  <1> USE DEF StreamInv
  <1>1. Searching
    BY EngineWorkerAssumption DEF Searching
  <1>2. /\ Head(lines) \in Lines /\ Head(lines) = lines[1] /\ 1 \in DOMAIN lines
        /\ Tail(lines) \in Seq(Lines) /\ Len(Tail(lines)) = Len(lines) - 1
        /\ \A i \in DOMAIN Tail(lines) :
               /\ i \in Nat \ {0} /\ i + 1 \in DOMAIN lines /\ Tail(lines)[i] = lines[i + 1]
    BY StreamTail DEF TypeOK
  <1>3. ASSUME Head(lines).kind = "bestmove", ~Searching' PROVE StreamInv'
    <2>1. process.search = None /\ 1 = Len(lines)
      BY <1>1, <1>2, <1>3 DEF OneSearch
    <2>2. DOMAIN lines' = {}
      BY <1>2, <2>1
    <2>3. \A i \in DOMAIN stdin : stdin[i].kind # "go"
      BY <1>1, <1>2, <1>3 DEF OneSearch
    <2>4. \A i \in DOMAIN stdin : stdin[i].kind # "position"
      BY <1>1, <2>3 DEF OwnSearch
    <2>5. \A i \in DOMAIN stdin : stdin[i] \in Cmds
      BY DEF TypeOK
    <2>6. BetweenQuiet'
      BY <2>1, <2>2, <2>3, <2>4, <2>5 DEF BetweenQuiet, Cmds
    <2>7. DeadQuiet'
      BY DEF DeadQuiet
    <2>8. Handshake'
      <3>1. lines' = <<>>
        BY <1>2, <2>1
      <3>2. \A i \in DOMAIN stdin' : stdin'[i].kind # "isready"
        BY <1>1 DEF Handshake, Asks
      <3>3. Len(lines') <= 1
        BY <1>2, <2>1
      <3>4. \A i \in DOMAIN stdin' : ~(Asks(i)')
        BY <3>2 DEF Asks
      <3> HIDE DEF StreamInv
      <3> QED
        BY <3>1, <3>3, <3>4 DEF Handshake
    <2> QED
      BY <1>3, <2>6, <2>7, <2>8, StreamIdle
  <1>4. ASSUME Head(lines).kind # "bestmove", Searching', holder' = c,
               stopped' = stopped, res'.fromBook = res.fromBook,
               \/ res'.score = res.score
               \/ Head(lines).kind = "info" /\ res'.score = Head(lines).of
        PROVE  StreamInv'
    <2>1. DeadQuiet' /\ BetweenQuiet' /\ Handshake'
      BY <1>1, <1>4, EngineWorkerAssumption DEF DeadQuiet, BetweenQuiet, Handshake, Asks
    <2>2. StopOwn'
      BY <1>1, <1>4 DEF StopOwn
    <2>3. OneSearch'
      <3>1. \A j \in DOMAIN lines' : lines'[j].kind = "bestmove" =>
                /\ j + 1 \in DOMAIN lines /\ lines[j + 1].kind = "bestmove" /\ j \in Nat
        BY <1>2
      <3>2. \A j \in DOMAIN lines' : lines'[j].kind = "bestmove" =>
                process.search = None /\ j + 1 = Len(lines)
        BY <1>1, <3>1 DEF OneSearch
      <3>3. Len(lines) \in Nat
        BY DEF TypeOK
      <3> QED
        BY <1>1, <1>2, <3>1, <3>2, <3>3 DEF OneSearch
    <2>4. OwnSearch'
      <3>1. res'.score \in {None, Fen[c]} /\ ~res'.fromBook
        BY <1>1, <1>2, <1>4 DEF OwnSearch
      <3> QED
        BY <1>1, <1>2, <1>4, <3>1 DEF OwnSearch
    <2> QED
      BY <2>1, <2>2, <2>3, <2>4
  <1> QED
    BY <1>3, <1>4

\* A handler's step keeps the streams its own.
LEMMA StreamHandler ==
    ASSUME TypeOK, MutexInv, StreamInv, NEW c \in Calls, Handler(c)
    PROVE  StreamInv'
  <1> USE EngineWorkerAssumption
  <1>0. Locked /\ (handler[c] \in {"search", "drain"} => Searching /\ holder = c)
    BY DEF MutexInv, Locked, Searching
  <1>1. CASE Handle(c)
    <2>1. UNCHANGED <<stdin, lines, process, res, stopped>>
      BY <1>1 DEF Handle
    <2>2. (Searching' <=> Searching) /\ holder' = holder
      <3>1. CASE \E r : Return(c, r)
        BY <1>0, <1>1, <3>1, ReturnUnlocks DEF Handle
      <3>2. CASE handler' = [handler EXCEPT ![c] = "lock"] /\ holder' = holder
        BY <1>0, <1>1, <3>2 DEF Handle, Searching, TypeOK, Locked
      <3> QED
        BY <1>1, <3>1, <3>2 DEF Handle
    <2> QED
      BY <2>1, <2>2, StreamKept
  <1>2. CASE Lock(c)
    <2>1. ~Searching /\ ~Searching' /\ UNCHANGED <<lines, process>>
      BY <1>2 DEF Lock, Return, Searching, TypeOK
    <2>2. CASE ~process.alive
      <3>1. stdin' = stdin
        BY <1>2, <2>2 DEF Lock, Send
      <3> QED
        BY <1>2, <2>1, <3>1, StreamIdle DEF StreamInv, DeadQuiet, BetweenQuiet, Handshake, Asks, Lock
    <2>3. CASE process.alive
      <3>1. stdin' = stdin \o <<Cmd("isready", None)>> /\ Cmd("isready", None).kind = "isready"
        BY <1>2, <2>3, CmdType DEF Lock, Send
      <3>2. \A i \in DOMAIN stdin' :
               (i \in DOMAIN stdin /\ stdin'[i] = stdin[i]) \/ stdin'[i] = Cmd("isready", None)
        BY <3>1, CmdType, StreamAppend DEF TypeOK
      <3>3. BetweenQuiet'
        BY <2>1, <3>1, <3>2 DEF StreamInv, BetweenQuiet
      <3>4. Handshake'
        <4>1. holder = None /\ holder' = c /\ lines' = <<>>
          BY <1>2, <2>1, <2>3 DEF Lock, StreamInv, Handshake
        <4>2. \A i \in DOMAIN stdin' : Asks(i)' => i = Len(stdin) + 1
          BY <1>2, <3>1, CmdType, StreamAppend DEF TypeOK, Lock, StreamInv, Handshake, Asks
        <4> QED
          BY <2>1, <4>1, <4>2 DEF Handshake
      <3> QED
        BY <2>1, <2>3, <3>3, <3>4, StreamIdle DEF DeadQuiet
    <2> QED
      BY <2>2, <2>3
  <1>4. CASE ReadLine(c)
    <2>1. /\ handler[c] = "search" /\ lines # <<>> /\ lines' = Tail(lines)
          /\ UNCHANGED <<stdin, process, stopped>> /\ res' = Parsed(Head(lines))
      BY <1>4 DEF ReadLine
    <2>2. Head(lines) \in Lines
      BY <2>1, StreamTail DEF TypeOK
    <2>3. CASE Head(lines).kind = "bestmove"
      <3>1. Return(c, res')
        BY <1>4, <2>3 DEF ReadLine
      <3>2. ~Searching'
        BY <1>0, <2>1, <3>1, ReturnUnlocks DEF Searching
      <3> QED
        BY <1>0, <2>1, <2>3, <3>2, StreamRead
    <2>4. CASE Head(lines).kind # "bestmove"
      <3>1. UNCHANGED <<handler, holder>>
        BY <1>4, <2>4 DEF ReadLine
      <3>2. Searching' /\ holder' = c
        BY <1>0, <2>1, <3>1 DEF Searching
      <3>3. res'.fromBook = res.fromBook /\ (res'.score = res.score \/ (Head(lines).kind = "info" /\ res'.score = Head(lines).of))
        <4>1. Parsed(Head(lines)).fromBook = res.fromBook
          BY <2>2, ParsedType
        <4>2. \/ Parsed(Head(lines)).score = res.score
              \/ Head(lines).kind = "info" /\ Parsed(Head(lines)).score = Head(lines).of
          BY <2>2, ParsedType
        <4>3. res' = Parsed(Head(lines))
          BY <2>1
        <4>4. res'.fromBook = res.fromBook
          BY <4>1, <4>3
        <4>5. res'.score = res.score \/ (Head(lines).kind = "info" /\ res'.score = Head(lines).of)
          BY <4>2, <4>3
        <4> QED
          BY <4>4, <4>5
      <3> QED
        BY <1>0, <2>1, <2>4, <3>2, <3>3, StreamRead
    <2> QED
      BY <2>3, <2>4
  <1>6. CASE Drain(c)
    <2>1. /\ handler[c] = "drain" /\ lines # <<>> /\ lines' = Tail(lines)
          /\ UNCHANGED <<stdin, process, stopped, res>>
      BY <1>6 DEF Drain
    <2>3. CASE Head(lines).kind = "bestmove"
      <3>1. Return(c, None)
        BY <1>6, <2>3 DEF Drain
      <3>2. ~Searching'
        BY <1>0, <2>1, <3>1, ReturnUnlocks DEF Searching
      <3> QED
        BY <1>0, <2>1, <2>3, <3>2, StreamRead
    <2>4. CASE Head(lines).kind # "bestmove"
      <3>1. handler' = [handler EXCEPT ![c] = "search"] /\ holder' = holder
        BY <1>6, <2>4 DEF Drain
      <3>2. Searching' /\ holder' = c
        BY <1>0, <2>1, <3>1 DEF Searching, TypeOK
      <3> QED
        BY <1>0, <2>1, <2>4, <3>2, StreamRead
    <2> QED
      BY <2>3, <2>4
  <1>7. CASE Closed(c)
    <2>1. /\ handler[c] \in {"ready", "search", "drain"} /\ lines = <<>> /\ ~process.alive
          /\ Return(c, None) /\ UNCHANGED <<stdin, lines, process>>
      BY <1>7 DEF Closed
    <2>2. ~Searching'
      BY <1>0, <2>1, ReturnUnlocks DEF Searching
    <2>3. DeadQuiet' /\ BetweenQuiet' /\ Handshake'
      BY <2>1 DEF StreamInv, DeadQuiet, BetweenQuiet, Handshake, Asks
    <2> QED
      BY <2>2, <2>3, StreamIdle
  <1>3. CASE Ready(c)
    <2>1. handler[c] = "ready" /\ holder = c /\ ~Searching /\ lines # <<>> /\ lines' = Tail(lines) /\ process' = process
      BY <1>0, <1>3 DEF Ready, Searching, Locked
    <2>2. /\ process.search = None
          /\ \A i \in DOMAIN stdin : stdin[i].kind \in {"isready", "stop"}
          /\ \A i \in DOMAIN lines' : lines'[i].kind = "readyok"
      <3>1. \A i \in DOMAIN Tail(lines) : i + 1 \in DOMAIN lines /\ Tail(lines)[i] = lines[i + 1]
        BY <2>1, StreamTail DEF TypeOK
      <3> QED
        BY <2>1, <3>1 DEF StreamInv, BetweenQuiet
    <2>3. lines' = <<>> /\ Head(lines).kind = "readyok" /\ \A i \in DOMAIN stdin : ~Asks(i)
      <3>1. Len(lines) <= 1 /\ \A i \in DOMAIN stdin : ~Asks(i)
        BY <2>1 DEF StreamInv, Handshake
      <3>2. Head(lines) = lines[1] /\ 1 \in DOMAIN lines /\ Tail(lines) = <<>>
        BY <2>1, <3>1 DEF TypeOK
      <3> QED
        BY <2>1, <3>1, <3>2 DEF StreamInv, BetweenQuiet
    <2>5. CASE Head(lines).kind = "readyok" /\ ~process.alive
      <3>1. stdin' = stdin /\ Return(c, None)
        BY <1>3, <2>5 DEF Ready, Send
      <3>2. ~Searching'
        BY <1>0, <2>1, <3>1, ReturnUnlocks DEF Searching
      <3> QED
        BY <2>1, <2>2, <2>3, <3>1, <3>2, StreamIdle
        DEF StreamInv, DeadQuiet, BetweenQuiet, Handshake, Asks
    <2>6. CASE Head(lines).kind = "readyok" /\ process.alive
      <3> DEFINE P == Cmd("position", Fen[c])  G == Cmd("go", None)
      <3>1. /\ stdin' = stdin \o <<P, G>> /\ res' = NoResult /\ stopped' = FALSE
            /\ handler' = [handler EXCEPT ![c] = "search"] /\ holder' = holder
        BY <1>3, <2>6 DEF Ready, Send
      <3>2. /\ P \in Cmds /\ P.kind = "position" /\ P.of = Fen[c]
            /\ G \in Cmds /\ G.kind = "go"
        BY CmdType
      <3>3. holder' = c /\ Searching'
        BY <2>1, <3>1 DEF Searching, TypeOK
      <3>4. stdin \in Seq(Cmds) /\ Len(stdin) \in Nat
        BY DEF TypeOK
      <3> HIDE DEF P, G
      <3>5. /\ \A i \in DOMAIN stdin' :
                   \/ i \in DOMAIN stdin /\ i <= Len(stdin) /\ stdin'[i] = stdin[i]
                   \/ i = Len(stdin) + 1 /\ stdin'[i] = P
                   \/ i = Len(stdin) + 2 /\ stdin'[i] = G
            /\ Len(stdin) + 1 \in DOMAIN stdin' /\ Len(stdin) + 2 \in DOMAIN stdin'
        BY <3>1, <3>2, <3>4, StreamAppendTwo
      <3>6. /\ \A i \in DOMAIN stdin' : stdin'[i].kind = "go" => i = Len(stdin) + 2
            /\ \A i \in DOMAIN stdin' : stdin'[i].kind = "position" => i = Len(stdin) + 1 /\ stdin'[i] = P
            /\ \A i \in DOMAIN stdin' : stdin'[i].kind = "stop" => i <= Len(stdin)
            /\ stdin'[Len(stdin) + 1].kind = "position" /\ stdin'[Len(stdin) + 2].kind = "go"
        BY <2>2, <3>2, <3>4, <3>5, SMTT(20)
      <3>7. DeadQuiet' /\ BetweenQuiet'
        BY <2>1, <2>6, <3>3 DEF DeadQuiet, BetweenQuiet
      <3>8. OwnSearch'
        <4>1. res'.score = None /\ ~res'.fromBook
          BY <3>1 DEF NoResult, Eval
        <4>2. (Len(stdin) + 1) + 1 = Len(stdin) + 2 /\ (Len(stdin) + 2) - 1 = Len(stdin) + 1 /\ Len(stdin) + 2 # 1
          BY <3>4
        <4>3. \A i \in DOMAIN stdin' :
               /\ stdin'[i].kind = "position" =>
                      /\ stdin'[i].of = Fen[c]
                      /\ i + 1 \in DOMAIN stdin' /\ stdin'[i + 1].kind = "go"
               /\ stdin'[i].kind = "go" => i # 1 /\ stdin'[i - 1].kind = "position"
          BY <3>2, <3>5, <3>6, <4>2
        <4> QED
          BY <2>1, <2>2, <3>3, <4>1, <4>3 DEF OwnSearch
      <3>9. OneSearch'
        BY <2>1, <2>2, <3>3, <3>6 DEF OneSearch
      <3>10. StopOwn'
        <4>1. \A i, j \in DOMAIN stdin' : stdin'[j].kind = "stop" /\ stdin'[i].kind = "go" => ~(i < j)
          BY <3>4, <3>5, <3>6
        <4> QED
          BY <2>1, <2>2, <3>3, <4>1 DEF StopOwn
      <3>11. Handshake'
        BY <2>3, <3>2, <3>3, <3>5 DEF Handshake, Asks
      <3> QED
        BY <3>7, <3>8, <3>9, <3>10, <3>11 DEF StreamInv
    <2> QED
      BY <2>3, <2>5, <2>6
  <1>5. CASE Stop(c)
    <2>1. /\ handler[c] = "search" /\ handler' = [handler EXCEPT ![c] = "drain"] /\ stopped'
          /\ UNCHANGED <<holder, res, lines, process>>
      BY <1>5 DEF Stop
    <2>2. Searching /\ Searching' /\ holder = c /\ holder' = c
      BY <1>0, <2>1 DEF Searching, TypeOK
    <2>3. CASE stdin' = stdin
      BY <2>1, <2>2, <2>3, StreamKept
    <2>4. CASE stdin' = stdin \o <<Cmd("stop", None)>> /\ process.alive
      <3> DEFINE S == Cmd("stop", None)
      <3>1. S \in Cmds /\ S.kind = "stop" /\ stdin \in Seq(Cmds) /\ Len(stdin) \in Nat
        BY CmdType DEF TypeOK
      <3> HIDE DEF S
      <3>2. stdin' = Append(stdin, S)
        BY <2>4, <3>1, StreamAppend DEF S
      <3>3. /\ \A i \in DOMAIN stdin : i \in DOMAIN stdin' /\ stdin'[i] = stdin[i]
            /\ \A i \in DOMAIN stdin' : stdin'[i].kind # "stop" => i \in DOMAIN stdin /\ stdin'[i] = stdin[i]
            /\ \A i \in DOMAIN stdin' : i # 1 => i - 1 \in DOMAIN stdin
        BY <3>1, <3>2, StreamAppend
      <3>4. DeadQuiet' /\ BetweenQuiet' /\ StopOwn'
        BY <2>1, <2>2, <2>4 DEF DeadQuiet, BetweenQuiet, StopOwn
      <3>5. OwnSearch'
        BY <2>1, <2>2, <3>3 DEF StreamInv, OwnSearch
      <3>6. OneSearch'
        BY <2>1, <2>2, <3>3 DEF StreamInv, OneSearch
      <3>7. Handshake'
        BY <2>2, <3>1, <3>2, <3>3, StreamAppend DEF StreamInv, Handshake, Asks
      <3> QED
        BY <3>4, <3>5, <3>6, <3>7 DEF StreamInv
    <2> QED
      BY <1>5, <2>3, <2>4 DEF Stop, Send
  <1> QED
    BY <1>1, <1>2, <1>3, <1>4, <1>5, <1>6, <1>7 DEF Handler

\* The process appends to the lines what its search has found.
LEMMA StreamFound ==
    ASSUME TypeOK, StreamInv, process.alive, process.search # None, NEW x \in Lines,
           lines' = Append(lines, x), x.kind # "readyok", x.of = process.search,
           x.full \/ (Searching => stopped), x.kind = "bestmove" => process'.search = None,
           process'.search \in {None, process.search},
           process'.position = process.position, process'.alive = process.alive,
           stdin' = stdin \/ (stdin # <<>> /\ stdin[1].kind = "stop" /\ stdin' = Tail(stdin)),
           UNCHANGED <<handler, holder, stopped, res>>
    PROVE  StreamInv'
  <1> USE DEF StreamInv
  <1>1. Searching /\ Searching' /\ process.search = Fen[holder]
    BY DEF BetweenQuiet, Searching, OwnSearch
  <1>2. lines \in Seq(Lines) /\ stdin \in Seq(Cmds) /\ Len(lines) \in Nat
    BY DEF TypeOK
  <1>3. /\ Len(lines') = Len(lines) + 1
        /\ \A i \in DOMAIN lines' :
               \/ i \in DOMAIN lines /\ lines'[i] = lines[i]
               \/ i = Len(lines) + 1 /\ lines'[i] = x
    <2>1. /\ Len(Append(lines, x)) = Len(lines) + 1
          /\ \A i \in DOMAIN Append(lines, x) :
                 \/ i \in DOMAIN lines /\ Append(lines, x)[i] = lines[i]
                 \/ i = Len(lines) + 1 /\ Append(lines, x)[i] = x
      BY <1>2, StreamAppend
    <2> QED
      BY <2>1
  <1>4. \A i \in DOMAIN stdin' : \E j \in DOMAIN stdin : stdin'[i] = stdin[j] /\ i <= j
    <2>1. CASE stdin' = stdin
      BY <1>2, <2>1
    <2>2. CASE stdin # <<>> /\ stdin' = Tail(stdin)
      <3>1. \A i \in DOMAIN stdin' : i + 1 \in DOMAIN stdin /\ stdin'[i] = stdin[i + 1] /\ i <= i + 1
        BY <1>2, <2>2, StreamTail
      <3> QED
        BY <3>1
    <2> QED
      BY <2>1, <2>2
  <1>5. \A i \in DOMAIN stdin : stdin[i].kind \notin {"go", "position"}
    BY <1>1 DEF OneSearch, OwnSearch
  <1>6. \A i \in DOMAIN stdin' : stdin'[i].kind \notin {"go", "position"}
    BY <1>4, <1>5
  <1>7. DeadQuiet' /\ BetweenQuiet' /\ Handshake'
    BY <1>1, <1>4 DEF DeadQuiet, BetweenQuiet, Handshake, Asks, Searching
  <1>8. OwnSearch'
    BY <1>1, <1>3, <1>6 DEF OwnSearch
  <1>9. OneSearch'
    BY <1>1, <1>2, <1>3, <1>6 DEF OneSearch
  <1>10. StopOwn'
    BY <1>1, <1>4, <1>6 DEF StopOwn
  <1> QED
    BY <1>7, <1>8, <1>9, <1>10

\* The process reads a command.
LEMMA StreamCommand ==
    ASSUME TypeOK, StreamInv, EngineReads
    PROVE  StreamInv'
  <1> USE DEF StreamInv
  <1> DEFINE h == Head(stdin)
  <1>0. /\ stdin \in Seq(Cmds) /\ stdin # <<>> /\ stdin' = Tail(stdin) /\ process.alive
        /\ UNCHANGED <<handler, holder, stopped, res>>
    BY DEF TypeOK, EngineReads, handlerVars
  <1>1. /\ h \in Cmds /\ h = stdin[1] /\ 1 \in DOMAIN stdin
        /\ stdin' \in Seq(Cmds) /\ Len(stdin') = Len(stdin) - 1 /\ Len(stdin) \in Nat
        /\ \A i \in DOMAIN stdin' :
               i \in Nat \ {0} /\ i + 1 \in DOMAIN stdin /\ stdin'[i] = stdin[i + 1]
        /\ \A i \in DOMAIN stdin : i # 1 => i - 1 \in DOMAIN stdin'
    BY <1>0, StreamTail
  <1> HIDE DEF h
  <1>2. /\ (Searching' <=> Searching)
        /\ h.kind \in {"isready", "position", "go", "stop"}
    BY <1>0, <1>1 DEF Searching, Cmds
  <1>3. CASE ~Searching
    <2>1. h.kind \in {"isready", "stop"} /\ process.search = None
      BY <1>1, <1>3 DEF BetweenQuiet
    <2>2. CASE h.kind = "stop"
      <3>1. lines' = lines /\ process'.search = None /\ process'.alive = process.alive
        BY <2>1, <2>2 DEF EngineReads, h, TypeOK, Processes
      <3> QED
        BY <1>0, <1>1, <1>2, <1>3, <3>1, StreamIdle DEF BetweenQuiet, DeadQuiet, Handshake, Asks
    <2>3. CASE h.kind = "isready"
      <3>1. lines' = Append(lines, Line("readyok", None, TRUE)) /\ process' = process
        BY <2>3 DEF EngineReads, h
      <3>2. lines = <<>> /\ holder # None /\ \A j \in DOMAIN stdin : Asks(j) => j = 1
        BY <1>1, <1>3, <2>3 DEF Handshake, Asks
      <3>3. Len(lines') = 1 /\ \A i \in DOMAIN lines' : lines'[i].kind = "readyok"
        BY <3>1, <3>2 DEF Line
      <3>4. \A i \in DOMAIN stdin' : stdin'[i].kind = "stop"
        BY <1>1, <1>3, <3>2 DEF Asks, BetweenQuiet
      <3>5. Handshake'
        BY <1>0, <1>2, <1>3, <3>2, <3>3, <3>4 DEF Handshake, Asks
      <3>6. BetweenQuiet' /\ DeadQuiet'
        BY <1>0, <2>1, <3>1, <3>3, <3>4 DEF BetweenQuiet, DeadQuiet
      <3> QED
        BY <1>2, <1>3, <3>5, <3>6, StreamIdle
    <2> QED
      BY <2>1, <2>2, <2>3
  <1>4. CASE Searching
    <2>1. h.kind \in {"position", "go", "stop"} /\ \A i \in DOMAIN stdin' : stdin'[i].kind # "isready"
      BY <1>1, <1>2, <1>4 DEF Handshake, Asks
    <2>2. CASE h.kind = "stop" /\ process.search # None
      <3> DEFINE x == Line("bestmove", process.search, FALSE)
      <3>1. /\ lines' = Append(lines, x) /\ process' = [process EXCEPT !.search = None]
        BY <2>2 DEF EngineReads, h
      <3>2. x \in Lines /\ x.kind = "bestmove" /\ x.of = process.search
        BY DEF Line, Lines, TypeOK, Processes
      <3>3. stopped
        BY <1>1, <1>4, <2>2 DEF StopOwn
      <3>4. /\ process'.search = None /\ process'.position = process.position
            /\ process'.alive = process.alive
        BY <3>1 DEF TypeOK, Processes
      <3> HIDE DEF x
      <3> QED
        BY <1>0, <1>1, <2>2, <3>1, <3>2, <3>3, <3>4, StreamFound
    <2>3. ASSUME lines' = lines, process'.alive = process.alive, OwnSearch',
                 process'.search # None =>
                     /\ \A i \in DOMAIN stdin' : stdin'[i].kind # "go"
                     /\ \A j \in DOMAIN lines : lines[j].kind # "bestmove"
                     /\ \A i \in DOMAIN stdin' : stdin'[i].kind = "stop" => stopped
          PROVE  StreamInv'
      <3>1. DeadQuiet' /\ BetweenQuiet' /\ Handshake'
        BY <1>0, <1>2, <1>4, <2>1, <2>3 DEF DeadQuiet, BetweenQuiet, Handshake, Asks, Searching
      <3>2. OneSearch'
        <4>1. ASSUME NEW i \in DOMAIN stdin', stdin'[i].kind = "go"
              PROVE  /\ process'.search = None
                     /\ \A j \in DOMAIN stdin' : stdin'[j].kind = "go" => i = j
                     /\ \A j \in DOMAIN lines : lines[j].kind # "bestmove"
          BY <1>1, <1>4, <2>3, <4>1 DEF OneSearch
        <4>2. ASSUME NEW j \in DOMAIN lines, lines[j].kind = "bestmove"
              PROVE  process'.search = None /\ j = Len(lines)
          BY <1>4, <2>3, <4>2 DEF OneSearch
        <4> QED
          BY <1>2, <1>4, <2>3, <4>1, <4>2 DEF OneSearch
      <3>3. StopOwn'
        <4>1. ASSUME NEW j \in DOMAIN stdin', stdin'[j].kind = "stop",
                     NEW i \in DOMAIN stdin', stdin'[i].kind = "go", i < j
              PROVE  stopped
          BY <1>1, <1>4, <4>1 DEF StopOwn
        <4> QED
          BY <1>0, <1>2, <1>4, <2>3, <4>1 DEF StopOwn
      <3> QED
        BY <2>3, <3>1, <3>2, <3>3
    <2>4. CASE h.kind = "stop" /\ process.search = None
      <3>1. lines' = lines /\ process'.search = None /\ process'.alive = process.alive
            /\ process'.position = process.position
        BY <2>4 DEF EngineReads, h, TypeOK, Processes
      <3>2. OwnSearch'
        BY <1>0, <1>1, <1>2, <1>4, <2>4, <3>1 DEF OwnSearch
      <3> QED
        BY <2>3, <3>1, <3>2
    <2>5. CASE h.kind = "position"
      <3>1. /\ lines' = lines /\ process'.search = process.search /\ process'.alive = process.alive
            /\ process'.position = h.of /\ h.of = Fen[holder]
        <4>1. h.of = Fen[holder]
          BY <1>1, <1>4, <2>5 DEF OwnSearch
        <4>2. lines' = lines /\ process' = [process EXCEPT !.position = h.of]
          BY <2>5 DEF EngineReads, h
        <4> QED
          BY <4>1, <4>2 DEF TypeOK, Processes
      <3>2. 2 \in DOMAIN stdin /\ stdin[2].kind = "go" /\ process.search = None
        BY <1>1, <1>4, <2>5, SMTT(20) DEF OwnSearch, OneSearch
      <3>3. OwnSearch'
        <4>1. ASSUME NEW i \in DOMAIN stdin'
              PROVE  /\ stdin'[i].kind = "position" =>
                          /\ stdin'[i].of = Fen[holder]
                          /\ i + 1 \in DOMAIN stdin' /\ stdin'[i + 1].kind = "go"
                     /\ stdin'[i].kind = "go" => i = 1 \/ stdin'[i - 1].kind = "position"
          <5>1. i \in Nat \ {0} /\ i + 1 \in DOMAIN stdin /\ stdin'[i] = stdin[i + 1]
            BY <1>1
          <5>2. stdin[i + 1].kind = "position" =>
                    /\ stdin[i + 1].of = Fen[holder]
                    /\ i + 2 \in DOMAIN stdin /\ stdin[i + 2].kind = "go"
            BY <1>4, <5>1 DEF OwnSearch
          <5>3. i + 2 \in DOMAIN stdin => i + 1 \in DOMAIN stdin' /\ stdin'[i + 1] = stdin[i + 2]
            BY <1>1, <5>1
          <5>4. stdin[i + 1].kind = "go" => stdin[i].kind = "position"
            BY <1>4, <5>1 DEF OwnSearch
          <5>5. i # 1 => i - 1 \in DOMAIN stdin' /\ stdin'[i - 1] = stdin[i]
            BY <1>1, <5>1
          <5> QED
            BY <5>1, <5>2, <5>3, <5>4, <5>5
        <4> QED
          BY <1>0, <1>2, <1>4, <3>1, <3>2, <4>1 DEF OwnSearch
      <3> QED
        BY <2>3, <3>1, <3>2, <3>3
    <2>6. CASE h.kind = "go"
      <3>1. /\ lines' = lines /\ process'.search = process.position /\ process'.alive = process.alive
            /\ process.position = Fen[holder]
        <4>1. process.position = Fen[holder]
          BY <1>1, <1>4, <2>6 DEF OwnSearch
        <4>2. lines' = lines /\ process' = [process EXCEPT !.search = process.position, !.infos = 0]
          BY <2>6 DEF EngineReads, h
        <4> QED
          BY <4>1, <4>2 DEF TypeOK, Processes
      <3>2. /\ \A i \in DOMAIN stdin' : stdin'[i].kind # "go"
            /\ \A j \in DOMAIN lines : lines[j].kind # "bestmove"
        <4>1. \A i \in DOMAIN stdin' : i + 1 # 1
          BY <1>1
        <4>2. \A i \in DOMAIN stdin : stdin[i].kind = "go" => i = 1
          BY <1>1, <1>4, <2>6 DEF OneSearch
        <4>3. \A j \in DOMAIN lines : lines[j].kind # "bestmove"
          BY <1>1, <1>4, <2>6 DEF OneSearch
        <4> QED
          BY <1>1, <4>1, <4>2, <4>3
      <3>3. \A i \in DOMAIN stdin' : stdin'[i].kind = "stop" => stopped
        BY <1>1, <1>4, <2>6, SMTT(20) DEF StopOwn
      <3>4. OwnSearch'
        BY <1>0, <1>1, <1>2, <1>4, <2>6, <3>1, <3>2 DEF OwnSearch
      <3> QED
        BY <2>3, <3>1, <3>2, <3>3, <3>4
    <2> QED
      BY <2>1, <2>2, <2>4, <2>5, <2>6
  <1> QED
    BY <1>3, <1>4

LEMMA StreamStep ==
    ASSUME TypeOK, MutexInv, StreamInv, [Next]_vars
    PROVE  StreamInv'
  <1>1. ASSUME NEW c \in Calls, Hit(c) \/ Receive(c) \/ GiveUp(c) \/ ContextDone(c)
        PROVE  StreamInv'
    <2>1. UNCHANGED <<handler, holder, stopped, res, stdin, lines, process>>
      BY <1>1 DEF Hit, Receive, GiveUp, ContextDone, handlerVars
    <2> QED
      BY <2>1, StreamKept DEF Searching
  <1>2. ASSUME NEW c \in Calls, Ask(c) PROVE StreamInv'
    <2>1. UNCHANGED <<holder, stopped, res, stdin, lines, process>>
      BY <1>2 DEF Ask
    <2>2. Searching' <=> Searching
      BY <1>2 DEF Ask, Searching, MutexInv, Locked, Unasked, TypeOK
    <2> QED
      BY <2>1, <2>2, StreamKept
  <1>3. CASE EngineInfo
    <2> DEFINE x == Line("info", process.search, TRUE)
    <2>1. /\ lines' = Append(lines, x) /\ process' = [process EXCEPT !.infos = @ + 1]
          /\ process.alive /\ process.search # None
          /\ UNCHANGED <<handler, holder, stopped, res, stdin>>
      BY <1>3 DEF EngineInfo, handlerVars
    <2>2. x \in Lines /\ x.kind = "info" /\ x.of = process.search /\ x.full
      BY DEF Line, Lines, TypeOK, Processes
    <2>3. /\ process'.search = process.search /\ process'.position = process.position
          /\ process'.alive = process.alive
      BY <2>1 DEF TypeOK, Processes
    <2> HIDE DEF x
    <2> QED
      BY <2>1, <2>2, <2>3, StreamFound
  <1>4. CASE EngineEnds
    <2> DEFINE x == Line("bestmove", process.search, TRUE)
    <2>1. /\ lines' = Append(lines, x) /\ process' = [process EXCEPT !.search = None]
          /\ process.alive /\ process.search # None
          /\ UNCHANGED <<handler, holder, stopped, res, stdin>>
      BY <1>4 DEF EngineEnds, handlerVars
    <2>2. x \in Lines /\ x.kind = "bestmove" /\ x.of = process.search /\ x.full
      BY DEF Line, Lines, TypeOK, Processes
    <2>3. /\ process'.search = None /\ process'.position = process.position
          /\ process'.alive = process.alive
      BY <2>1 DEF TypeOK, Processes
    <2> HIDE DEF x
    <2> QED
      BY <2>1, <2>2, <2>3, StreamFound
  <1>5. CASE EngineDies
    <2>1. /\ process'.search = None /\ process'.alive = FALSE /\ stdin' = <<>>
          /\ UNCHANGED <<handler, holder, stopped, res, lines>>
      BY <1>5 DEF EngineDies, handlerVars, TypeOK, Processes
    <2>2. Searching' <=> Searching
      BY <2>1 DEF Searching
    <2>3. DOMAIN stdin' = {}
      BY <2>1
    <2> QED
      BY <2>1, <2>2, <2>3
      DEF StreamInv, DeadQuiet, BetweenQuiet, Handshake, Asks, OwnSearch, OneSearch, StopOwn
  <1>6. CASE UNCHANGED vars
    <2>1. UNCHANGED <<handler, holder, stopped, res, stdin, lines, process>>
      BY <1>6 DEF vars, handlerVars
    <2> QED
      BY <2>1, StreamKept DEF Searching
  <1> QED
    BY <1>1, <1>2, <1>3, <1>4, <1>5, <1>6, StreamHandler, StreamCommand DEF Next

-----------------------------------------------------------------------------
(* The theorems. *)

\* The inductive invariant holds throughout, in every instance.
THEOREM EngineInductive == Spec => []IInv
  <1>1. Init => IInv
    BY InitInv
  <1>2. IInv /\ [Next]_vars => IInv'
    <2> SUFFICES ASSUME IInv, [Next]_vars PROVE IInv'
      OBVIOUS
    <2>1. MutexInv /\ CallsInv /\ TypeOK /\ StreamInv /\ OwnSearch
      BY DEF IInv, MutexInv, CallsInv, StreamInv
    <2>2. TypeOK' /\ MutexInv' /\ CallsInv' /\ StreamInv'
      BY <2>1, TypeStep, MutexStep, CallsStep, StreamStep
    <2> QED
      BY <2>2 DEF IInv, MutexInv, CallsInv
  <1> QED
    BY <1>1, <1>2, PTL DEF Spec

\* However calls are cancelled and searches stopped, and whenever the process dies,
\* a caller is only ever given a whole evaluation of its own position
\* (Engine.Analyze and readSearch behind the mutex of pkg/engine).
THEOREM AnswersAreOwn == Spec => []AnswerIsOwn
  <1>1. IInv => AnswerIsOwn
    BY DEF IInv
  <1> QED
    BY <1>1, EngineInductive, PTL

\* The cache never holds a result of a stopped search, of another position or of
\* the opening book (Client.analyze).
THEOREM CacheStaysSound == Spec => []CacheIsSound
  <1>1. IInv => CacheIsSound
    BY DEF IInv, CacheOwn, CacheIsSound, About
  <1> QED
    BY <1>1, EngineInductive, PTL

=============================================================================
