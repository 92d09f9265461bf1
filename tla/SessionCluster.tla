---------------------------- MODULE SessionCluster ----------------------------
(***************************************************************************)
(* One game on a cluster of session-manager nodes: where its process runs, *)
(* how a call finds it, and how it is brought back from its checkpoint     *)
(* (session_manager.erl, sm_game_sup.erl, sm_registry.erl, sm_cluster.erl, *)
(* and of sm_game.erl the registration and the move).                      *)
(*                                                                         *)
(* The registry (syn) and the list of member nodes are copies, one per     *)
(* node, that follow each other by messages: a registration is checked     *)
(* against the copy of the node it is made on, and two processes of one    *)
(* game are told apart only when the news crosses.  A node that joins      *)
(* knows of no one at first.  Partitions between living nodes are left     *)
(* out, and so are refused writes of the checkpoint (SmGame has them).     *)
(*                                                                         *)
(* A game is the sequence of the calls it has counted as moves; the two    *)
(* sides alternate.  SmGame is this process in detail.                     *)
(***************************************************************************)
EXTENDS Integers, Sequences, FiniteSets

CONSTANTS
    Nodes,
    Founders,     \* the nodes the cluster begins with
    Weight,       \* phash2({GameId, Node}) of the game
    Calls,        \* moves sent by clients, each once
    Mover,        \* the side that makes each
    None,
    \* Bounds of an instance:
    MaxStarts,    \* processes started for the game
    MaxJoins, MaxDeaths, MaxTimeouts

\* phash2 returns a number of 27 bits.
MaxHash == 134217727

ASSUME ClusterAssumption ==
    /\ Founders \subseteq Nodes /\ Founders # {}
    /\ Weight \in [Nodes -> 0 .. MaxHash]
    \* Erlang compares {Weight, Node}: equal hashes are ordered by name.
    /\ \A m, n \in Nodes : Weight[m] = Weight[n] => m = n
    /\ Mover \in [Calls -> {0, 1}]
    /\ None \notin Nodes \cup Nat \cup {"ok"}
    /\ {MaxStarts, MaxJoins, MaxDeaths, MaxTimeouts} \subseteq Nat
    /\ MaxStarts > 0

Pids == 1 .. MaxStarts

VARIABLES
    alive,      \* nodes that run
    view,       \* the member nodes each node knows of
    where,      \* the process each node has registered, or None
    news,       \* registry and membership messages on their way
    proc,       \* the game's processes, in the order they registered
    cp,         \* the checkpoint
    call,
    deaths, timeouts, joins,
    \* History, read by no guard.
    forked      \* a process was started beside a living one, or from an old checkpoint

nodeVars == <<alive, view, where, news>>
boundVars == <<deaths, timeouts, joins>>
vars == <<nodeVars, proc, cp, call, boundVars, forked>>

NoProc == [up |-> FALSE, node |-> None, line |-> <<>>, mailbox |-> <<>>]
NoCall == [pc |-> "idle", node |-> None, pid |-> None, again |-> FALSE,
           owner |-> None, loaded |-> <<>>, answer |-> None]

Live == {p \in Pids : proc[p].up}

\* owner/2: the member with the highest hash.
Owner(members) ==
    CHOOSE n \in members : \A m \in members : Weight[m] <= Weight[n]

Turn(line) == Len(line) % 2

Counted(c, line) == Cardinality({i \in DOMAIN line : line[i] = c})

--------------------------------------------------------------------------
\* The API: call/2, safe_call/3, call_via_restore/2, restore/1, on_owner/3.

Goto(c, pc) == call' = [call EXCEPT ![c].pc = pc]
Reply(c, answer) == call' = [call EXCEPT ![c] = [NoCall EXCEPT !.pc = "done", !.answer = answer]]

Request(c, n) ==
    /\ call[c].pc = "idle"
    /\ n \in alive
    /\ call' = [call EXCEPT ![c].pc = "lookup", ![c].node = n]
    /\ UNCHANGED <<nodeVars, proc, cp, boundVars, forked>>

\* call/2: whereis_game.
Lookup(c) ==
    LET p == where[call[c].node] IN
    /\ call[c].pc = "lookup"
    /\ call' = [call EXCEPT ![c].pid = p, ![c].pc = IF p = None THEN "restore" ELSE "call"]
    /\ UNCHANGED <<nodeVars, proc, cp, boundVars, forked>>

\* An attempt that exits is restored and repeated once; the second time the
\* exit is the caller's.
Exits(c) == IF call[c].again THEN Reply(c, "exit") ELSE Goto(c, "restore")

\* gen_server:call: the message reaches a living process.
Send(c) ==
    LET p == call[c].pid IN
    /\ call[c].pc = "call"
    /\ IF proc[p].up
       THEN /\ proc' = [proc EXCEPT ![p].mailbox = Append(@, c)]
            /\ Goto(c, "wait")
       ELSE Exits(c) /\ UNCHANGED proc
    /\ UNCHANGED <<nodeVars, cp, boundVars, forked>>

\* The process, or its node, is seen to be gone.
Down(c) ==
    /\ call[c].pc = "wait"
    /\ ~proc[call[c].pid].up
    /\ Exits(c)
    /\ UNCHANGED <<nodeVars, proc, cp, boundVars, forked>>

\* The process has not answered in five seconds; the message stays with it.
Timeout(c) ==
    /\ call[c].pc = "wait"
    /\ timeouts < MaxTimeouts
    /\ timeouts' = timeouts + 1
    /\ Exits(c)
    /\ UNCHANGED <<nodeVars, proc, cp, deaths, joins, forked>>

\* Mutant: the node that was called restores the game itself.
RestoreHere(c) ==
    /\ call[c].pc = "restore"
    /\ IF cp # None
       THEN call' = [call EXCEPT ![c].pc = "start", ![c].owner = call[c].node,
                                 ![c].loaded = cp, ![c].again = TRUE]
       ELSE Reply(c, "no_such_game")
    /\ UNCHANGED <<nodeVars, proc, cp, boundVars, forked>>

\* on_owner, ensure_game: the owner, as the caller's node sees the members,
\* loads the checkpoint.
Restore(c) ==
    LET owner == Owner(view[call[c].node]) IN
    /\ call[c].pc = "restore"
    /\ IF owner \in alive /\ cp # None
       THEN call' = [call EXCEPT ![c].pc = "start", ![c].owner = owner, ![c].loaded = cp,
                                 ![c].again = TRUE]
       ELSE Reply(c, "no_such_game")
    /\ UNCHANGED <<nodeVars, proc, cp, boundVars, forked>>

\* Mutant: a taken name is taken over.
NeverTaken(n) == FALSE

\* sm_registry:register on the owner: refused when its copy holds the game.
Registered(n) == where[n] # None

\* start_child, init/1, init_restore/2: the process registers, starts from what
\* was loaded and saves it again.  If the game is registered already, that
\* process is called instead.
StartChild(c) ==
    LET owner == call[c].owner
        here  == where[call[c].node] IN
    /\ call[c].pc = "start"
    /\ CASE owner \notin alive ->
              Reply(c, "no_such_game") /\ UNCHANGED <<where, news, proc, cp, forked>>
         [] owner \in alive /\ Registered(owner) ->
              /\ IF here = None THEN Reply(c, "no_such_game")
                 ELSE call' = [call EXCEPT ![c].pc = "call", ![c].pid = here]
              /\ UNCHANGED <<where, news, proc, cp, forked>>
         [] OTHER ->
              \E p \in Pids :
                /\ proc[p] = NoProc
                /\ \A q \in Pids : proc[q] = NoProc => p <= q
                /\ proc' = [proc EXCEPT ![p] = [up |-> TRUE, node |-> owner,
                                                line |-> call[c].loaded, mailbox |-> <<>>]]
                /\ where' = [where EXCEPT ![owner] = p]
                /\ news' = news \cup [to : alive \ {owner}, type : {"up"}, what : {p}]
                /\ cp' = call[c].loaded
                /\ forked' = (forked \/ Live # {} \/ cp # call[c].loaded)
                /\ call' = [call EXCEPT ![c].pc = "call", ![c].pid = p]
    /\ UNCHANGED <<alive, view, boundVars>>

--------------------------------------------------------------------------
\* Mutant: a move is not checkpointed.
HandleUnsaved(p) ==
    LET c == Head(proc[p].mailbox)
        mine == Turn(proc[p].line) = Mover[c] IN
    /\ proc[p].up
    /\ proc[p].mailbox # <<>>
    /\ proc' = [proc EXCEPT ![p].mailbox = Tail(@),
                            ![p].line = IF mine THEN Append(@, c) ELSE @]
    /\ IF call[c].pc = "wait" /\ call[c].pid = p
       THEN Reply(c, IF mine THEN "ok" ELSE "not_your_turn")
       ELSE UNCHANGED call
    /\ UNCHANGED <<nodeVars, cp, boundVars, forked>>

\* The game's process: it handles the next message.  A move in turn is counted
\* and checkpointed before it is answered; one out of turn is refused.  An answer
\* to a caller that gave up is dropped.
Handle(p) ==
    LET c == Head(proc[p].mailbox)
        mine == Turn(proc[p].line) = Mover[c] IN
    /\ proc[p].up
    /\ proc[p].mailbox # <<>>
    /\ proc' = [proc EXCEPT ![p].mailbox = Tail(@),
                            ![p].line = IF mine THEN Append(@, c) ELSE @]
    /\ cp' = IF mine THEN Append(proc[p].line, c) ELSE cp
    /\ IF call[c].pc = "wait" /\ call[c].pid = p
       THEN Reply(c, IF mine THEN "ok" ELSE "not_your_turn")
       ELSE UNCHANGED call
    /\ UNCHANGED <<nodeVars, boundVars, forked>>

\* What the death of p may leave as the checkpoint: it may have saved the move it was
\* handling and not answered it.
LeftBehind(p) ==
    {cp} \cup {Append(proc[p].line, c) : c \in
        {d \in Calls : /\ proc[p].mailbox # <<>> /\ d = Head(proc[p].mailbox)
                       /\ Turn(proc[p].line) = Mover[d]}}

\* It crashes: its node unregisters it and tells the others.
ProcDies(p) ==
    /\ proc[p].up
    /\ deaths < MaxDeaths
    /\ deaths' = deaths + 1
    /\ proc' = [proc EXCEPT ![p].up = FALSE, ![p].mailbox = <<>>]
    /\ cp' \in LeftBehind(p)
    /\ LET n == proc[p].node IN
       /\ where' = [where EXCEPT ![n] = IF @ = p THEN None ELSE @]
       /\ news' = news \cup [to : alive \ {n}, type : {"down"}, what : {p}]
    /\ UNCHANGED <<alive, view, call, timeouts, joins, forked>>

--------------------------------------------------------------------------
\* Nodes.

\* A node dies with its process and the calls it was serving.
NodeDies(n) ==
    /\ n \in alive
    /\ Cardinality(alive) > 1
    /\ deaths < MaxDeaths
    /\ deaths' = deaths + 1
    /\ alive' = alive \ {n}
    /\ proc' = [p \in Pids |-> IF proc[p].up /\ proc[p].node = n
                               THEN [proc[p] EXCEPT !.up = FALSE, !.mailbox = <<>>]
                               ELSE proc[p]]
    /\ cp' \in {cp} \cup UNION {LeftBehind(p) : p \in {q \in Live : proc[q].node = n}}
    /\ call' = [c \in Calls |-> IF call[c].node = n
                                THEN [NoCall EXCEPT !.pc = "done", !.answer = "exit"]
                                ELSE call[c]]
    /\ view' = [view EXCEPT ![n] = {}]
    /\ where' = [where EXCEPT ![n] = None]
    /\ news' = {m \in news : m.to # n}
    /\ UNCHANGED <<timeouts, joins, forked>>

\* The registry of n learns that a node is down, and so does its membership.
ForgetGames(n) ==
    LET p == where[n] IN
    /\ n \in alive
    /\ p # None
    /\ proc[p].node \notin alive
    /\ where' = [where EXCEPT ![n] = None]
    /\ UNCHANGED <<alive, view, news, proc, cp, call, boundVars, forked>>

ForgetNode(n, m) ==
    /\ n \in alive
    /\ m \in view[n] \ alive
    /\ view' = [view EXCEPT ![n] = @ \ {m}]
    /\ UNCHANGED <<alive, where, news, proc, cp, call, boundVars, forked>>

\* A node starts, a member of the cluster it has not heard of yet.
Join(n) ==
    /\ n \in Nodes \ alive
    /\ joins < MaxJoins
    /\ joins' = joins + 1
    /\ alive' = alive \cup {n}
    /\ view' = [view EXCEPT ![n] = {n}]
    /\ news' = news \cup [to : alive, type : {"member"}, what : {n}]
                    \cup [to : {n}, type : {"member"}, what : alive]
                    \cup [to : {n}, type : {"up"}, what : {p \in Live : where[proc[p].node] = p}]
    /\ UNCHANGED <<where, proc, cp, call, deaths, timeouts, forked>>

\* Mutant: the entry is replaced, the older process lives on.
Replace(n, p) ==
    LET q == where[n] IN
    /\ where' = [where EXCEPT ![n] = IF q = None \/ q < p THEN p ELSE q]
    /\ UNCHANGED proc

\* Two processes of one game: the later registration stays, the earlier process
\* is killed where it runs.
Resolve(n, p) ==
    LET q == where[n] IN
    /\ where' = [where EXCEPT ![n] = IF q = None \/ q < p THEN p ELSE q]
    /\ proc' = IF q # None /\ q < p /\ proc[q].node = n
               THEN [proc EXCEPT ![q].up = FALSE, ![q].mailbox = <<>>]
               ELSE proc

\* A message arrives.  One of a process whose node is down is not believed; the
\* node of a process that a newer one meets repeats its registration.
Learn(m) ==
    /\ m \in news
    /\ CASE m.type = "member" ->
              /\ view' = [view EXCEPT ![m.to] = IF m.what \in alive THEN @ \cup {m.what} ELSE @]
              /\ news' = news \ {m}
              /\ UNCHANGED <<where, proc>>
         [] m.type = "down" ->
              /\ where' = [where EXCEPT ![m.to] = IF @ = m.what THEN None ELSE @]
              /\ news' = news \ {m}
              /\ UNCHANGED <<view, proc>>
         [] m.type = "up" /\ proc[m.what].up ->
              /\ Resolve(m.to, m.what)
              /\ LET q == where[m.to] IN
                 news' = (news \ {m}) \cup
                     (IF q # None /\ m.what < q /\ proc[q].node = m.to
                      THEN [to : alive \ {m.to}, type : {"up"}, what : {q}] ELSE {})
              /\ UNCHANGED view
         [] OTHER ->
              news' = news \ {m} /\ UNCHANGED <<view, where, proc>>
    /\ UNCHANGED <<alive, cp, call, boundVars, forked>>

--------------------------------------------------------------------------

\* The game has been created on the owner and everybody knows.
Init ==
    /\ alive = Founders
    /\ view = [n \in Nodes |-> IF n \in Founders THEN Founders ELSE {}]
    /\ where = [n \in Nodes |-> IF n \in Founders THEN 1 ELSE None]
    /\ news = {}
    /\ proc = [p \in Pids |-> IF p = 1 THEN [NoProc EXCEPT !.up = TRUE, !.node = Owner(Founders)]
                              ELSE NoProc]
    /\ cp = <<>>
    /\ call = [c \in Calls |-> NoCall]
    /\ deaths = 0 /\ timeouts = 0 /\ joins = 0
    /\ forked = FALSE

Serve(c) == Lookup(c) \/ Send(c) \/ Down(c) \/ Restore(c) \/ StartChild(c)

Next ==
    \/ \E c \in Calls : Serve(c) \/ Timeout(c) \/ \E n \in Nodes : Request(c, n)
    \/ \E p \in Pids : Handle(p) \/ ProcDies(p)
    \/ \E n \in Nodes : \/ NodeDies(n) \/ Join(n) \/ ForgetGames(n)
                        \/ \E m \in Nodes : ForgetNode(n, m)
    \/ \E m \in news : Learn(m)

Spec == Init /\ [][Next]_vars

--------------------------------------------------------------------------

\* Everything sent has arrived and every death is known.
Settled ==
    /\ news = {}
    /\ \A n \in alive : view[n] = alive /\ (where[n] # None => proc[where[n]].node \in alive)

\* While no node joins, one game never has two processes: the owner every caller
\* asks is the same node or a dead one, and there a second start is refused.
OneProcess == joins = 0 => Cardinality(Live) <= 1

\* If a joining node did start the game a second time, the cluster comes back to
\* one process, whatever died meanwhile.
ForkHeals == Settled => Cardinality(Live) <= 1

\* A move that was answered is in the checkpoint, and in the process if there is
\* one, through every death and restore, unless the game was forked.
AckedIsDurable ==
    ~forked => \A c \in Calls : call[c].answer = "ok" =>
        Counted(c, cp) > 0 /\ \A p \in Live : Counted(c, proc[p].line) > 0

\* One fault loses no move that was answered.  When nothing dies, no call can start
\* the game again, not even one that gave up waiting and restores from a checkpoint
\* that is old by now; and when one process or node dies, every call that restores
\* the game has read the same checkpoint, and one of them starts it.
OneFaultLosesNothing ==
    joins = 0 /\ deaths <= 1 /\ (deaths = 1 => timeouts = 0) =>
        \A c \in Calls : call[c].answer = "ok" =>
            Counted(c, cp) > 0 /\ \A p \in Live : Counted(c, proc[p].line) > 0
=============================================================================
