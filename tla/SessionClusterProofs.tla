------------------------- MODULE SessionClusterProofs -------------------------
(***************************************************************************)
(* Proofs about a game on a cluster of any size: one process while no node *)
(* joins, one process again when the news of a join has settled, and no    *)
(* answered move lost unless the game was forked, which takes a join or    *)
(* more than one fault.                                                    *)
(***************************************************************************)
EXTENDS SessionCluster, FiniteSetTheorems, SequenceTheorems, WellFoundedInduction, TLAPS

-----------------------------------------------------------------------------
(* The inductive invariant. *)

Procs == [up : BOOLEAN, node : Nodes \cup {None}, line : Seq(Calls), mailbox : Seq(Calls)]
Steps == {"idle", "lookup", "call", "wait", "restore", "start", "done"}
CallStates ==
    [pc : Steps, node : Nodes \cup {None}, pid : Pids \cup {None}, again : BOOLEAN,
     owner : Nodes \cup {None}, loaded : Seq(Calls),
     answer : {None, "exit", "no_such_game", "ok", "not_your_turn"}]

TypeOK ==
    /\ alive \subseteq Nodes
    /\ view \in [Nodes -> SUBSET Nodes]
    /\ where \in [Nodes -> Pids \cup {None}]
    /\ \A m \in news : /\ m.to \in Nodes /\ m.type \in {"member", "up", "down"}
                       /\ m.type = "member" => m.what \in Nodes
                       /\ m.type # "member" => m.what \in Pids
    /\ proc \in [Pids -> Procs]
    /\ cp \in Seq(Calls)
    /\ call \in [Calls -> CallStates]
    /\ deaths \in Nat /\ timeouts \in Nat /\ joins \in Nat
    /\ forked \in BOOLEAN

\* A call that is served is served by a living node; one that waits for a process
\* has one in mind, and one that starts it an owner.
CallsPlaced ==
    \A c \in Calls :
        /\ call[c].pc \notin {"idle", "done"} => call[c].node \in alive
        /\ call[c].pc \in {"call", "wait"} => call[c].pid \in Pids
        /\ call[c].pc = "start" => call[c].owner \in Nodes

\* A living process is registered where it runs, and its death is not yet told.
RegisteredHere ==
    /\ \A p \in Live : proc[p].node \in alive /\ where[proc[p].node] = p
    /\ \A m \in news : m.type = "down" => ~proc[m.what].up /\ proc[m.what].node # None

\* Of two living processes the news of one is on its way to the other's node.
NewsPending(p, q) ==
    \E m \in news : /\ m.type = "up"
                    /\ \/ m.to = proc[p].node /\ m.what = q
                       \/ m.to = proc[q].node /\ m.what = p

ForksTold == \A p, q \in Live : p = q \/ NewsPending(p, q)

\* n has the highest hash of the living nodes.
Highest(n) == \A m \in alive : Weight[m] <= Weight[n]

\* While no node joins, every node knows the others, and every process, living or
\* about to start, is on the one with the highest hash.
OneOwner ==
    joins = 0 =>
        /\ \A n \in alive : alive \subseteq view[n]
        /\ \A p \in Live : Highest(proc[p].node)
        /\ \A c \in Calls : call[c].pc = "start" => Highest(call[c].owner)

In(c, line) == \E i \in DOMAIN line : line[i] = c

\* Unless the game was forked its process has what the checkpoint has.
Durable ==
    ~forked =>
        /\ \A p, q \in Live : p = q
        /\ \A p \in Live : proc[p].line = cp
        /\ \A c \in Calls : call[c].answer = "ok" => In(c, cp)

\* c has no cause to restore the game: the process that it has found is the first.
Content(c) == /\ call[c].pc \notin {"restore", "start"}
              /\ call[c].pc \in {"call", "wait"} => call[c].pid = 1

\* Nothing has died: the first process runs and every node knows it.  Only a call
\* that gave up waiting tries to restore the game.
Running ==
    /\ news = {}
    /\ 1 \in Live
    /\ \A n \in alive : where[n] = 1
    /\ timeouts = 0 => \A c \in Calls : Content(c)

\* After the first fault, a death, all who are to start the game again have loaded
\* the same checkpoint, until one has: the game was not forked.
OneFault ==
    joins = 0 =>
        /\ deaths = 0 => Running
        /\ deaths = 1 /\ timeouts = 0 /\ Live = {} =>
               \A c \in Calls : call[c].pc = "start" => call[c].loaded = cp
        /\ deaths <= 1 /\ (deaths = 1 => timeouts = 0) => ~forked

IInv ==
    /\ TypeOK
    /\ CallsPlaced
    /\ RegisteredHere
    /\ ForksTold
    /\ OneOwner
    /\ Durable
    /\ OneFault

-----------------------------------------------------------------------------
(* The owner. *)

LEMMA HashesAreNat == MaxHash \in Nat
  BY SMT DEF MaxHash

\* Hashes are bounded, so that some member has the highest.
LEMMA OwnerIsHighest ==
    ASSUME NEW members \in SUBSET Nodes, members # {}
    PROVE  Owner(members) \in members /\ \A m \in members : Weight[m] <= Weight[Owner(members)]
<1> DEFINE Gap(n) == MaxHash - Weight[n]
           Gaps == {Gap(n) : n \in members}
<1>1. \A n \in members : Weight[n] \in 0 .. MaxHash /\ Gap(n) \in Nat
  BY HashesAreNat, ClusterAssumption
<1>2. Gaps # {} /\ Gaps \subseteq Nat
  BY <1>1
<1>3. PICK x \in Gaps : \A y \in Gaps : ~(y < x)
  <2> DEFINE R == {ss \in Nat \X Nat : ss[1] < ss[2]}
  <2>1. IsWellFoundedOn(R, Nat)
    BY NatLessThanWellFounded DEF OpToRel
  <2> HIDE DEF R, Gaps
  <2>2. PICK x \in Gaps : \A y \in Gaps : ~(<<y, x>> \in R)
    BY <1>2, <2>1, WFMin
  <2>3. ASSUME NEW y \in Gaps PROVE ~(y < x)
    <3>1. x \in Nat /\ y \in Nat
      BY <1>2
    <3>2. y < x => <<y, x>> \in R
      BY <3>1 DEF R
    <3>3. QED
      BY <2>2, <3>2
  <2>4. QED
    BY <2>3
<1>4. PICK n \in members : x = Gap(n)
  BY <1>3
<1>5. ASSUME NEW m \in members PROVE Weight[m] <= Weight[n]
  <2>1. Gap(m) \in Gaps /\ ~(Gap(m) < Gap(n))
    BY <1>3, <1>4
  <2>2. QED
    BY HashesAreNat, <1>1, <2>1
<1>6. QED
  BY <1>5 DEF Owner

-----------------------------------------------------------------------------
(* What a step does to the calls. *)

Answers == {"exit", "no_such_game", "ok", "not_your_turn"}

LEMMA NothingTyped == NoProc \in Procs /\ NoCall \in CallStates
<1>1. <<>> \in Seq(Calls)
  BY EmptySeq
<1>2. QED
  BY <1>1 DEF NoProc, Procs, NoCall, CallStates, Steps

\* The calls other than c stay as they are.
OnlyCall(c) == \A d \in Calls : d # c => call'[d] = call[d]

LEMMA Replied ==
    ASSUME TypeOK, NEW c \in Calls, NEW a \in Answers, Reply(c, a)
    PROVE  /\ call' \in [Calls -> CallStates] /\ OnlyCall(c)
           /\ call'[c].pc = "done" /\ call'[c].answer = a /\ call'[c].loaded = <<>>
<1>1. [NoCall EXCEPT !.pc = "done", !.answer = a] \in CallStates
  BY NothingTyped DEF CallStates, Steps, Answers
<1>2. /\ [NoCall EXCEPT !.pc = "done", !.answer = a].pc = "done"
      /\ [NoCall EXCEPT !.pc = "done", !.answer = a].answer = a
      /\ [NoCall EXCEPT !.pc = "done", !.answer = a].loaded = <<>>
  BY DEF NoCall
<1>3. QED
  BY <1>1, <1>2 DEF Reply, TypeOK, OnlyCall

LEMMA Went ==
    ASSUME TypeOK, NEW c \in Calls, NEW pc \in Steps, Goto(c, pc)
    PROVE  /\ call' \in [Calls -> CallStates] /\ OnlyCall(c)
           /\ call'[c].pc = pc /\ call'[c].node = call[c].node /\ call'[c].pid = call[c].pid
           /\ call'[c].owner = call[c].owner /\ call'[c].loaded = call[c].loaded
           /\ call'[c].answer = call[c].answer
<1>1. call[c] \in CallStates
  BY DEF TypeOK
<1>2. [call[c] EXCEPT !.pc = pc] \in CallStates
  BY <1>1 DEF CallStates
<1>3. QED
  BY <1>1, <1>2 DEF Goto, TypeOK, CallStates, OnlyCall

\* An attempt that exits ends the call, or sends it to be restored.
LEMMA Exited ==
    ASSUME TypeOK, NEW c \in Calls, Exits(c)
    PROVE  /\ call' \in [Calls -> CallStates] /\ OnlyCall(c)
           /\ \/ call'[c].pc = "done" /\ call'[c].answer = "exit" /\ call'[c].loaded = <<>>
              \/ /\ call'[c].pc = "restore" /\ call'[c].node = call[c].node
                 /\ call'[c].loaded = call[c].loaded /\ call'[c].answer = call[c].answer
<1>1. CASE Reply(c, "exit")
  BY <1>1, Replied DEF Exits, Answers
<1>2. CASE Goto(c, "restore")
  BY <1>2, Went DEF Exits, Steps
<1>3. QED
  BY <1>1, <1>2 DEF Exits

\* A call that goes on after looking something up.
LEMMA Looked ==
    ASSUME TypeOK, NEW c \in Calls, NEW pc \in Steps, NEW pid \in Pids \cup {None},
           call' = [call EXCEPT ![c].pc = pc, ![c].pid = pid]
    PROVE  /\ call' \in [Calls -> CallStates] /\ OnlyCall(c)
           /\ call'[c].pc = pc /\ call'[c].pid = pid /\ call'[c].node = call[c].node
           /\ call'[c].owner = call[c].owner /\ call'[c].loaded = call[c].loaded
           /\ call'[c].answer = call[c].answer
<1>1. call[c] \in CallStates
  BY DEF TypeOK
<1>2. [call[c] EXCEPT !.pc = pc, !.pid = pid] \in CallStates
  BY <1>1 DEF CallStates
<1>3. QED
  BY <1>1, <1>2 DEF TypeOK, CallStates, OnlyCall

LEMMA Requested ==
    ASSUME TypeOK, NEW c \in Calls, NEW n \in Nodes, Request(c, n)
    PROVE  /\ call' \in [Calls -> CallStates] /\ OnlyCall(c)
           /\ call'[c].pc = "lookup" /\ call'[c].node = n
           /\ call'[c].loaded = call[c].loaded /\ call'[c].answer = call[c].answer
<1>1. call[c] \in CallStates
  BY DEF TypeOK
<1>2. [call[c] EXCEPT !.pc = "lookup", !.node = n] \in CallStates
  BY <1>1 DEF CallStates, Steps
<1>3. QED
  BY <1>1, <1>2 DEF Request, TypeOK, CallStates, OnlyCall

LEMMA Restored ==
    ASSUME TypeOK, NEW c \in Calls, NEW owner \in Nodes,
           call' = [call EXCEPT ![c].pc = "start", ![c].owner = owner, ![c].loaded = cp,
                                ![c].again = TRUE]
    PROVE  /\ call' \in [Calls -> CallStates] /\ OnlyCall(c)
           /\ call'[c].pc = "start" /\ call'[c].node = call[c].node
           /\ call'[c].owner = owner /\ call'[c].loaded = cp /\ call'[c].answer = call[c].answer
<1>1. call[c] \in CallStates /\ cp \in Seq(Calls)
  BY DEF TypeOK
<1>2. [call[c] EXCEPT !.pc = "start", !.owner = owner, !.loaded = cp, !.again = TRUE] \in CallStates
  BY <1>1 DEF CallStates, Steps
<1>3. call'[c] = [call[c] EXCEPT !.pc = "start", !.owner = owner, !.loaded = cp, !.again = TRUE]
      /\ OnlyCall(c)
  BY DEF TypeOK, OnlyCall
<1>4. call' = [call EXCEPT ![c] = call'[c]]
  BY <1>3 DEF TypeOK
<1>5. QED
  BY <1>1, <1>2, <1>3, <1>4 DEF TypeOK, CallStates

-----------------------------------------------------------------------------
(* What a step does to the processes. *)

\* A process that is gone has neither a place nor messages.
LEMMA Killed ==
    ASSUME TypeOK, NEW p \in Pids, proc' = [proc EXCEPT ![p].up = FALSE, ![p].mailbox = <<>>]
    PROVE  /\ proc' \in [Pids -> Procs]
           /\ \A q \in Pids : q # p => proc'[q] = proc[q]
           /\ ~proc'[p].up /\ proc'[p].mailbox = <<>>
           /\ proc'[p].line = proc[p].line /\ proc'[p].node = proc[p].node
<1>1. proc[p] \in Procs /\ <<>> \in Seq(Calls)
  BY EmptySeq DEF TypeOK
<1>2. [proc[p] EXCEPT !.up = FALSE, !.mailbox = <<>>] \in Procs
  BY <1>1 DEF Procs
<1>3. proc' = [proc EXCEPT ![p] = [proc[p] EXCEPT !.up = FALSE, !.mailbox = <<>>]]
  BY DEF TypeOK
<1>4. QED
  BY <1>1, <1>2, <1>3 DEF TypeOK, Procs

LEMMA MessageSent ==
    ASSUME TypeOK, NEW p \in Pids, NEW c \in Calls,
           proc' = [proc EXCEPT ![p].mailbox = Append(@, c)]
    PROVE  /\ proc' \in [Pids -> Procs]
           /\ \A q \in Pids : q # p => proc'[q] = proc[q]
           /\ proc'[p].mailbox = Append(proc[p].mailbox, c)
           /\ proc'[p].up = proc[p].up /\ proc'[p].node = proc[p].node
           /\ proc'[p].line = proc[p].line
<1>1. proc[p] \in Procs /\ proc[p].mailbox \in Seq(Calls)
  BY DEF TypeOK, Procs
<1> DEFINE box == Append(proc[p].mailbox, c)
<1>2. box \in Seq(Calls)
  BY <1>1, AppendProperties
<1>3. proc' = [proc EXCEPT ![p] = [proc[p] EXCEPT !.mailbox = box]]
  BY DEF TypeOK
<1> HIDE DEF box
<1>4. [proc[p] EXCEPT !.mailbox = box] \in Procs
  BY <1>1, <1>2 DEF Procs
<1>5. proc' \in [Pids -> Procs] /\ proc'[p] = [proc[p] EXCEPT !.mailbox = box]
      /\ \A q \in Pids : q # p => proc'[q] = proc[q]
  BY <1>3, <1>4 DEF TypeOK
<1>6. proc'[p].mailbox = box /\ proc'[p].up = proc[p].up /\ proc'[p].node = proc[p].node
      /\ proc'[p].line = proc[p].line
  BY <1>1, <1>5 DEF Procs
<1>7. QED
  BY <1>5, <1>6 DEF box

\* The process counts the move at the head of its mailbox, or refuses it.
LEMMA MessageHandled ==
    ASSUME TypeOK, NEW p \in Pids, Handle(p)
    PROVE  /\ proc[p].up /\ proc[p].mailbox \in Seq(Calls) /\ proc[p].mailbox # <<>>
           /\ Head(proc[p].mailbox) \in Calls
           /\ proc' \in [Pids -> Procs]
           /\ \A q \in Pids : q # p => proc'[q] = proc[q]
           /\ proc'[p].mailbox = Tail(proc[p].mailbox)
           /\ proc'[p].up = proc[p].up /\ proc'[p].node = proc[p].node
           /\ \/ /\ proc'[p].line = Append(proc[p].line, Head(proc[p].mailbox))
                 /\ cp' = Append(proc[p].line, Head(proc[p].mailbox))
              \/ /\ proc'[p].line = proc[p].line /\ cp' = cp
                 /\ Turn(proc[p].line) # Mover[Head(proc[p].mailbox)]
<1> DEFINE c == Head(proc[p].mailbox)
           mine == Turn(proc[p].line) = Mover[c]
           box == Tail(proc[p].mailbox)
           line == IF mine THEN Append(proc[p].line, c) ELSE proc[p].line
<1>1. proc[p] \in Procs /\ proc[p].mailbox \in Seq(Calls) /\ proc[p].line \in Seq(Calls)
  BY DEF TypeOK, Procs
<1>2. proc[p].up /\ proc[p].mailbox # <<>>
  BY DEF Handle
<1>3. c \in Calls /\ box \in Seq(Calls)
  BY <1>1, <1>2, HeadTailProperties
<1>4. line \in Seq(Calls)
  BY <1>1, <1>3, AppendProperties
<1>5. proc' = [proc EXCEPT ![p] = [proc[p] EXCEPT !.mailbox = box, !.line = line]]
  BY DEF Handle, TypeOK
<1>6. \/ line = Append(proc[p].line, c) /\ cp' = Append(proc[p].line, c)
      \/ line = proc[p].line /\ cp' = cp /\ Turn(proc[p].line) # Mover[c]
  BY DEF Handle
<1> HIDE DEF box, line
<1>7. [proc[p] EXCEPT !.mailbox = box, !.line = line] \in Procs
  BY <1>1, <1>3, <1>4 DEF Procs
<1>8. proc' \in [Pids -> Procs] /\ proc'[p] = [proc[p] EXCEPT !.mailbox = box, !.line = line]
      /\ \A q \in Pids : q # p => proc'[q] = proc[q]
  BY <1>5, <1>7 DEF TypeOK
<1>9. proc'[p].mailbox = box /\ proc'[p].up = proc[p].up /\ proc'[p].node = proc[p].node
      /\ proc'[p].line = line
  BY <1>1, <1>8 DEF Procs
<1>10. QED
  BY <1>1, <1>2, <1>3, <1>6, <1>8, <1>9 DEF box

\* The call that is answered is the one whose message was handled.
LEMMA HandleAnswers ==
    ASSUME TypeOK, NEW p \in Pids, Handle(p)
    PROVE  \/ UNCHANGED call
           \/ \E c \in Calls, a \in Answers :
                /\ Reply(c, a) /\ c = Head(proc[p].mailbox) /\ call[c].pc = "wait"
                /\ a = "ok" => proc'[p].line = Append(proc[p].line, c)
                               /\ cp' = Append(proc[p].line, c)
<1> DEFINE c == Head(proc[p].mailbox)
           mine == Turn(proc[p].line) = Mover[c]
           a == IF mine THEN "ok" ELSE "not_your_turn"
<1>1. c \in Calls
  BY MessageHandled
<1>2. UNCHANGED call \/ (Reply(c, a) /\ call[c].pc = "wait")
  BY DEF Handle
<1>3. a \in Answers
  BY DEF Answers
<1>4. a = "ok" => proc'[p].line = Append(proc[p].line, c) /\ cp' = Append(proc[p].line, c)
  BY MessageHandled
<1> HIDE DEF a
<1>5. QED
  BY <1>1, <1>2, <1>3, <1>4

\* Everything on a node that dies is gone.
LEMMA NodeKilled ==
    ASSUME TypeOK, NEW n \in Nodes, NodeDies(n)
    PROVE  /\ proc' \in [Pids -> Procs] /\ call' \in [Calls -> CallStates]
           /\ \A p \in Pids :
                 /\ proc'[p].up <=> proc[p].up /\ proc[p].node # n
                 /\ proc'[p].node = proc[p].node /\ proc'[p].line = proc[p].line
                 /\ proc'[p].mailbox \in {proc[p].mailbox, <<>>}
           /\ \A c \in Calls :
                 \/ call[c].node # n /\ call'[c] = call[c]
                 \/ call'[c].pc = "done" /\ call'[c].answer = "exit" /\ call'[c].loaded = <<>>
<1>1. <<>> \in Seq(Calls)
  BY EmptySeq
<1>2. ASSUME NEW p \in Pids
      PROVE  /\ proc'[p] \in Procs
             /\ proc'[p].up <=> proc[p].up /\ proc[p].node # n
             /\ proc'[p].node = proc[p].node /\ proc'[p].line = proc[p].line
             /\ proc'[p].mailbox \in {proc[p].mailbox, <<>>}
  <2>1. proc[p] \in Procs
    BY DEF TypeOK
  <2>2. CASE proc[p].up /\ proc[p].node = n
    <3>1. proc'[p] = [proc[p] EXCEPT !.up = FALSE, !.mailbox = <<>>]
      BY <2>2 DEF NodeDies
    <3>2. QED
      BY <1>1, <2>1, <2>2, <3>1 DEF Procs
  <2>3. CASE ~(proc[p].up /\ proc[p].node = n)
    <3>1. proc'[p] = proc[p]
      BY <2>3 DEF NodeDies
    <3>2. QED
      BY <2>1, <2>3, <3>1
  <2>4. QED
    BY <2>2, <2>3
<1>3. ASSUME NEW c \in Calls
      PROVE  /\ call'[c] \in CallStates
             /\ \/ call[c].node # n /\ call'[c] = call[c]
                \/ call'[c].pc = "done" /\ call'[c].answer = "exit" /\ call'[c].loaded = <<>>
  <2> DEFINE gone == [NoCall EXCEPT !.pc = "done", !.answer = "exit"]
  <2>1. gone \in CallStates
    BY NothingTyped DEF CallStates, Steps
  <2>2. gone.pc = "done" /\ gone.answer = "exit" /\ gone.loaded = <<>>
    BY DEF NoCall
  <2>3. call'[c] = IF call[c].node = n THEN gone ELSE call[c]
    BY DEF NodeDies
  <2> HIDE DEF gone
  <2>4. QED
    BY <2>1, <2>2, <2>3 DEF TypeOK
<1>4. proc' \in [Pids -> Procs] /\ call' \in [Calls -> CallStates]
  <2>1. proc' = [p \in Pids |-> proc'[p]] /\ call' = [c \in Calls |-> call'[c]]
    BY DEF NodeDies
  <2>2. QED
    BY <1>2, <1>3, <2>1
<1>5. QED
  BY <1>2, <1>3, <1>4

\* Who dies leaves the checkpoint as it is, or with one move more.
LEMMA LeftSaved ==
    ASSUME TypeOK, NEW p \in Pids, NEW left \in LeftBehind(p)
    PROVE  /\ left \in Seq(Calls)
           /\ left = cp \/ \E c \in Calls : left = Append(proc[p].line, c)
<1>1. cp \in Seq(Calls) /\ proc[p].line \in Seq(Calls)
  BY DEF TypeOK, Procs
<1>2. left = cp \/ \E c \in Calls : left = Append(proc[p].line, c)
  BY DEF LeftBehind
<1>3. \A c \in Calls : Append(proc[p].line, c) \in Seq(Calls)
  BY <1>1, AppendProperties
<1>4. QED
  BY <1>1, <1>2, <1>3

\* StartChild starts no process, and the call ends or has found one,
StartsNone(c) ==
    /\ UNCHANGED <<where, news, proc, cp, forked>>
    /\ \/ Reply(c, "no_such_game")
       \/ \E q \in Pids : call' = [call EXCEPT ![c].pc = "call", ![c].pid = q]

\* or starts one on an owner that has none registered.
Starts(c, p) ==
    LET owner == call[c].owner IN
    /\ owner \in alive /\ where[owner] = None
    /\ proc[p] = NoProc
    /\ proc' = [proc EXCEPT ![p] = [up |-> TRUE, node |-> owner,
                                    line |-> call[c].loaded, mailbox |-> <<>>]]
    /\ where' = [where EXCEPT ![owner] = p]
    /\ news' = news \cup [to : alive \ {owner}, type : {"up"}, what : {p}]
    /\ cp' = call[c].loaded
    /\ forked' = (forked \/ Live # {} \/ cp # call[c].loaded)
    /\ call' = [call EXCEPT ![c].pc = "call", ![c].pid = p]

LEMMA StartChildCases ==
    ASSUME TypeOK, CallsPlaced, NEW c \in Calls, StartChild(c)
    PROVE  /\ call[c].pc = "start" /\ UNCHANGED <<alive, view, boundVars>>
           /\ StartsNone(c) \/ \E p \in Pids : Starts(c, p)
<1>1. call[c].pc = "start" /\ UNCHANGED <<alive, view, boundVars>>
  BY DEF StartChild
<1>2. call[c].node \in Nodes /\ (where[call[c].node] # None => where[call[c].node] \in Pids)
  BY <1>1 DEF CallsPlaced, TypeOK
<1>3. CASE call[c].owner \notin alive
  BY <1>3 DEF StartChild, StartsNone
<1>4. CASE call[c].owner \in alive /\ Registered(call[c].owner)
  BY <1>2, <1>4 DEF StartChild, StartsNone
<1>5. CASE call[c].owner \in alive /\ ~Registered(call[c].owner)
  BY <1>5 DEF StartChild, Starts, Registered
<1>6. QED
  BY <1>1, <1>3, <1>4, <1>5

LEMMA ProcStarted ==
    ASSUME TypeOK, CallsPlaced, NEW c \in Calls, call[c].pc = "start", NEW p \in Pids, Starts(c, p)
    PROVE  /\ call[c].owner \in Nodes /\ call[c].loaded \in Seq(Calls)
           /\ proc' \in [Pids -> Procs]
           /\ \A q \in Pids : q # p => proc'[q] = proc[q]
           /\ proc'[p].up /\ proc'[p].node = call[c].owner /\ proc'[p].line = call[c].loaded
           /\ proc'[p].mailbox = <<>> /\ ~proc[p].up /\ proc[p].node = None
<1>1. call[c].owner \in Nodes /\ call[c].loaded \in Seq(Calls) /\ <<>> \in Seq(Calls)
  BY EmptySeq DEF TypeOK, CallsPlaced, CallStates
<1> DEFINE new == [up |-> TRUE, node |-> call[c].owner, line |-> call[c].loaded, mailbox |-> <<>>]
<1>2. new \in Procs
  BY <1>1 DEF Procs
<1>3. proc' = [proc EXCEPT ![p] = new]
  BY DEF Starts
<1>4. new.up /\ new.node = call[c].owner /\ new.line = call[c].loaded /\ new.mailbox = <<>>
  OBVIOUS
<1>5. ~proc[p].up /\ proc[p].node = None
  BY DEF Starts, NoProc
<1> HIDE DEF new
<1>6. proc' \in [Pids -> Procs] /\ proc'[p] = new /\ \A q \in Pids : q # p => proc'[q] = proc[q]
  BY <1>2, <1>3 DEF TypeOK
<1>7. QED
  BY <1>1, <1>4, <1>5, <1>6

\* The registration of p meets the one that n holds.
LEMMA Resolved ==
    ASSUME TypeOK, NEW n \in Nodes, NEW p \in Pids, Resolve(n, p)
    PROVE  /\ proc' \in [Pids -> Procs] /\ where' \in [Nodes -> Pids \cup {None}]
           /\ \A k \in Nodes : k # n => where'[k] = where[k]
           /\ where'[n] \in {where[n], p}
           /\ \/ /\ proc' = proc
                 /\ \/ where'[n] = p /\ (where[n] = None \/ proc[where[n]].node # n)
                    \/ where[n] \in Pids /\ where'[n] = where[n] /\ ~(where[n] < p)
              \/ /\ where[n] \in Pids /\ where[n] < p /\ proc[where[n]].node = n /\ where'[n] = p
                 /\ \A q \in Pids : q # where[n] => proc'[q] = proc[q]
                 /\ ~proc'[where[n]].up /\ proc'[where[n]].mailbox = <<>>
                 /\ proc'[where[n]].node = proc[where[n]].node
                 /\ proc'[where[n]].line = proc[where[n]].line
<1> DEFINE q == where[n]
<1>1. q \in Pids \cup {None} /\ None \notin Pids
  BY ClusterAssumption DEF TypeOK, Pids
<1>2. where'[n] = (IF q = None \/ q < p THEN p ELSE q) /\ \A k \in Nodes : k # n => where'[k] = where[k]
  BY DEF Resolve, TypeOK
<1>3. where' \in [Nodes -> Pids \cup {None}]
  BY <1>1 DEF Resolve, TypeOK
<1>4. CASE q # None /\ q < p /\ proc[q].node = n
  <2>1. proc' = [proc EXCEPT ![q].up = FALSE, ![q].mailbox = <<>>] /\ q \in Pids
    BY <1>1, <1>4 DEF Resolve
  <2>2. /\ proc' \in [Pids -> Procs]
        /\ \A r \in Pids : r # q => proc'[r] = proc[r]
        /\ ~proc'[q].up /\ proc'[q].mailbox = <<>>
        /\ proc'[q].line = proc[q].line /\ proc'[q].node = proc[q].node
    BY <2>1, Killed
  <2>3. QED
    BY <1>2, <1>3, <1>4, <2>1, <2>2
<1>5. CASE ~(q # None /\ q < p /\ proc[q].node = n)
  <2>1. proc' = proc
    BY <1>5 DEF Resolve
  <2>2. QED
    BY <1>1, <1>2, <1>3, <1>5, <2>1 DEF TypeOK
<1>6. QED
  BY <1>4, <1>5

-----------------------------------------------------------------------------
(* Types, and the places of the calls. *)

Placed == TypeOK /\ CallsPlaced

LEMMA PlacedInit == Init => Placed
<1> HAVE Init
<1>1. 1 \in Pids
  BY ClusterAssumption DEF Pids
<1>2. Owner(Founders) \in Nodes
  BY OwnerIsHighest, ClusterAssumption
<1>3. [NoProc EXCEPT !.up = TRUE, !.node = Owner(Founders)] \in Procs
  BY <1>2, NothingTyped DEF Procs
<1>4. proc \in [Pids -> Procs]
  BY <1>3, NothingTyped DEF Init
<1>5. call \in [Calls -> CallStates] /\ cp \in Seq(Calls)
  BY NothingTyped, EmptySeq DEF Init
<1>6. where \in [Nodes -> Pids \cup {None}] /\ view \in [Nodes -> SUBSET Nodes] /\ alive \subseteq Nodes
  BY <1>1, ClusterAssumption DEF Init
<1>7. TypeOK
  <2>1. deaths \in Nat /\ timeouts \in Nat /\ joins \in Nat
    BY DEF Init
  <2>2. forked \in BOOLEAN /\ news = {}
    BY DEF Init
  <2>3. QED
    BY <1>4, <1>5, <1>6, <2>1, <2>2 DEF TypeOK
<1>8. CallsPlaced
  BY DEF Init, CallsPlaced, NoCall
<1>9. QED
  BY <1>7, <1>8 DEF Placed

\* One call has moved and is placed, the others are as they were.
LEMMA OnlyCallPlaced ==
    ASSUME CallsPlaced, NEW c \in Calls, OnlyCall(c), alive \subseteq alive',
           /\ call'[c].pc \notin {"idle", "done"} => call'[c].node \in alive'
           /\ call'[c].pc \in {"call", "wait"} => call'[c].pid \in Pids
           /\ call'[c].pc = "start" => call'[c].owner \in Nodes
    PROVE  CallsPlaced'
<1>1. SUFFICES ASSUME NEW d \in Calls
               PROVE  /\ call'[d].pc \notin {"idle", "done"} => call'[d].node \in alive'
                      /\ call'[d].pc \in {"call", "wait"} => call'[d].pid \in Pids
                      /\ call'[d].pc = "start" => call'[d].owner \in Nodes
  BY DEF CallsPlaced
<1>2. CASE d = c
  BY <1>2
<1>3. CASE d # c
  BY <1>3 DEF OnlyCall, CallsPlaced
<1>4. QED
  BY <1>2, <1>3

LEMMA ServePlaced ==
    ASSUME Placed, NEW c \in Calls, Serve(c) \/ Timeout(c) \/ \E n \in Nodes : Request(c, n)
    PROVE  Placed'
<1> USE DEF Placed
<1>1. ASSUME NEW n \in Nodes, Request(c, n) PROVE Placed'
  <2>1. UNCHANGED <<nodeVars, proc, cp, boundVars, forked>> /\ n \in alive
    BY <1>1 DEF Request
  <2>2. TypeOK'
    BY <1>1, <2>1, Requested DEF TypeOK, nodeVars, boundVars
  <2>3. CallsPlaced'
    BY <1>1, <2>1, Requested, OnlyCallPlaced DEF nodeVars
  <2>4. QED
    BY <2>2, <2>3
<1>2. ASSUME Lookup(c) PROVE Placed'
  <2>1. UNCHANGED <<nodeVars, proc, cp, boundVars, forked>> /\ call[c].node \in alive
    BY <1>2 DEF Lookup, CallsPlaced
  <2>2. where[call[c].node] \in Pids \cup {None}
    BY <2>1 DEF TypeOK
  <2>3. CASE where[call[c].node] = None
    <3>1. call' = [call EXCEPT ![c].pc = "restore", ![c].pid = None]
      BY <1>2, <2>3 DEF Lookup
    <3>2. /\ call' \in [Calls -> CallStates] /\ OnlyCall(c)
          /\ call'[c].pc = "restore" /\ call'[c].node = call[c].node
      BY <3>1, Looked, ZenonT(30) DEF Steps
    <3>3. TypeOK'
      BY <2>1, <3>2 DEF TypeOK, nodeVars, boundVars
    <3>4. QED
      BY <2>1, <3>2, <3>3, OnlyCallPlaced DEF nodeVars
  <2>4. ASSUME NEW p \in Pids, where[call[c].node] = p PROVE Placed'
    <3>1. call' = [call EXCEPT ![c].pc = "call", ![c].pid = p]
      <4>1. p # None
        BY ClusterAssumption DEF Pids
      <4>2. QED
        BY <1>2, <2>4, <4>1 DEF Lookup
    <3>2. /\ call' \in [Calls -> CallStates] /\ OnlyCall(c)
          /\ call'[c].pc = "call" /\ call'[c].pid = p /\ call'[c].node = call[c].node
      BY <3>1, Looked, ZenonT(30) DEF Steps
    <3>3. TypeOK'
      BY <2>1, <3>2 DEF TypeOK, nodeVars, boundVars
    <3>4. QED
      BY <2>1, <3>2, <3>3, OnlyCallPlaced DEF nodeVars
  <2>5. QED
    BY <2>2, <2>3, <2>4
<1>3. ASSUME Exits(c), call[c].node \in alive, UNCHANGED alive PROVE CallsPlaced'
  BY <1>3, Exited, OnlyCallPlaced
<1>4. ASSUME Send(c) PROVE Placed'
  <2>1. UNCHANGED <<nodeVars, cp, boundVars, forked>> /\ call[c].node \in alive /\ call[c].pid \in Pids
    BY <1>4 DEF Send, CallsPlaced
  <2>2. CASE Exits(c) /\ UNCHANGED proc
    <3>1. TypeOK'
      BY <2>1, <2>2, Exited DEF TypeOK, nodeVars, boundVars
    <3>2. QED
      BY <1>3, <2>1, <2>2, <3>1 DEF nodeVars
  <2>3. CASE /\ proc' = [proc EXCEPT ![call[c].pid].mailbox = Append(@, c)]
             /\ Goto(c, "wait")
    <3>1. TypeOK'
      BY <2>1, <2>3, Went, MessageSent DEF TypeOK, nodeVars, boundVars, Steps
    <3>2. CallsPlaced'
      BY <2>1, <2>3, Went, OnlyCallPlaced DEF nodeVars, Steps
    <3>3. QED
      BY <3>1, <3>2
  <2>4. QED
    BY <1>4, <2>2, <2>3 DEF Send
<1>5. ASSUME Down(c) \/ Timeout(c) PROVE Placed'
  <2>1. /\ UNCHANGED <<nodeVars, proc, cp, deaths, joins, forked>> /\ Exits(c)
        /\ timeouts' \in Nat /\ call[c].node \in alive
    BY <1>5 DEF Down, Timeout, CallsPlaced, boundVars, TypeOK
  <2>2. TypeOK'
    BY <2>1, Exited DEF TypeOK, nodeVars
  <2>3. QED
    BY <1>3, <2>1, <2>2 DEF nodeVars
<1>6. ASSUME Restore(c) PROVE Placed'
  <2> DEFINE owner == Owner(view[call[c].node])
  <2>1. UNCHANGED <<nodeVars, proc, cp, boundVars, forked>> /\ call[c].node \in alive
    BY <1>6 DEF Restore, CallsPlaced
  <2>2. CASE Reply(c, "no_such_game")
    <3>1. TypeOK'
      BY <2>1, <2>2, Replied DEF TypeOK, nodeVars, boundVars, Answers
    <3>2. CallsPlaced'
      BY <2>1, <2>2, Replied, OnlyCallPlaced DEF nodeVars, Answers
    <3>3. QED
      BY <3>1, <3>2
  <2> HIDE DEF owner
  <2>3. CASE /\ owner \in alive
             /\ call' = [call EXCEPT ![c].pc = "start", ![c].owner = owner, ![c].loaded = cp,
                                     ![c].again = TRUE]
    <3>1. owner \in Nodes
      BY <2>3 DEF TypeOK
    <3>2. TypeOK'
      BY <2>1, <2>3, <3>1, Restored DEF TypeOK, nodeVars, boundVars
    <3>3. CallsPlaced'
      <4>1. /\ OnlyCall(c) /\ call'[c].pc = "start" /\ call'[c].node = call[c].node
            /\ call'[c].owner = owner
        BY <2>3, <3>1, Restored
      <4>2. QED
        BY <2>1, <3>1, <4>1, OnlyCallPlaced DEF nodeVars
    <3>4. QED
      BY <3>2, <3>3
  <2>4. QED
    BY <1>6, <2>2, <2>3 DEF Restore, owner
<1>7. ASSUME StartChild(c) PROVE Placed'
  <2>1. call[c].pc = "start" /\ UNCHANGED <<alive, view, boundVars>> /\ call[c].node \in alive
    BY <1>7, StartChildCases DEF CallsPlaced
  <2>2. ASSUME NEW q \in Pids, call' = [call EXCEPT ![c].pc = "call", ![c].pid = q]
        PROVE  call' \in [Calls -> CallStates] /\ CallsPlaced'
    <3>1. /\ call' \in [Calls -> CallStates] /\ OnlyCall(c)
          /\ call'[c].pc = "call" /\ call'[c].pid = q /\ call'[c].node = call[c].node
      BY <2>2, Looked, ZenonT(30) DEF Steps
    <3>2. QED
      BY <2>1, <3>1, OnlyCallPlaced
  <2>3. CASE StartsNone(c)
    <3>1. call' \in [Calls -> CallStates] /\ CallsPlaced'
      <4>1. CASE Reply(c, "no_such_game")
        BY <2>1, <4>1, Replied, OnlyCallPlaced DEF Answers
      <4>2. QED
        BY <2>2, <2>3, <4>1 DEF StartsNone
    <3>2. QED
      BY <2>1, <2>3, <3>1 DEF StartsNone, TypeOK, boundVars
  <2>4. ASSUME NEW p \in Pids, Starts(c, p) PROVE Placed'
    <3>1. call' \in [Calls -> CallStates] /\ CallsPlaced'
      BY <2>2, <2>4 DEF Starts
    <3>2. proc' \in [Pids -> Procs] /\ cp' \in Seq(Calls)
      BY <2>1, <2>4, ProcStarted DEF Starts
    <3>3. where' \in [Nodes -> Pids \cup {None}]
      BY <2>4 DEF Starts, TypeOK
    <3>4. \A m \in news' : /\ m.to \in Nodes /\ m.type \in {"member", "up", "down"}
                           /\ m.type = "member" => m.what \in Nodes
                           /\ m.type # "member" => m.what \in Pids
      BY <2>4 DEF Starts, TypeOK
    <3>5. forked' \in BOOLEAN
      BY <2>4 DEF Starts
    <3>6. QED
      BY <2>1, <3>1, <3>2, <3>3, <3>4, <3>5 DEF TypeOK, boundVars
  <2>5. QED
    BY <1>7, <2>3, <2>4, StartChildCases
<1>8. QED
  BY <1>1, <1>2, <1>4, <1>5, <1>6, <1>7 DEF Serve

LEMMA PlacedStep ==
    ASSUME Placed, [Next]_vars
    PROVE  Placed'
<1> USE DEF Placed
<1>1. CASE UNCHANGED vars
  BY <1>1 DEF vars, nodeVars, boundVars, TypeOK, CallsPlaced
<1>2. ASSUME NEW p \in Pids, Handle(p) PROVE Placed'
  <2>1. UNCHANGED <<nodeVars, boundVars, forked>>
    BY <1>2 DEF Handle
  <2>2. proc' \in [Pids -> Procs]
    BY <1>2, MessageHandled
  <2>3. cp' \in Seq(Calls)
    <3>1. proc[p].line \in Seq(Calls) /\ proc'[p].line \in Seq(Calls)
      BY <2>2 DEF TypeOK, Procs
    <3>2. cp' = proc'[p].line \/ cp' = cp
      BY <1>2, MessageHandled
    <3>3. QED
      BY <3>1, <3>2 DEF TypeOK
  <2>4. call' \in [Calls -> CallStates] /\ CallsPlaced'
    <3>1. CASE UNCHANGED call
      BY <2>1, <3>1 DEF TypeOK, CallsPlaced, nodeVars
    <3>2. ASSUME NEW c \in Calls, NEW a \in Answers, Reply(c, a)
          PROVE  call' \in [Calls -> CallStates] /\ CallsPlaced'
      BY <2>1, <3>2, Replied, OnlyCallPlaced DEF nodeVars
    <3>3. QED
      BY <1>2, <3>1, <3>2, HandleAnswers
  <2>5. QED
    BY <2>1, <2>2, <2>3, <2>4 DEF TypeOK, nodeVars, boundVars
<1>3. ASSUME NEW p \in Pids, ProcDies(p) PROVE Placed'
  <2>1. UNCHANGED <<alive, view, call, timeouts, joins, forked>>
        /\ proc' = [proc EXCEPT ![p].up = FALSE, ![p].mailbox = <<>>]
        /\ cp' \in Seq(Calls)
    BY <1>3, LeftSaved DEF ProcDies
  <2>2. proc' \in [Pids -> Procs]
    BY <2>1, Killed
  <2>3. where' \in [Nodes -> Pids \cup {None}] /\ deaths' \in Nat
    <3>1. where' \in [Nodes -> Pids \cup {None}]
      <4>1. where' = [where EXCEPT ![proc[p].node] = IF @ = p THEN None ELSE @]
        BY <1>3 DEF ProcDies
      <4>2. QED
        BY <4>1 DEF TypeOK
    <3>2. deaths' \in Nat
      BY <1>3 DEF ProcDies, TypeOK
    <3>3. QED
      BY <3>1, <3>2 DEF TypeOK
  <2>4. \A m \in news' : /\ m.to \in Nodes /\ m.type \in {"member", "up", "down"}
                         /\ m.type = "member" => m.what \in Nodes
                         /\ m.type # "member" => m.what \in Pids
    BY <1>3 DEF ProcDies, TypeOK
  <2>5. QED
    BY <2>1, <2>2, <2>3, <2>4 DEF TypeOK, CallsPlaced
<1>4. ASSUME NEW n \in Nodes, NodeDies(n) PROVE Placed'
  <2>1. UNCHANGED <<timeouts, joins, forked>> /\ alive' = alive \ {n}
        /\ news' = {m \in news : m.to # n}
    BY <1>4 DEF NodeDies
  <2>2. cp' \in Seq(Calls)
    <3>1. cp' = cp \/ \E p \in Live : cp' \in LeftBehind(p)
      BY <1>4 DEF NodeDies
    <3>2. QED
      BY <3>1, LeftSaved DEF TypeOK, Live
  <2>3. view' \in [Nodes -> SUBSET Nodes] /\ where' \in [Nodes -> Pids \cup {None}] /\ deaths' \in Nat
    <3>1. view' = [view EXCEPT ![n] = {}] /\ where' = [where EXCEPT ![n] = None] /\ deaths' = deaths + 1
      BY <1>4 DEF NodeDies
    <3>2. QED
      BY <3>1 DEF TypeOK
  <2>4. proc' \in [Pids -> Procs] /\ call' \in [Calls -> CallStates]
    BY <1>4, NodeKilled
  <2>5. TypeOK'
    BY <2>1, <2>2, <2>3, <2>4 DEF TypeOK
  <2>6. CallsPlaced'
    <3>1. SUFFICES ASSUME NEW c \in Calls
                   PROVE  /\ call'[c].pc \notin {"idle", "done"} => call'[c].node \in alive'
                          /\ call'[c].pc \in {"call", "wait"} => call'[c].pid \in Pids
                          /\ call'[c].pc = "start" => call'[c].owner \in Nodes
      BY DEF CallsPlaced
    <3>2. \/ call[c].node # n /\ call'[c] = call[c]
          \/ call'[c].pc = "done"
      BY <1>4, NodeKilled
    <3>3. QED
      BY <2>1, <3>2 DEF CallsPlaced
  <2>7. QED
    BY <2>5, <2>6
<1>5. ASSUME NEW n \in Nodes, Join(n) PROVE Placed'
  <2>1. UNCHANGED <<where, proc, cp, call, deaths, timeouts, forked>> /\ alive' = alive \cup {n}
    BY <1>5 DEF Join
  <2>2. view' \in [Nodes -> SUBSET Nodes] /\ joins' \in Nat
    BY <1>5 DEF Join, TypeOK
  <2>3. \A m \in news' : /\ m.to \in Nodes /\ m.type \in {"member", "up", "down"}
                         /\ m.type = "member" => m.what \in Nodes
                         /\ m.type # "member" => m.what \in Pids
    BY <1>5 DEF Join, TypeOK, Live
  <2>4. QED
    BY <2>1, <2>2, <2>3 DEF TypeOK, CallsPlaced
<1>6. ASSUME NEW n \in Nodes, ForgetGames(n) PROVE Placed'
  BY <1>6 DEF ForgetGames, TypeOK, CallsPlaced, boundVars
<1>7. ASSUME NEW n \in Nodes, NEW m \in Nodes, ForgetNode(n, m) PROVE Placed'
  BY <1>7 DEF ForgetNode, TypeOK, CallsPlaced, boundVars
<1>8. ASSUME NEW m \in news, Learn(m) PROVE Placed'
  <2>1. UNCHANGED <<alive, cp, call, boundVars, forked>>
    BY <1>8 DEF Learn
  <2>2. m.to \in Nodes /\ m.type \in {"member", "up", "down"} /\ (m.type # "member" => m.what \in Pids)
    BY DEF TypeOK
  <2>3. /\ view' \in [Nodes -> SUBSET Nodes] /\ where' \in [Nodes -> Pids \cup {None}]
        /\ proc' \in [Pids -> Procs]
    <3>1. CASE m.type = "member"
      BY <1>8, <3>1 DEF Learn, TypeOK
    <3>2. CASE m.type = "down"
      BY <1>8, <3>2 DEF Learn, TypeOK
    <3>3. CASE m.type = "up" /\ proc[m.what].up
      <4>1. Resolve(m.to, m.what) /\ UNCHANGED view
        BY <1>8, <3>3 DEF Learn
      <4>2. QED
        BY <2>2, <3>3, <4>1, Resolved DEF TypeOK
    <3>4. CASE m.type = "up" /\ ~proc[m.what].up
      BY <1>8, <3>4 DEF Learn, TypeOK
    <3>5. QED
      BY <2>2, <3>1, <3>2, <3>3, <3>4
  <2>4. \A k \in news' : k \in news \/ (k.to \in Nodes /\ k.type = "up" /\ k.what \in Pids)
    <3>1. CASE m.type = "up" /\ proc[m.what].up
      BY <1>8, <2>2, <3>1 DEF Learn, TypeOK
    <3>2. CASE ~(m.type = "up" /\ proc[m.what].up)
      BY <1>8, <2>2, <3>2 DEF Learn
    <3>3. QED
      BY <3>1, <3>2
  <2>5. QED
    BY <2>1, <2>3, <2>4 DEF TypeOK, CallsPlaced, boundVars
<1>9. QED
  BY <1>1, <1>2, <1>3, <1>4, <1>5, <1>6, <1>7, <1>8, ServePlaced DEF Next

-----------------------------------------------------------------------------
(* The processes of the game. *)

Located == RegisteredHere /\ ForksTold /\ OneOwner

LEMMA NoneIsNoPid == None \notin Pids
  BY ClusterAssumption DEF Pids

LEMMA LocatedInit == Init => Located
<1> HAVE Init
<1>1. Owner(Founders) \in Founders /\ \A m \in Founders : Weight[m] <= Weight[Owner(Founders)]
  BY OwnerIsHighest, ClusterAssumption
<1>2. ASSUME NEW p \in Live PROVE p = 1 /\ p \in Pids /\ proc[p].node = Owner(Founders)
  BY <1>2 DEF Init, Live, NoProc
<1>3. RegisteredHere
  <2>1. Owner(Founders) \in alive /\ where[Owner(Founders)] = 1 /\ news = {}
    BY <1>1, ClusterAssumption DEF Init
  <2>2. QED
    BY <1>2, <2>1 DEF RegisteredHere
<1>4. ForksTold
  BY <1>2 DEF ForksTold
<1>5. OneOwner
  <2>1. \A n \in alive : alive \subseteq view[n]
    BY ClusterAssumption DEF Init
  <2>2. \A c \in Calls : call[c].pc = "idle"
    BY DEF Init, NoCall
  <2>3. \A p \in Live : Highest(proc[p].node)
    BY <1>1, <1>2 DEF Highest, Init
  <2>4. QED
    BY <2>1, <2>2, <2>3 DEF OneOwner
<1>6. QED
  BY <1>3, <1>4, <1>5 DEF Located

\* A living process runs on a living node, alone.
LEMMA LivePlace ==
    ASSUME TypeOK, RegisteredHere, NEW p \in Live
    PROVE  /\ p \in Pids /\ proc[p].up /\ proc[p].node \in alive /\ proc[p].node \in Nodes
           /\ where[proc[p].node] = p
           /\ \A q \in Live : proc[q].node = proc[p].node => q = p
  BY DEF RegisteredHere, Live, TypeOK

\* A step that neither starts, ends nor tells of a process.
LEMMA SamePlaces ==
    ASSUME TypeOK, Located, UNCHANGED <<alive, where, news, joins>>,
           \A p \in Pids : proc'[p].up = proc[p].up /\ proc'[p].node = proc[p].node,
           joins = 0 => \A n \in alive : alive \subseteq view'[n],
           \A c \in Calls : call'[c].pc = "start" =>
               \/ call[c].pc = "start" /\ call'[c].owner = call[c].owner
               \/ joins = 0 => Highest(call'[c].owner)
    PROVE  Located'
<1>1. Live' = Live /\ Live \subseteq Pids
  BY DEF Live
<1>2. \A p \in Live : proc'[p].up /\ proc'[p].node = proc[p].node
  BY <1>1 DEF Live
<1>3. RegisteredHere'
  <2>1. \A m \in news : m.type = "down" => m.what \in Pids
    BY DEF TypeOK
  <2>2. QED
    BY <1>1, <1>2, <2>1 DEF Located, RegisteredHere
<1>4. ForksTold'
  BY <1>1, <1>2 DEF Located, ForksTold, NewsPending
<1>5. OneOwner'
  BY <1>1, <1>2 DEF Located, OneOwner, Highest
<1>6. QED
  BY <1>3, <1>4, <1>5 DEF Located

LEMMA OnlyCallLocated ==
    ASSUME TypeOK, Located, UNCHANGED <<nodeVars, joins>>, NEW c \in Calls, OnlyCall(c),
           call'[c].pc # "start",
           \A p \in Pids : proc'[p].up = proc[p].up /\ proc'[p].node = proc[p].node
    PROVE  Located'
<1>1. \A d \in Calls : call'[d].pc = "start" => call[d].pc = "start" /\ call'[d].owner = call[d].owner
  BY DEF OnlyCall
<1>2. joins = 0 => \A n \in alive : alive \subseteq view'[n]
  BY DEF Located, OneOwner, nodeVars
<1>3. QED
  BY <1>1, <1>2, SamePlaces DEF nodeVars

LEMMA ServeLocated ==
    ASSUME Placed, Located, NEW c \in Calls,
           Serve(c) \/ Timeout(c) \/ \E n \in Nodes : Request(c, n)
    PROVE  Located'
<1> USE DEF Placed
<1>1. ASSUME NEW n \in Nodes, Request(c, n) PROVE Located'
  <2>1. UNCHANGED <<nodeVars, joins, proc>>
    BY <1>1 DEF Request, boundVars
  <2>2. QED
    BY <1>1, <2>1, Requested, OnlyCallLocated
<1>2. ASSUME Lookup(c) PROVE Located'
  <2>1. UNCHANGED <<nodeVars, joins, proc>>
    BY <1>2 DEF Lookup, boundVars
  <2>2. OnlyCall(c) /\ call'[c].pc # "start"
    <3>1. call'[c].pc \in {"restore", "call"}
      BY <1>2 DEF Lookup, TypeOK, CallStates
    <3>2. OnlyCall(c)
      BY <1>2 DEF Lookup, TypeOK, OnlyCall
    <3>3. QED
      BY <3>1, <3>2
  <2>3. QED
    BY <2>1, <2>2, OnlyCallLocated
<1>3. ASSUME Exits(c), UNCHANGED <<nodeVars, joins, proc>> PROVE Located'
  <2>1. OnlyCall(c) /\ call'[c].pc # "start"
    BY <1>3, Exited
  <2>2. QED
    BY <1>3, <2>1, OnlyCallLocated
<1>4. ASSUME Send(c) PROVE Located'
  <2>1. UNCHANGED <<nodeVars, joins>> /\ call[c].pid \in Pids
    BY <1>4 DEF Send, CallsPlaced, boundVars
  <2>2. CASE Exits(c) /\ UNCHANGED proc
    BY <1>3, <2>1, <2>2
  <2>3. CASE /\ proc' = [proc EXCEPT ![call[c].pid].mailbox = Append(@, c)]
             /\ Goto(c, "wait")
    <3>1. \A p \in Pids : proc'[p].up = proc[p].up /\ proc'[p].node = proc[p].node
      <4>1. PICK q \in Pids : q = call[c].pid
        BY <2>1
      <4>2. proc' = [proc EXCEPT ![q].mailbox = Append(@, c)]
        BY <2>3, <4>1
      <4>3. QED
        BY <4>2, MessageSent
    <3>2. OnlyCall(c) /\ call'[c].pc = "wait"
      BY <2>3, Went DEF Steps
    <3>3. QED
      BY <2>1, <3>1, <3>2, OnlyCallLocated
  <2>4. QED
    BY <1>4, <2>2, <2>3 DEF Send
<1>5. ASSUME Down(c) \/ Timeout(c) PROVE Located'
  BY <1>3, <1>5 DEF Down, Timeout, boundVars
<1>6. ASSUME Restore(c) PROVE Located'
  <2> DEFINE owner == Owner(view[call[c].node])
  <2>1. UNCHANGED <<nodeVars, joins, proc>> /\ call[c].node \in alive
    BY <1>6 DEF Restore, CallsPlaced, boundVars
  <2>2. CASE Reply(c, "no_such_game")
    BY <2>1, <2>2, Replied, OnlyCallLocated DEF Answers
  <2>3. joins = 0 => Highest(owner)
    <3>1. SUFFICES ASSUME joins = 0 PROVE Highest(owner)
      OBVIOUS
    <3>2. alive \subseteq view[call[c].node] /\ view[call[c].node] \in SUBSET Nodes
      BY <2>1, <3>1 DEF Located, OneOwner, TypeOK
    <3>3. QED
      BY <2>1, <3>2, OwnerIsHighest DEF Highest
  <2> HIDE DEF owner
  <2>4. CASE /\ owner \in alive
             /\ call' = [call EXCEPT ![c].pc = "start", ![c].owner = owner, ![c].loaded = cp,
                                     ![c].again = TRUE]
    <3>1. OnlyCall(c) /\ call'[c].owner = owner
      BY <2>4, Restored, ZenonT(30) DEF TypeOK
    <3>2. \A d \in Calls : call'[d].pc = "start" =>
               \/ call[d].pc = "start" /\ call'[d].owner = call[d].owner
               \/ joins = 0 => Highest(call'[d].owner)
      BY <2>3, <3>1 DEF OnlyCall
    <3>3. joins = 0 => \A n \in alive : alive \subseteq view'[n]
      BY <2>1 DEF Located, OneOwner, nodeVars
    <3>4. QED
      BY <2>1, <3>2, <3>3, SamePlaces DEF nodeVars
  <2>5. QED
    BY <1>6, <2>2, <2>4 DEF Restore, owner
<1>7. ASSUME StartChild(c) PROVE Located'
  <2>1. call[c].pc = "start" /\ UNCHANGED <<alive, view, joins>>
    BY <1>7, StartChildCases DEF boundVars
  <2>2. ASSUME NEW q \in Pids, call' = [call EXCEPT ![c].pc = "call", ![c].pid = q]
        PROVE  OnlyCall(c) /\ call'[c].pc = "call"
    BY <2>2, Looked DEF Steps
  <2>3. CASE StartsNone(c)
    <3>1. OnlyCall(c) /\ call'[c].pc # "start"
      <4>1. CASE Reply(c, "no_such_game")
        BY <4>1, Replied DEF Answers
      <4>2. QED
        BY <2>2, <2>3, <4>1 DEF StartsNone
    <3>2. QED
      BY <2>1, <2>3, <3>1, OnlyCallLocated DEF StartsNone, nodeVars
  <2>4. ASSUME NEW p \in Pids, Starts(c, p) PROVE Located'
    <3> DEFINE owner == call[c].owner
    <3>1. /\ owner \in Nodes /\ owner \in alive /\ where[owner] = None
          /\ \A q \in Pids : q # p => proc'[q] = proc[q]
          /\ proc'[p].up /\ proc'[p].node = owner /\ ~proc[p].up /\ proc[p].node = None
      BY <2>1, <2>4, ProcStarted DEF Starts
    <3>2. Live' = Live \cup {p} /\ p \notin Live
      BY <3>1 DEF Live
    <3>3. \A q \in Live : /\ q \in Pids /\ q # p /\ proc'[q] = proc[q] /\ proc[q].node \in alive
                          /\ proc[q].node \in Nodes /\ where[proc[q].node] = q /\ proc[q].node # owner
      BY <3>1, <3>2, LivePlace, NoneIsNoPid DEF Located
    <3>4. where'[owner] = p /\ \A n \in Nodes : n # owner => where'[n] = where[n]
      BY <2>4, <3>1 DEF Starts, TypeOK
    <3>5. news' = news \cup [to : alive \ {owner}, type : {"up"}, what : {p}]
      BY <2>4 DEF Starts
    <3>6. \A n \in alive \ {owner} : \E m \in news' : m.type = "up" /\ m.to = n /\ m.what = p
      <4>1. ASSUME NEW n \in alive \ {owner}
            PROVE  \E m \in news' : m.type = "up" /\ m.to = n /\ m.what = p
        <5>1. [to |-> n, type |-> "up", what |-> p] \in news'
          BY <3>5
        <5>2. QED
          BY <5>1
      <4>2. QED
        BY <4>1
    <3>7. RegisteredHere'
      <4>1. \A q \in Live' : proc'[q].node \in alive' /\ where'[proc'[q].node] = q
        BY <2>1, <3>1, <3>2, <3>3, <3>4
      <4>2. ASSUME NEW m \in news', m.type = "down"
            PROVE  ~proc'[m.what].up /\ proc'[m.what].node # None
        <5>1. m \in news
          BY <3>5, <4>2
        <5>2. m.what \in Pids /\ ~proc[m.what].up /\ proc[m.what].node # None
          BY <4>2, <5>1 DEF Located, RegisteredHere, TypeOK
        <5>3. QED
          BY <3>1, <5>2
      <4>3. QED
        BY <4>1, <4>2 DEF RegisteredHere
    <3>8. ForksTold'
      <4>1. ASSUME NEW q \in Live PROVE NewsPending(p, q)' /\ NewsPending(q, p)'
        BY <3>3, <3>6 DEF NewsPending
      <4>2. ASSUME NEW q \in Live, NEW r \in Live, q # r PROVE NewsPending(q, r)'
        BY <3>3, <3>5, <4>2 DEF Located, ForksTold, NewsPending
      <4>3. QED
        BY <3>2, <4>1, <4>2 DEF ForksTold
    <3>9. OneOwner'
      <4>1. SUFFICES ASSUME joins = 0 PROVE OneOwner'
        BY <2>1 DEF OneOwner
      <4>2. Highest(owner) /\ \A q \in Live : Highest(proc[q].node)
        BY <2>1, <4>1 DEF Located, OneOwner
      <4>3. \A q \in Live' : Highest(proc[q].node)'
        BY <2>1, <3>1, <3>2, <3>3, <4>2 DEF Highest
      <4>4. OnlyCall(c) /\ call'[c].pc = "call"
        BY <2>2, <2>4 DEF Starts
      <4>5. \A d \in Calls : call'[d].pc = "start" => Highest(call[d].owner)'
        BY <2>1, <4>1, <4>4 DEF Located, OneOwner, OnlyCall, Highest
      <4>6. \A n \in alive' : alive' \subseteq view'[n]
        BY <2>1, <4>1 DEF Located, OneOwner
      <4>7. QED
        BY <4>3, <4>5, <4>6 DEF OneOwner
    <3>10. QED
      BY <3>7, <3>8, <3>9 DEF Located
  <2>5. QED
    BY <1>7, <2>3, <2>4, StartChildCases
<1>8. QED
  BY <1>1, <1>2, <1>4, <1>5, <1>6, <1>7 DEF Serve

\* Deaths: what is left stays where it was.
LEMMA DeathLocated ==
    ASSUME TypeOK, Located,
           \/ \E p \in Pids : ProcDies(p)
           \/ \E n \in Nodes : NodeDies(n)
    PROVE  Located'
<1>1. ASSUME NEW p \in Pids, ProcDies(p) PROVE Located'
  <2> DEFINE n == proc[p].node
  <2>1. UNCHANGED <<alive, view, call, joins>> /\ p \in Live
    BY <1>1 DEF ProcDies, Live
  <2>2. n \in alive /\ n \in Nodes /\ where[n] = p /\ n # None
    BY <2>1, LivePlace, ClusterAssumption DEF Located
  <2>3. proc' = [proc EXCEPT ![p].up = FALSE, ![p].mailbox = <<>>]
        /\ where' = [where EXCEPT ![n] = IF @ = p THEN None ELSE @]
        /\ news' = news \cup [to : alive \ {n}, type : {"down"}, what : {p}]
    BY <1>1 DEF ProcDies
  <2>4. /\ \A q \in Pids : q # p => proc'[q] = proc[q]
        /\ ~proc'[p].up /\ proc'[p].node = proc[p].node
    BY <2>3, Killed
  <2>5. Live' = Live \ {p} /\ Live \subseteq Pids
    BY <2>4 DEF Live
  <2>6. \A k \in Nodes : k # n => where'[k] = where[k]
    BY <2>3 DEF TypeOK
  <2>7. \A q \in Live' : /\ q \in Live /\ q # p /\ q \in Pids /\ proc'[q] = proc[q]
                         /\ proc[q].node \in alive
                         /\ where'[proc[q].node] = q
    <3>1. ASSUME NEW q \in Live, q # p
          PROVE  /\ q \in Pids /\ proc[q].node \in alive /\ where'[proc[q].node] = q
      <4>1. q \in Pids /\ proc[q].node \in alive /\ where[proc[q].node] = q /\ proc[q].node \in Nodes
        BY LivePlace DEF Located
      <4>2. proc[q].node # n
        BY <2>2, <3>1, <4>1
      <4>3. QED
        BY <2>6, <4>1, <4>2
    <3>2. QED
      BY <2>4, <2>5, <3>1
  <2>8. RegisteredHere'
    <3>1. ASSUME NEW m \in news', m.type = "down"
          PROVE  ~proc'[m.what].up /\ proc'[m.what].node # None
      <4>1. m \in news \/ m.what = p
        BY <2>3
      <4>2. m \in news => m.what \in Pids /\ ~proc[m.what].up /\ proc[m.what].node # None
        BY <3>1 DEF Located, RegisteredHere, TypeOK
      <4>3. QED
        BY <2>2, <2>4, <4>1, <4>2
    <3>2. QED
      BY <2>1, <2>7, <3>1 DEF RegisteredHere
  <2>9. ForksTold'
    <3>1. ASSUME NEW q \in Live', NEW r \in Live', q # r PROVE NewsPending(q, r)'
      <4>1. NewsPending(q, r)
        BY <2>7, <3>1 DEF Located, ForksTold
      <4>2. proc'[q].node = proc[q].node /\ proc'[r].node = proc[r].node /\ news \subseteq news'
        BY <2>3, <2>7
      <4>3. QED
        BY <4>1, <4>2 DEF NewsPending
    <3>2. QED
      BY <3>1 DEF ForksTold
  <2>10. OneOwner'
    BY <2>1, <2>7 DEF Located, OneOwner, Highest
  <2>11. QED
    BY <2>8, <2>9, <2>10 DEF Located
<1>2. ASSUME NEW n \in Nodes, NodeDies(n) PROVE Located'
  <2>1. joins' = joins /\ alive' = alive \ {n} /\ news' = {m \in news : m.to # n}
        /\ view' = [view EXCEPT ![n] = {}] /\ where' = [where EXCEPT ![n] = None]
    BY <1>2 DEF NodeDies
  <2>2. \A p \in Pids : /\ proc'[p].up <=> proc[p].up /\ proc[p].node # n
                        /\ proc'[p].node = proc[p].node
    BY <1>2, NodeKilled
  <2>3. Live' = {p \in Live : proc[p].node # n} /\ Live \subseteq Pids
    BY <2>2 DEF Live
  <2>4. \A p \in Live' : /\ p \in Live /\ p \in Pids /\ proc[p].node # n /\ proc'[p].node = proc[p].node
                         /\ proc[p].node \in alive'
                         /\ where'[proc[p].node] = p
    <3>1. ASSUME NEW p \in Live, proc[p].node # n
          PROVE  proc[p].node \in alive' /\ where'[proc[p].node] = p
      <4>1. proc[p].node \in alive /\ where[proc[p].node] = p /\ proc[p].node \in Nodes
        BY LivePlace DEF Located
      <4>2. QED
        BY <2>1, <3>1, <4>1 DEF TypeOK
    <3>2. QED
      BY <2>2, <2>3, <3>1
  <2>5. RegisteredHere'
    <3>1. ASSUME NEW m \in news', m.type = "down"
          PROVE  ~proc'[m.what].up /\ proc'[m.what].node # None
      <4>1. m \in news /\ m.what \in Pids /\ ~proc[m.what].up /\ proc[m.what].node # None
        BY <2>1, <3>1 DEF Located, RegisteredHere, TypeOK
      <4>2. QED
        BY <2>2, <4>1
    <3>2. QED
      BY <2>4, <3>1 DEF RegisteredHere
  <2>6. ForksTold'
    <3>1. ASSUME NEW q \in Live', NEW r \in Live', q # r PROVE NewsPending(q, r)'
      <4>1. NewsPending(q, r)
        BY <2>4, <3>1 DEF Located, ForksTold
      <4>2. PICK m \in news : /\ m.type = "up"
                              /\ \/ m.to = proc[q].node /\ m.what = r
                                 \/ m.to = proc[r].node /\ m.what = q
        BY <4>1 DEF NewsPending
      <4>3. m \in news'
        BY <2>1, <2>4, <4>2
      <4>4. QED
        BY <2>4, <4>2, <4>3 DEF NewsPending
    <3>2. QED
      BY <3>1 DEF ForksTold
  <2>7. OneOwner'
    <3>1. SUFFICES ASSUME joins = 0 PROVE OneOwner'
      BY <2>1 DEF OneOwner
    <3>2. \A k \in alive' : alive' \subseteq view'[k]
      BY <2>1, <3>1 DEF Located, OneOwner, TypeOK
    <3>3. \A p \in Live' : Highest(proc[p].node)'
      BY <2>1, <2>4, <3>1 DEF Located, OneOwner, Highest
    <3>4. ASSUME NEW c \in Calls, call'[c].pc = "start" PROVE Highest(call[c].owner)'
      <4>1. call'[c] = call[c]
        BY <1>2, <3>4, NodeKilled
      <4>2. QED
        BY <2>1, <3>1, <3>4, <4>1 DEF Located, OneOwner, Highest
    <3>5. QED
      BY <3>2, <3>3, <3>4 DEF OneOwner
  <2>8. QED
    BY <2>5, <2>6, <2>7 DEF Located
<1>3. QED
  BY <1>1, <1>2

\* News: a registration that a node learns replaces an older one, and a living
\* process that runs there hears of it.
LEMMA LearnLocated ==
    ASSUME TypeOK, Located, NEW m \in news, Learn(m)
    PROVE  Located'
<1> DEFINE n == m.to
           p == m.what
           q == where[n]
<1>1. UNCHANGED <<alive, call, joins>> /\ n \in Nodes /\ m.type \in {"member", "up", "down"}
  BY DEF Learn, boundVars, TypeOK
<1>2. q \in Pids \cup {None}
  BY <1>1 DEF TypeOK
<1>3. ASSUME NEW r \in Live
      PROVE  r \in Pids /\ proc[r].up /\ proc[r].node \in alive /\ proc[r].node \in Nodes
             /\ where[proc[r].node] = r /\ (proc[r].node = n => r = q)
  BY <1>3, LivePlace DEF Located
<1>4. ASSUME view' \in [Nodes -> SUBSET Nodes], \A k \in Nodes : view[k] \subseteq view'[k],
             Live' \subseteq Live, \A r \in Live' : proc'[r].node = proc[r].node,
             \A r \in Live' : where'[proc[r].node] = r,
             \A k \in news' : k.type = "down" => k \in news,
             \A r \in Pids : proc'[r].up => proc[r].up,
             \A r \in Pids : proc'[r].node = proc[r].node,
             \A r, s \in Live' : r # s => NewsPending(r, s)'
      PROVE  Located'
  <2>1. RegisteredHere'
    BY <1>1, <1>3, <1>4 DEF Located, RegisteredHere, TypeOK
  <2>2. ForksTold'
    BY <1>4 DEF ForksTold
  <2>3. OneOwner'
    <3>1. SUFFICES ASSUME joins = 0 PROVE OneOwner'
      BY <1>1 DEF OneOwner
    <3>2. \A k \in alive' : alive' \subseteq view'[k]
      BY <1>1, <1>4, <3>1 DEF Located, OneOwner, TypeOK
    <3>3. \A r \in Live' : Highest(proc[r].node)'
      BY <1>1, <1>4, <3>1 DEF Located, OneOwner, Highest
    <3>4. \A c \in Calls : call'[c].pc = "start" => Highest(call[c].owner)'
      BY <1>1, <3>1 DEF Located, OneOwner, Highest
    <3>5. QED
      BY <3>2, <3>3, <3>4 DEF OneOwner
  <2>4. QED
    BY <2>1, <2>2, <2>3 DEF Located
<1>5. ASSUME proc' = proc, news \ {m} \subseteq news', m.type # "up" PROVE
             \A r, s \in Live' : r # s => NewsPending(r, s)'
  <2>1. Live' = Live
    BY <1>5 DEF Live
  <2>2. QED
    BY <1>5, <2>1 DEF Located, ForksTold, NewsPending
<1>6. CASE m.type = "member"
  <2>1. view' = [view EXCEPT ![n] = IF p \in alive THEN @ \cup {p} ELSE @]
        /\ news' = news \ {m} /\ where' = where /\ proc' = proc
    BY <1>6 DEF Learn
  <2>2. view' \in [Nodes -> SUBSET Nodes] /\ \A k \in Nodes : view[k] \subseteq view'[k]
    BY <1>1, <2>1 DEF TypeOK
  <2>3. Live' = Live
    BY <2>1 DEF Live
  <2>4. \A r, s \in Live' : r # s => NewsPending(r, s)'
    BY <1>5, <1>6, <2>1
  <2>5. QED
    BY <1>3, <1>4, <2>1, <2>2, <2>3, <2>4
<1>7. CASE m.type = "down"
  <2>1. where' = [where EXCEPT ![n] = IF @ = p THEN None ELSE @]
        /\ news' = news \ {m} /\ view' = view /\ proc' = proc
    BY <1>7 DEF Learn
  <2>2. Live' = Live /\ p \notin Live
    BY <1>7, <2>1 DEF Live, Located, RegisteredHere
  <2>3. \A r \in Live : where'[proc[r].node] = r
    BY <1>1, <1>3, <2>1, <2>2 DEF TypeOK
  <2>4. \A r, s \in Live' : r # s => NewsPending(r, s)'
    BY <1>5, <1>7, <2>1
  <2>5. QED
    BY <1>4, <2>1, <2>2, <2>3, <2>4 DEF TypeOK
<1>8. CASE m.type = "up" /\ ~proc[p].up
  <2>1. news' = news \ {m} /\ view' = view /\ where' = where /\ proc' = proc
    BY <1>8 DEF Learn
  <2>2. Live' = Live /\ p \notin Live
    BY <1>8, <2>1 DEF Live
  <2>3. \A r, s \in Live' : r # s => NewsPending(r, s)'
    BY <2>1, <2>2 DEF Located, ForksTold, NewsPending
  <2>4. QED
    BY <1>3, <1>4, <2>1, <2>2, <2>3 DEF TypeOK
<1>9. CASE m.type = "up" /\ proc[p].up
  <2>1. p \in Pids /\ p \in Live
    BY <1>9 DEF TypeOK, Live
  <2>2. /\ Resolve(n, p) /\ view' = view
        /\ news' = (news \ {m}) \cup
                     (IF q # None /\ p < q /\ proc[q].node = n
                      THEN [to : alive \ {n}, type : {"up"}, what : {q}] ELSE {})
    BY <1>9 DEF Learn
  <2>3. /\ \A k \in Nodes : k # n => where'[k] = where[k]
        /\ \/ /\ proc' = proc
              /\ \/ where'[n] = p /\ (q = None \/ proc[q].node # n)
                 \/ q \in Pids /\ where'[n] = q /\ ~(q < p)
           \/ /\ q \in Pids /\ q < p /\ proc[q].node = n /\ where'[n] = p
              /\ \A r \in Pids : r # q => proc'[r] = proc[r]
              /\ ~proc'[q].up /\ proc'[q].node = proc[q].node
    BY <1>1, <2>1, <2>2, Resolved
  <2>4. /\ Live' \subseteq Live
        /\ \A r \in Pids : proc'[r].node = proc[r].node
        /\ \A r \in Pids : proc'[r].up => proc[r].up
    BY <2>3 DEF Live
  <2>5. /\ \A k \in news' : k.type = "down" => k \in news
        /\ news \ {m} \subseteq news'
    BY <2>2
  <2>6. ASSUME NEW r \in Live' PROVE where'[proc[r].node] = r
    <3>1. r \in Live
      BY <2>4
    <3>2. CASE proc[r].node # n
      BY <1>3, <2>3, <3>1, <3>2
    <3>3. CASE proc[r].node = n
      <4>1. r = q /\ r \in Pids /\ proc'[r].up
        BY <1>3, <3>1, <3>3 DEF Live
      <4>2. q # None
        BY <4>1, NoneIsNoPid
      <4>3. QED
        BY <2>3, <3>3, <4>1, <4>2
    <3>4. QED
      BY <3>2, <3>3
  <2>7. ASSUME NEW r \in Live', NEW s \in Live', r # s PROVE NewsPending(r, s)'
    <3>1. r \in Live /\ s \in Live /\ r \in Pids /\ s \in Pids
      BY <2>4, <1>3
    <3>2. PICK k \in news : /\ k.type = "up"
                            /\ \/ k.to = proc[r].node /\ k.what = s
                               \/ k.to = proc[s].node /\ k.what = r
      BY <2>7, <3>1 DEF Located, ForksTold, NewsPending
    <3>3. CASE k # m
      <4>1. k \in news' /\ proc'[r].node = proc[r].node /\ proc'[s].node = proc[s].node
        BY <2>4, <2>5, <3>1, <3>3
      <4>2. QED
        BY <3>2, <4>1 DEF NewsPending
    <3>4. CASE k = m
      <4>1. PICK a \in Live, b \in Live : /\ a \in {r, s} /\ b \in {r, s} /\ a # b
                                          /\ n = proc[a].node /\ p = b
        BY <2>7, <3>1, <3>2, <3>4
      <4>2. a = q /\ a \in Pids /\ proc'[a].up /\ proc[b].node \in alive \ {n}
        BY <1>3, <2>7, <4>1, LivePlace DEF Live, Located
      <4>3. ~(q < p)
        <5> HIDE DEF n, p, q
        <5>1. proc'[q].up /\ proc[q].node = n /\ q # None
          BY <4>1, <4>2, NoneIsNoPid
        <5>2. QED
          BY <2>3, <5>1
      <4>4. p < q /\ q # None
        BY <2>1, <4>1, <4>2, <4>3, NoneIsNoPid DEF Pids
      <4>5. [to |-> proc[b].node, type |-> "up", what |-> q] \in news'
        BY <2>2, <4>1, <4>2, <4>4
      <4>6. proc'[b].node = proc[b].node
        <5>1. b \in Pids
          BY <3>1, <4>1
        <5>2. QED
          BY <2>4, <5>1
      <4>7. \E x \in news' : x.type = "up" /\ x.to = proc'[b].node /\ x.what = a
        BY <4>2, <4>5, <4>6
      <4>8. QED
        BY <4>1, <4>7 DEF NewsPending
    <3>5. QED
      BY <3>3, <3>4
  <2>8. QED
    <3>1. view' \in [Nodes -> SUBSET Nodes] /\ \A k \in Nodes : view[k] \subseteq view'[k]
      BY <2>2 DEF TypeOK
    <3>2. \A r \in Live' : proc'[r].node = proc[r].node
      BY <1>3, <2>4
    <3>3. QED
      BY <1>4, <2>4, <2>5, <2>6, <2>7, <3>1, <3>2
<1>10. QED
  BY <1>1, <1>6, <1>7, <1>8, <1>9

LEMMA LocatedStep ==
    ASSUME Placed, Located, [Next]_vars
    PROVE  Located'
<1> USE DEF Placed
<1>1. ASSUME UNCHANGED <<alive, where, news, joins, proc, call>>,
             joins = 0 => \A n \in alive : alive \subseteq view'[n]
      PROVE  Located'
  BY <1>1, SamePlaces
<1>2. CASE UNCHANGED vars
  <2>1. joins = 0 => \A n \in alive : alive \subseteq view'[n]
    BY <1>2 DEF vars, nodeVars, Located, OneOwner
  <2>2. QED
    BY <1>1, <1>2, <2>1 DEF vars, nodeVars, boundVars
<1>3. ASSUME NEW p \in Pids, Handle(p) PROVE Located'
  <2>1. UNCHANGED <<nodeVars, joins>>
    BY <1>3 DEF Handle, boundVars
  <2>2. \A q \in Pids : proc'[q].up = proc[q].up /\ proc'[q].node = proc[q].node
    BY <1>3, MessageHandled
  <2>3. CASE UNCHANGED call
    <3>1. joins = 0 => \A n \in alive : alive \subseteq view'[n]
      BY <2>1 DEF nodeVars, Located, OneOwner
    <3>2. QED
      BY <2>1, <2>2, <2>3, <3>1, SamePlaces DEF nodeVars
  <2>4. ASSUME NEW c \in Calls, NEW a \in Answers, Reply(c, a) PROVE Located'
    BY <2>1, <2>2, <2>4, Replied, OnlyCallLocated
  <2>5. QED
    BY <1>3, <2>3, <2>4, HandleAnswers
<1>4. ASSUME NEW n \in Nodes, Join(n) PROVE Located'
  <2>1. /\ UNCHANGED <<where, proc, call>> /\ joins' = joins + 1 /\ alive' = alive \cup {n}
        /\ news \subseteq news' /\ \A m \in news' : m.type = "down" => m \in news
    BY <1>4 DEF Join
  <2>2. Live' = Live
    BY <2>1 DEF Live
  <2>3. RegisteredHere'
    BY <2>1, <2>2 DEF Located, RegisteredHere
  <2>4. ForksTold'
    BY <2>1, <2>2 DEF Located, ForksTold, NewsPending
  <2>5. OneOwner'
    BY <2>1 DEF OneOwner, TypeOK
  <2>6. QED
    BY <2>3, <2>4, <2>5 DEF Located
<1>5. ASSUME NEW n \in Nodes, ForgetGames(n) PROVE Located'
  <2>1. /\ UNCHANGED <<alive, view, news, proc, call, joins>> /\ where' = [where EXCEPT ![n] = None]
        /\ proc[where[n]].node \notin alive
    BY <1>5 DEF ForgetGames, boundVars
  <2>2. Live' = Live
    BY <2>1 DEF Live
  <2>3. ASSUME NEW p \in Live PROVE proc[p].node \in alive /\ where'[proc[p].node] = p
    <3>1. proc[p].node \in alive /\ proc[p].node \in Nodes /\ where[proc[p].node] = p
      BY LivePlace DEF Located
    <3>2. QED
      BY <2>1, <3>1 DEF TypeOK
  <2>4. RegisteredHere'
    BY <2>1, <2>2, <2>3 DEF Located, RegisteredHere
  <2>5. ForksTold' /\ OneOwner'
    BY <2>1, <2>2 DEF Located, ForksTold, NewsPending, OneOwner, Highest
  <2>6. QED
    BY <2>4, <2>5 DEF Located
<1>6. ASSUME NEW n \in Nodes, NEW m \in Nodes, ForgetNode(n, m) PROVE Located'
  <2>1. /\ UNCHANGED <<alive, where, news, proc, call, joins>> /\ m \notin alive
        /\ view' = [view EXCEPT ![n] = @ \ {m}]
    BY <1>6 DEF ForgetNode, boundVars
  <2>2. joins = 0 => \A k \in alive : alive \subseteq view'[k]
    BY <2>1 DEF Located, OneOwner, TypeOK
  <2>3. QED
    BY <1>1, <2>1, <2>2
<1>7. QED
  BY <1>2, <1>3, <1>4, <1>5, <1>6, ServeLocated, DeathLocated, LearnLocated DEF Next

-----------------------------------------------------------------------------
(* The checkpoint. *)

LEMMA InAppended ==
    ASSUME NEW line \in Seq(Calls), NEW c \in Calls, NEW d \in Calls
    PROVE  /\ In(c, Append(line, c))
           /\ In(d, line) => In(d, Append(line, c))
<1>1. /\ Append(line, c) \in Seq(Calls) /\ Len(line) \in Nat
      /\ Len(Append(line, c)) = Len(line) + 1
      /\ \A i \in 1 .. Len(line) : Append(line, c)[i] = line[i]
      /\ Append(line, c)[Len(line) + 1] = c
  BY AppendProperties
<1>2. DOMAIN line = 1 .. Len(line) /\ DOMAIN Append(line, c) = 1 .. Len(line) + 1
  BY <1>1
<1> DEFINE longer == Append(line, c)
<1> HIDE DEF longer
<1>3. In(c, longer)
  BY <1>1, <1>2 DEF In, longer
<1>4. In(d, line) => In(d, longer)
  BY <1>1, <1>2 DEF In, longer
<1>5. QED
  BY <1>3, <1>4 DEF longer

LEMMA DurableInit == Init => Durable
<1> HAVE Init
<1>1. ASSUME NEW p \in Live PROVE p = 1 /\ proc[p].line = <<>>
  BY <1>1 DEF Init, Live, NoProc
<1>2. \A c \in Calls : call[c].answer # "ok"
  BY ClusterAssumption DEF Init, NoCall
<1>3. QED
  BY <1>1, <1>2 DEF Durable, Init

\* A step that counts nothing and starts nothing.
LEMMA NothingCounted ==
    ASSUME Durable, UNCHANGED <<cp, forked>>, Live' \subseteq Live,
           \A p \in Live' : proc'[p].line = proc[p].line,
           \A c \in Calls : call'[c].answer = "ok" => call[c].answer = "ok"
    PROVE  Durable'
  BY DEF Durable

\* The process dies, with its last move saved or not.
LEMMA DeathDurable ==
    ASSUME TypeOK, Durable, NEW p \in Live, cp' \in LeftBehind(p), UNCHANGED forked,
           Live' \subseteq Live \ {p},
           \A c \in Calls : call'[c].answer = "ok" => call[c].answer = "ok"
    PROVE  Durable'
<1>1. SUFFICES ASSUME ~forked PROVE Durable'
  BY DEF Durable
<1>2. Live' = {} /\ proc[p].line = cp /\ cp \in Seq(Calls) /\ p \in Pids
  BY <1>1 DEF Durable, TypeOK, Live
<1>3. ASSUME NEW c \in Calls, In(c, cp) PROVE In(c, cp')
  <2>1. cp' = cp \/ \E d \in Calls : cp' = Append(cp, d)
    BY <1>2, LeftSaved
  <2>2. \A d \in Calls : In(c, Append(cp, d))
    BY <1>2, <1>3, InAppended
  <2>3. QED
    BY <1>3, <2>1, <2>2
<1>4. QED
  BY <1>1, <1>2, <1>3 DEF Durable

LEMMA OnlyCallDurable ==
    ASSUME Durable, UNCHANGED <<cp, forked>>, NEW c \in Calls, OnlyCall(c),
           call'[c].answer # "ok" \/ call'[c].answer = call[c].answer,
           \A p \in Pids : proc'[p].up = proc[p].up /\ proc'[p].line = proc[p].line
    PROVE  Durable'
<1>1. Live' = Live /\ \A p \in Live' : proc'[p].line = proc[p].line
  BY DEF Live
<1>2. \A d \in Calls : call'[d].answer = "ok" => call[d].answer = "ok"
  BY DEF OnlyCall
<1>3. QED
  BY <1>1, <1>2, NothingCounted

LEMMA DurableStep ==
    ASSUME Placed, Durable, [Next]_vars
    PROVE  Durable'
<1> USE DEF Placed
<1>1. ASSUME UNCHANGED <<cp, forked, proc, call>> PROVE Durable'
  <2>1. Live' = Live
    BY <1>1 DEF Live
  <2>2. QED
    BY <1>1, <2>1 DEF Durable
<1>2. ASSUME NEW c \in Calls, NEW n \in Nodes, Request(c, n) PROVE Durable'
  <2>1. UNCHANGED <<cp, forked, proc>>
    BY <1>2 DEF Request
  <2>2. QED
    BY <1>2, <2>1, Requested, OnlyCallDurable
<1>3. ASSUME NEW c \in Calls, Lookup(c) PROVE Durable'
  <2>1. UNCHANGED <<cp, forked, proc>>
    BY <1>3 DEF Lookup
  <2>2. OnlyCall(c) /\ call'[c].answer = call[c].answer
    BY <1>3 DEF Lookup, TypeOK, CallStates, OnlyCall
  <2>3. QED
    BY <2>1, <2>2, OnlyCallDurable
<1>4. ASSUME NEW c \in Calls, Exits(c), UNCHANGED <<cp, forked, proc>> PROVE Durable'
  <2>1. OnlyCall(c) /\ (call'[c].answer # "ok" \/ call'[c].answer = call[c].answer)
    BY <1>4, Exited
  <2>2. QED
    BY <1>4, <2>1, OnlyCallDurable
<1>5. ASSUME NEW c \in Calls, Send(c) PROVE Durable'
  <2>1. UNCHANGED <<cp, forked>> /\ call[c].pid \in Pids
    BY <1>5 DEF Send, CallsPlaced
  <2>2. CASE Exits(c) /\ UNCHANGED proc
    BY <1>4, <2>1, <2>2
  <2>3. CASE /\ proc' = [proc EXCEPT ![call[c].pid].mailbox = Append(@, c)]
             /\ Goto(c, "wait")
    <3>1. \A p \in Pids : proc'[p].up = proc[p].up /\ proc'[p].line = proc[p].line
      <4>1. PICK q \in Pids : q = call[c].pid
        BY <2>1
      <4>2. proc' = [proc EXCEPT ![q].mailbox = Append(@, c)]
        BY <2>3, <4>1
      <4>3. QED
        BY <4>2, MessageSent
    <3>2. OnlyCall(c) /\ call'[c].answer = call[c].answer
      BY <2>3, Went DEF Steps
    <3>3. QED
      BY <2>1, <3>1, <3>2, OnlyCallDurable
  <2>4. QED
    BY <1>5, <2>2, <2>3 DEF Send
<1>6. ASSUME NEW c \in Calls, Down(c) \/ Timeout(c) PROVE Durable'
  BY <1>4, <1>6 DEF Down, Timeout
<1>7. ASSUME NEW c \in Calls, Restore(c) PROVE Durable'
  <2>1. UNCHANGED <<cp, forked, proc>>
    BY <1>7 DEF Restore
  <2>2. CASE Reply(c, "no_such_game")
    <3>1. OnlyCall(c) /\ call'[c].answer = "no_such_game"
      BY <2>2, Replied DEF Answers
    <3>2. QED
      BY <2>1, <3>1, OnlyCallDurable
  <2>3. ASSUME NEW owner \in alive,
               call' = [call EXCEPT ![c].pc = "start", ![c].owner = owner, ![c].loaded = cp,
                                    ![c].again = TRUE]
        PROVE  Durable'
    <3>1. OnlyCall(c) /\ call'[c].answer = call[c].answer
      BY <2>3, Restored DEF TypeOK
    <3>2. QED
      BY <2>1, <3>1, OnlyCallDurable
  <2>4. QED
    BY <1>7, <2>2, <2>3 DEF Restore
<1>8. ASSUME NEW c \in Calls, StartChild(c) PROVE Durable'
  <2>1. call[c].pc = "start"
    BY <1>8 DEF StartChild
  <2>2. ASSUME NEW q \in Pids, call' = [call EXCEPT ![c].pc = "call", ![c].pid = q]
        PROVE  OnlyCall(c) /\ call'[c].answer = call[c].answer
    BY <2>2, Looked DEF Steps
  <2>3. CASE StartsNone(c)
    <3>1. OnlyCall(c) /\ (call'[c].answer # "ok" \/ call'[c].answer = call[c].answer)
      <4>1. CASE Reply(c, "no_such_game")
        BY <4>1, Replied DEF Answers
      <4>2. QED
        BY <2>2, <2>3, <4>1 DEF StartsNone
    <3>2. QED
      BY <2>3, <3>1, OnlyCallDurable DEF StartsNone
  <2>4. ASSUME NEW p \in Pids, Starts(c, p) PROVE Durable'
    <3>1. SUFFICES ASSUME ~forked' PROVE Durable'
      BY DEF Durable
    <3>2. ~forked /\ Live = {} /\ cp = call[c].loaded /\ cp' = cp
      BY <2>4, <3>1 DEF Starts, TypeOK
    <3>3. /\ \A q \in Pids : q # p => proc'[q] = proc[q]
          /\ proc'[p].up /\ proc'[p].line = call[c].loaded
      BY <2>1, <2>4, ProcStarted
    <3>4. Live' = {p}
      BY <3>2, <3>3 DEF Live
    <3>5. \A d \in Calls : call'[d].answer = call[d].answer
      BY <2>2, <2>4 DEF Starts, OnlyCall
    <3>6. QED
      BY <3>2, <3>3, <3>4, <3>5 DEF Durable
  <2>5. QED
    BY <1>8, <2>3, <2>4, StartChildCases
<1>9. ASSUME NEW p \in Pids, Handle(p) PROVE Durable'
  <2> DEFINE c == Head(proc[p].mailbox)
  <2>1. SUFFICES ASSUME ~forked' PROVE Durable'
    BY DEF Durable
  <2>2. ~forked /\ p \in Live /\ forked' = forked
    BY <1>9, <2>1 DEF Handle, Live
  <2>3. Live = {p} /\ proc[p].line = cp /\ cp \in Seq(Calls)
    BY <2>2 DEF Durable, TypeOK
  <2>4. c \in Calls /\ proc'[p].up /\ \A q \in Pids : q # p => proc'[q] = proc[q]
    BY <1>9, MessageHandled
  <2>5. Live' = {p}
    BY <2>3, <2>4 DEF Live
  <2> HIDE DEF c
  <2>6. proc'[p].line = cp' /\ (cp' = cp \/ cp' = Append(cp, c))
    BY <1>9, <2>3, MessageHandled DEF c
  <2>7. ASSUME NEW d \in Calls, In(d, cp) PROVE In(d, cp')
    <3>1. In(d, Append(cp, c))
      <4>1. c \in Calls /\ cp \in Seq(Calls)
        BY <2>3, <2>4 DEF c
      <4>2. QED
        BY <2>7, <4>1, InAppended
    <3>2. QED
      BY <2>6, <2>7, <3>1
  <2>8. ASSUME NEW d \in Calls, call'[d].answer = "ok" PROVE In(d, cp')
    <3>1. CASE call'[d] = call[d]
      BY <2>2, <2>7, <2>8, <3>1 DEF Durable
    <3>2. CASE call'[d] # call[d]
      <4>1. c \in Calls /\ cp \in Seq(Calls)
        BY <2>3, <2>4 DEF c
      <4>2. PICK a \in Answers : Reply(c, a) /\ (a = "ok" => cp' = Append(proc[p].line, c))
        BY <1>9, <3>2, HandleAnswers DEF c
      <4>3. OnlyCall(c) /\ call'[c].answer = a
        BY <4>1, <4>2, Replied
      <4>4. d = c /\ a = "ok"
        BY <2>8, <3>2, <4>3 DEF OnlyCall
      <4>5. In(c, Append(cp, c))
        BY <4>1, InAppended
      <4>6. QED
        BY <2>3, <4>2, <4>4, <4>5
    <3>3. QED
      BY <3>1, <3>2
  <2>9. QED
    BY <2>5, <2>6, <2>8 DEF Durable
<1>10. ASSUME NEW p \in Pids, ProcDies(p) PROVE Durable'
  <2>1. /\ UNCHANGED <<forked, call>> /\ p \in Live /\ cp' \in LeftBehind(p)
        /\ proc' = [proc EXCEPT ![p].up = FALSE, ![p].mailbox = <<>>]
    BY <1>10 DEF ProcDies, Live
  <2>2. Live' \subseteq Live \ {p}
    BY <2>1, Killed DEF Live
  <2>3. QED
    BY <2>1, <2>2, DeathDurable
<1>11. ASSUME NEW n \in Nodes, NodeDies(n) PROVE Durable'
  <2>1. /\ UNCHANGED forked
        /\ cp' = cp \/ \E p \in Live : proc[p].node = n /\ cp' \in LeftBehind(p)
    BY <1>11 DEF NodeDies
  <2>2. /\ Live' \subseteq Live /\ \A q \in Live' : proc'[q].line = proc[q].line
        /\ \A q \in Live' : proc[q].node # n
    BY <1>11, NodeKilled DEF Live
  <2>3. \A c \in Calls : call'[c].answer = "ok" => call[c].answer = "ok"
    BY <1>11, NodeKilled
  <2>4. CASE cp' = cp
    BY <2>1, <2>2, <2>3, <2>4, NothingCounted
  <2>5. ASSUME NEW p \in Live, proc[p].node = n, cp' \in LeftBehind(p) PROVE Durable'
    <3>1. Live' \subseteq Live \ {p}
      BY <2>2, <2>5
    <3>2. QED
      BY <2>1, <2>3, <2>5, <3>1, DeathDurable
  <2>6. QED
    BY <2>1, <2>4, <2>5
<1>12. ASSUME NEW m \in news, Learn(m) PROVE Durable'
  <2>1. UNCHANGED <<cp, forked, call>>
    BY <1>12 DEF Learn
  <2>2. CASE UNCHANGED proc
    BY <1>1, <2>1, <2>2
  <2>3. CASE m.type = "up" /\ proc[m.what].up /\ Resolve(m.to, m.what)
    <3>1. m.to \in Nodes /\ m.what \in Pids
      BY <2>3 DEF TypeOK
    <3>2. \A q \in Pids : (proc'[q].up => proc[q].up) /\ proc'[q].line = proc[q].line
      BY <2>3, <3>1, Resolved
    <3>3. Live' \subseteq Live /\ \A q \in Live' : proc'[q].line = proc[q].line
      BY <3>2 DEF Live
    <3>4. QED
      BY <2>1, <3>3, NothingCounted
  <2>4. QED
    BY <1>12, <2>2, <2>3 DEF Learn
<1>13. QED
  <2>1. ASSUME NEW n \in Nodes, Join(n) \/ ForgetGames(n) \/ \E m \in Nodes : ForgetNode(n, m)
        PROVE  Durable'
    BY <1>1, <2>1 DEF Join, ForgetGames, ForgetNode
  <2>2. UNCHANGED vars => Durable'
    BY <1>1 DEF vars
  <2>3. QED
    BY <1>2, <1>3, <1>5, <1>6, <1>7, <1>8, <1>9, <1>10, <1>11, <1>12, <2>1, <2>2 DEF Next, Serve

-----------------------------------------------------------------------------
(* One fault. *)

LEMMA OneFaultInit == Init => OneFault
<1> HAVE Init
<1>1. 1 \in Pids
  BY ClusterAssumption DEF Pids
<1>2. 1 \in Live
  BY <1>1 DEF Init, Live, NoProc
<1>3. \A c \in Calls : Content(c)
  BY DEF Init, NoCall, Content
<1>4. news = {} /\ \A n \in alive : where[n] = 1
  <2>1. alive = Founders /\ \A n \in Founders : where[n] = 1
    BY ClusterAssumption DEF Init
  <2>2. QED
    BY <2>1 DEF Init
<1>5. Running
  BY <1>2, <1>3, <1>4 DEF Running
<1>6. QED
  BY <1>5 DEF Init, OneFault

\* A step that leaves the processes and the registry: who comes to start the game
\* has loaded the checkpoint, and who was content with the first process is.
LEMMA OneFaultKept ==
    ASSUME OneFault, UNCHANGED <<alive, where, news, cp, boundVars, forked>>, Live' = Live,
           \A c \in Calls : call'[c].pc = "start" =>
               call'[c].loaded = cp \/ (call[c].pc = "start" /\ call'[c].loaded = call[c].loaded),
           joins = 0 /\ deaths = 0 /\ timeouts = 0 => \A c \in Calls : Content(c)'
    PROVE  OneFault'
<1>1. UNCHANGED <<deaths, timeouts, joins>>
  BY DEF boundVars
<1>2. SUFFICES ASSUME joins = 0 PROVE OneFault'
  BY <1>1 DEF OneFault
<1>3. deaths = 0 => Running'
  BY <1>1, <1>2 DEF OneFault, Running
<1>4. QED
  BY <1>1, <1>2, <1>3 DEF OneFault

\* The same of one call.
LEMMA OneFaultCall ==
    ASSUME OneFault, UNCHANGED <<alive, where, news, cp, boundVars, forked>>, Live' = Live,
           NEW c \in Calls, OnlyCall(c),
           call'[c].pc # "start" \/ call'[c].loaded = cp,
           joins = 0 /\ deaths = 0 /\ timeouts = 0 => Content(c)'
    PROVE  OneFault'
<1>1. ASSUME NEW d \in Calls, call'[d].pc = "start"
      PROVE  call'[d].loaded = cp \/ (call[d].pc = "start" /\ call'[d].loaded = call[d].loaded)
  BY <1>1 DEF OnlyCall
<1>2. ASSUME joins = 0, deaths = 0, timeouts = 0, NEW d \in Calls PROVE Content(d)'
  <2>1. Content(d)
    BY <1>2 DEF OneFault, Running
  <2>2. QED
    BY <1>2, <2>1 DEF OnlyCall, Content
<1>3. QED
  BY <1>1, <1>2, OneFaultKept

\* While no node joins, a process is started only when none lives: it would be on the
\* same owner, and registered there.
LEMMA StartsAlone ==
    ASSUME Placed, Located, joins = 0, NEW c \in Calls, call[c].pc = "start",
           NEW p \in Pids, Starts(c, p)
    PROVE  Live = {}
<1>1. SUFFICES ASSUME NEW q \in Live PROVE FALSE
  OBVIOUS
<1>2. PICK m \in Nodes, n \in Nodes : m = proc[q].node /\ n = call[c].owner
  BY LivePlace DEF Placed, Located, CallsPlaced
<1>3. m \in alive /\ n \in alive /\ where[m] = q /\ where[n] = None /\ q \in Pids
  BY <1>2, LivePlace DEF Placed, Located, Starts
<1>4. Highest(m) /\ Highest(n)
  BY <1>2 DEF Located, OneOwner
<1>5. Weight[m] <= Weight[n] /\ Weight[n] <= Weight[m]
  BY <1>3, <1>4 DEF Highest
<1>6. Weight[m] \in Nat /\ Weight[n] \in Nat
  BY HashesAreNat, ClusterAssumption
<1>7. m = n
  BY <1>5, <1>6, ClusterAssumption
<1>8. QED
  BY <1>3, <1>7, NoneIsNoPid

\* A process or node dies, the first thing to happen or not.
LEMMA OneFaultDeath ==
    ASSUME TypeOK, OneFault, deaths' = deaths + 1, UNCHANGED <<timeouts, joins, forked>>,
           \A c \in Calls : call'[c] = call[c] \/ call'[c].pc = "done"
    PROVE  OneFault'
<1>1. SUFFICES ASSUME joins = 0, deaths = 0, timeouts = 0 PROVE OneFault'
  BY DEF OneFault, TypeOK
<1>2. ~forked /\ \A c \in Calls : call[c].pc # "start"
  BY <1>1 DEF OneFault, Running, Content
<1>3. \A c \in Calls : call'[c].pc # "start"
  BY <1>2
<1>4. QED
  BY <1>1, <1>2, <1>3 DEF OneFault

LEMMA ServeOneFault ==
    ASSUME Placed, Located, OneFault, NEW c \in Calls,
           Serve(c) \/ Timeout(c) \/ \E n \in Nodes : Request(c, n)
    PROVE  OneFault'
<1> USE DEF Placed
<1> DEFINE Calm == joins = 0 /\ deaths = 0 /\ timeouts = 0
<1>1. Calm => /\ Content(c) /\ 1 \in Live /\ \A n \in alive : where[n] = 1
  BY DEF OneFault, Running
<1>2. 1 # None
  BY NoneIsNoPid, ClusterAssumption DEF Pids
<1>3. CASE \E n \in Nodes : Request(c, n)
  <2>1. PICK n \in Nodes : Request(c, n)
    BY <1>3
  <2>2. OnlyCall(c) /\ call'[c].pc = "lookup"
    BY <2>1, Requested
  <2>3. QED
    BY <2>1, <2>2, OneFaultCall DEF Request, nodeVars, Live, Content
<1>4. CASE Lookup(c)
  <2>1. /\ call[c].pc = "lookup" /\ call[c].node \in alive
        /\ UNCHANGED <<nodeVars, proc, cp, boundVars, forked>>
    BY <1>4 DEF Lookup, CallsPlaced
  <2>2. PICK q : q = where[call[c].node]
    OBVIOUS
  <2>3. q \in Pids \cup {None}
    BY <2>1, <2>2 DEF TypeOK
  <2>4. PICK pc \in {"restore", "call"} :
            /\ call' = [call EXCEPT ![c].pid = q, ![c].pc = pc]
            /\ pc = IF q = None THEN "restore" ELSE "call"
    BY <1>4, <2>2 DEF Lookup
  <2>5. /\ OnlyCall(c) /\ call'[c].pc = pc /\ call'[c].pid = q
    BY <2>3, <2>4 DEF TypeOK, CallStates, OnlyCall
  <2>6. Calm => Content(c)'
    BY <1>1, <1>2, <2>1, <2>2, <2>4, <2>5 DEF Content
  <2>7. QED
    BY <2>1, <2>5, <2>6, OneFaultCall DEF nodeVars, Live
<1>5. ASSUME Exits(c), UNCHANGED <<nodeVars, proc, cp, boundVars, forked>>, ~Calm PROVE OneFault'
  <2>1. OnlyCall(c) /\ call'[c].pc # "start"
    BY <1>5, Exited
  <2>2. QED
    BY <1>5, <2>1, OneFaultCall DEF nodeVars, Live
<1>6. CASE Send(c)
  <2>1. /\ call[c].pc = "call" /\ call[c].pid \in Pids
        /\ UNCHANGED <<nodeVars, cp, boundVars, forked>>
    BY <1>6 DEF Send, CallsPlaced
  <2>2. CASE Exits(c) /\ UNCHANGED proc /\ ~proc[call[c].pid].up
    <3>1. ~Calm
      BY <1>1, <2>1, <2>2 DEF Content, Live
    <3>2. QED
      BY <1>5, <2>1, <2>2, <3>1
  <2>3. CASE /\ proc' = [proc EXCEPT ![call[c].pid].mailbox = Append(@, c)]
             /\ Goto(c, "wait")
    <3>1. PICK q \in Pids : q = call[c].pid
      BY <2>1
    <3>2. proc' = [proc EXCEPT ![q].mailbox = Append(@, c)]
      BY <2>3, <3>1
    <3>3. \A p \in Pids : proc'[p].up = proc[p].up
      BY <3>2, MessageSent
    <3>4. OnlyCall(c) /\ call'[c].pc = "wait" /\ call'[c].pid = call[c].pid
      BY <2>3, Went DEF Steps
    <3>5. Live' = Live
      BY <3>3 DEF Live
    <3>6. Calm => Content(c)'
      BY <1>1, <2>1, <3>4 DEF Content
    <3>7. QED
      BY <2>1, <3>4, <3>5, <3>6, OneFaultCall DEF nodeVars
  <2>4. QED
    BY <1>6, <2>2, <2>3 DEF Send
<1>7. CASE Down(c)
  <2>1. ~Calm
    BY <1>1, <1>7 DEF Down, Content, Live
  <2>2. QED
    BY <1>5, <1>7, <2>1 DEF Down
<1>8. CASE Timeout(c)
  <2>1. /\ Exits(c) /\ UNCHANGED <<nodeVars, proc, cp, deaths, joins, forked>>
        /\ timeouts' # 0
    BY <1>8 DEF Timeout, TypeOK
  <2>2. Live' = Live
    BY <2>1 DEF Live
  <2>3. joins = 0 /\ deaths = 0 => Running'
    BY <2>1, <2>2 DEF OneFault, Running, nodeVars
  <2>4. QED
    BY <2>1, <2>3 DEF OneFault
<1>9. ASSUME NEW a \in Answers, Reply(c, a), UNCHANGED <<nodeVars, proc, cp, boundVars, forked>>
      PROVE  OneFault'
  <2>1. OnlyCall(c) /\ call'[c].pc = "done"
    BY <1>9, Replied
  <2>2. QED
    BY <1>9, <2>1, OneFaultCall DEF nodeVars, Live, Content
<1>10. CASE Restore(c)
  <2>1. call[c].pc = "restore" /\ UNCHANGED <<nodeVars, proc, cp, boundVars, forked>>
    BY <1>10 DEF Restore
  <2>2. CASE Reply(c, "no_such_game")
    BY <1>9, <2>1, <2>2 DEF Answers
  <2>3. ASSUME NEW owner \in alive,
               call' = [call EXCEPT ![c].pc = "start", ![c].owner = owner, ![c].loaded = cp,
                                    ![c].again = TRUE]
        PROVE  OneFault'
    <3>1. OnlyCall(c) /\ call'[c].loaded = cp
      BY <2>3, Restored DEF TypeOK
    <3>2. ~Calm
      BY <1>1, <2>1 DEF Content
    <3>3. QED
      BY <2>1, <3>1, <3>2, OneFaultCall DEF nodeVars, Live
  <2>4. QED
    BY <1>10, <2>2, <2>3 DEF Restore
<1>11. CASE StartChild(c)
  <2>1. call[c].pc = "start" /\ UNCHANGED <<alive, view, boundVars>>
    BY <1>11 DEF StartChild
  <2>2. CASE StartsNone(c)
    <3>1. UNCHANGED <<nodeVars, proc, cp, boundVars, forked>>
      BY <2>1, <2>2 DEF StartsNone, nodeVars
    <3>2. CASE Reply(c, "no_such_game")
      BY <1>9, <3>1, <3>2 DEF Answers
    <3>3. ASSUME NEW q \in Pids, call' = [call EXCEPT ![c].pc = "call", ![c].pid = q]
          PROVE  OneFault'
      <4>1. OnlyCall(c) /\ call'[c].pc = "call"
        BY <3>3, Looked DEF Steps
      <4>2. ~Calm
        BY <1>1, <2>1 DEF Content
      <4>3. QED
        BY <3>1, <4>1, <4>2, OneFaultCall DEF nodeVars, Live
    <3>4. QED
      BY <2>2, <3>2, <3>3 DEF StartsNone
  <2>3. ASSUME NEW p \in Pids, Starts(c, p) PROVE OneFault'
    <3>1. UNCHANGED <<deaths, timeouts, joins>>
      BY <2>1 DEF boundVars
    <3>2. SUFFICES ASSUME joins = 0 PROVE OneFault'
      BY <3>1 DEF OneFault
    <3>3. Live = {}
      BY <2>1, <2>3, <3>2, StartsAlone
    <3>4. p \in Live'
      BY <2>1, <2>3, ProcStarted DEF Live
    <3>5. deaths # 0
      BY <3>2, <3>3 DEF OneFault, Running
    <3>6. ASSUME deaths <= 1, timeouts = 0 PROVE ~forked'
      <4>1. deaths = 1
        BY <3>5, <3>6 DEF TypeOK
      <4>2. ~forked /\ call[c].loaded = cp
        BY <2>1, <3>2, <3>3, <3>6, <4>1 DEF OneFault
      <4>3. QED
        BY <2>3, <3>3, <4>2 DEF Starts
    <3>7. deaths <= 1 /\ (deaths = 1 => timeouts = 0) => timeouts = 0
      BY <3>5 DEF TypeOK
    <3>8. QED
      BY <3>1, <3>4, <3>5, <3>6, <3>7 DEF OneFault
  <2>4. QED
    BY <1>11, <2>2, <2>3, StartChildCases
<1>12. QED
  BY <1>3, <1>4, <1>6, <1>7, <1>8, <1>10, <1>11 DEF Serve

LEMMA OneFaultStep ==
    ASSUME Placed, Located, OneFault, [Next]_vars
    PROVE  OneFault'
<1> USE DEF Placed
<1>1. CASE UNCHANGED vars
  BY <1>1 DEF vars, nodeVars, boundVars, OneFault, Running, Content, Live
<1>2. ASSUME NEW p \in Pids, Handle(p) PROVE OneFault'
  <2>1. UNCHANGED <<nodeVars, boundVars, forked>>
    BY <1>2 DEF Handle
  <2>2. Live' = Live /\ p \in Live
    BY <1>2, MessageHandled DEF Live
  <2>3. \A c \in Calls : call'[c] = call[c] \/ call'[c].pc = "done"
    <3>1. ASSUME NEW d \in Calls, NEW a \in Answers, Reply(d, a), NEW c \in Calls
          PROVE  call'[c] = call[c] \/ call'[c].pc = "done"
      BY <3>1, Replied DEF OnlyCall
    <3>2. QED
      BY <1>2, <3>1, HandleAnswers
  <2>4. \A c \in Calls : Content(c) => Content(c)'
    BY <2>3 DEF Content
  <2>5. Running => Running'
    BY <2>1, <2>2, <2>4 DEF Running, nodeVars, boundVars
  <2>6. QED
    BY <2>1, <2>2, <2>5 DEF OneFault, boundVars
<1>3. ASSUME NEW p \in Pids, ProcDies(p) PROVE OneFault'
  BY <1>3, OneFaultDeath DEF ProcDies
<1>4. ASSUME NEW n \in Nodes, NodeDies(n) PROVE OneFault'
  <2>1. \A c \in Calls : call'[c] = call[c] \/ call'[c].pc = "done"
    BY <1>4, NodeKilled
  <2>2. QED
    BY <1>4, <2>1, OneFaultDeath DEF NodeDies
<1>5. ASSUME NEW n \in Nodes, Join(n) PROVE OneFault'
  <2>1. joins' # 0
    BY <1>5 DEF Join, TypeOK
  <2>2. QED
    BY <2>1 DEF OneFault
\* What a step about the nodes' copies changes does not matter once something died.
<1>6. ASSUME UNCHANGED <<cp, call, boundVars, forked>>, deaths # 0 \/ joins # 0,
             Live' = Live \/ Live' # {}
      PROVE  OneFault'
  BY <1>6 DEF OneFault, boundVars
<1>7. ASSUME NEW n \in Nodes, ForgetGames(n) PROVE OneFault'
  <2>1. /\ UNCHANGED <<proc, cp, call, boundVars, forked>> /\ n \in alive
        /\ proc[where[n]].node \notin alive
    BY <1>7 DEF ForgetGames
  <2>2. deaths # 0 \/ joins # 0
    <3>1. SUFFICES ASSUME joins = 0, deaths = 0 PROVE FALSE
      OBVIOUS
    <3>2. where[n] = 1 /\ 1 \in Live
      BY <2>1, <3>1 DEF OneFault, Running
    <3>3. QED
      BY <2>1, <3>2, LivePlace DEF Located
  <2>3. Live' = Live
    BY <2>1 DEF Live
  <2>4. QED
    BY <1>6, <2>1, <2>2, <2>3
<1>8. ASSUME NEW n \in Nodes, NEW m \in Nodes, ForgetNode(n, m) PROVE OneFault'
  BY <1>8 DEF ForgetNode, OneFault, Running, Content, Live, boundVars
<1>9. ASSUME NEW m \in news, Learn(m) PROVE OneFault'
  <2>1. UNCHANGED <<cp, call, boundVars, forked>>
    BY <1>9 DEF Learn
  <2>2. deaths # 0 \/ joins # 0
    BY DEF OneFault, Running
  <2>3. CASE UNCHANGED proc
    <3>1. Live' = Live
      BY <2>3 DEF Live
    <3>2. QED
      BY <1>6, <2>1, <2>2, <3>1
  <2>4. CASE m.type = "up" /\ proc[m.what].up /\ Resolve(m.to, m.what)
    <3>1. m.to \in Nodes /\ m.what \in Pids
      BY <2>4 DEF TypeOK
    <3>2. PICK p \in Pids, n \in Nodes : p = m.what /\ n = m.to
      BY <3>1
    <3>3. p \in Nat
      BY ClusterAssumption DEF Pids
    <3>4. proc'[p] = proc[p]
      <4>1. Resolve(n, p)
        BY <2>4, <3>2
      <4>2. \/ proc' = proc
            \/ where[n] < p /\ \A q \in Pids : q # where[n] => proc'[q] = proc[q]
        BY <4>1, Resolved
      <4>3. QED
        BY <3>3, <4>2
    <3>5. p \in Live'
      BY <2>4, <3>2, <3>4 DEF Live
    <3>6. QED
      BY <1>6, <2>1, <2>2, <3>5
  <2>5. QED
    BY <1>9, <2>3, <2>4 DEF Learn
<1>10. QED
  BY <1>1, <1>2, <1>3, <1>4, <1>5, <1>7, <1>8, <1>9, ServeOneFault DEF Next

-----------------------------------------------------------------------------
(* The theorems. *)

\* Of any cluster and any number of calls, deaths, joins and timeouts: living
\* processes are registered where they run (sm_registry:register, syn's conflict
\* resolution), the checkpoint has what the process has (handle_call({move, ..})
\* checkpoints before it replies), and a first fault does not fork the game.
THEOREM ClusterInductive == Spec => []IInv
<1>1. Init => IInv
  BY PlacedInit, LocatedInit, DurableInit, OneFaultInit DEF IInv, Placed, Located
<1>2. IInv /\ [Next]_vars => IInv'
  <2> SUFFICES ASSUME IInv, [Next]_vars PROVE IInv'
    OBVIOUS
  <2>1. Placed /\ Located /\ Durable /\ OneFault
    BY DEF IInv, Placed, Located
  <2>2. Placed'
    BY <2>1, PlacedStep
  <2>3. Located'
    BY <2>1, LocatedStep
  <2>4. Durable' /\ OneFault'
    BY <2>1, DurableStep, OneFaultStep
  <2>5. QED
    BY <2>2, <2>3, <2>4 DEF IInv, Placed, Located
<1>3. QED
  BY <1>1, <1>2, PTL DEF Spec

LEMMA AtMostOne ==
    ASSUME NEW S, \A p, q \in S : p = q
    PROVE  Cardinality(S) <= 1
<1>1. CASE S = {}
  BY <1>1, FS_EmptySet
<1>2. CASE S # {}
  <2>1. PICK p : S = {p}
    BY <1>2
  <2>2. Cardinality({p}) = 1
    BY FS_Singleton
  <2>3. QED
    BY <2>1, <2>2
<1>3. QED
  BY <1>1, <1>2

\* While no node joins, a game never has two processes, whatever dies and however
\* late the news: every caller asks the same owner (sm_cluster:owner), and there a
\* second start is refused (sm_registry:register).
THEOREM GameHasOneProcess == Spec => []OneProcess
<1>1. IInv => OneProcess
  <2>1. SUFFICES ASSUME IInv, joins = 0 PROVE Cardinality(Live) <= 1
    BY DEF OneProcess
  <2>2. ASSUME NEW p \in Live, NEW q \in Live PROVE p = q
    <3>1. /\ proc[p].node \in alive /\ proc[q].node \in alive
          /\ where[proc[p].node] = p /\ where[proc[q].node] = q
      BY <2>1 DEF IInv, RegisteredHere
    <3>2. Highest(proc[p].node) /\ Highest(proc[q].node)
      BY <2>1 DEF IInv, OneOwner
    <3>3. PICK m \in Nodes, n \in Nodes : m = proc[p].node /\ n = proc[q].node
      BY <2>1, <3>1 DEF IInv, TypeOK
    <3>4. Weight[m] <= Weight[n] /\ Weight[n] <= Weight[m]
      BY <3>1, <3>2, <3>3 DEF Highest
    <3>5. Weight[m] \in Nat /\ Weight[n] \in Nat
      BY HashesAreNat, ClusterAssumption
    <3>6. m = n
      BY <3>4, <3>5, ClusterAssumption
    <3>7. QED
      BY <3>1, <3>3, <3>6
  <2>3. QED
    BY <2>2, AtMostOne
<1>2. QED
  BY <1>1, ClusterInductive, PTL

\* A game that a joining node started twice comes back to one process once the
\* registry's news has arrived: of two living processes one is always about to
\* hear of the other (the conflict resolution of syn, which sm_registry leaves as
\* it is).
THEOREM ForksHeal == Spec => []ForkHeals
<1>1. IInv => ForkHeals
  <2>1. SUFFICES ASSUME IInv, news = {} PROVE Cardinality(Live) <= 1
    BY DEF ForkHeals, Settled
  <2>2. \A p, q \in Live : p = q
    BY <2>1 DEF IInv, ForksTold, NewsPending
  <2>3. QED
    BY <2>2, AtMostOne
<1>2. QED
  BY <1>1, ClusterInductive, PTL

\* The places where a line has c are as many as the line counts.
LEMMA CountedIs ==
    ASSUME NEW line \in Seq(Calls), NEW c
    PROVE  In(c, line) => Counted(c, line) > 0
<1> DEFINE S == {i \in DOMAIN line : line[i] = c}
<1>1. IsFiniteSet(DOMAIN line)
  <2>1. DOMAIN line = 1 .. Len(line) /\ Len(line) \in Nat
    OBVIOUS
  <2>2. QED
    BY <2>1, FS_Interval
<1>2. IsFiniteSet(S) /\ Cardinality(S) \in Nat
  BY <1>1, FS_Subset, FS_CardinalityType
<1>3. In(c, line) => S # {}
  BY DEF In
<1> HIDE DEF S
<1>5. S # {} => Cardinality(S) > 0
  BY <1>2, FS_EmptySet
<1>6. QED
  BY <1>3, <1>5 DEF Counted, S

\* A move that was answered is in the checkpoint and in the process, through every
\* death and restore, unless the game was forked (sm_game:handle_call checkpoints
\* before it replies; init_restore starts from what was saved).
THEOREM AnswersAreDurable == Spec => []AckedIsDurable
<1>1. IInv => AckedIsDurable
  <2>1. SUFFICES ASSUME IInv, ~forked, NEW c \in Calls, call[c].answer = "ok"
                 PROVE  Counted(c, cp) > 0 /\ \A p \in Live : Counted(c, proc[p].line) > 0
    BY DEF AckedIsDurable
  <2>2. In(c, cp) /\ cp \in Seq(Calls) /\ \A p \in Live : proc[p].line = cp
    BY <2>1 DEF IInv, Durable, TypeOK
  <2>3. Counted(c, cp) > 0
    BY <2>2, CountedIs
  <2>4. QED
    BY <2>2, <2>3
<1>2. QED
  BY <1>1, ClusterInductive, PTL

\* One fault loses no answered move: a game that nothing happened to is not started
\* again (sm_registry:register refuses it), and after one death all who restore it
\* have loaded the same checkpoint (sm_game_sup:ensure_game), which nobody has
\* played on.
THEOREM OneFaultKeepsMoves == Spec => []OneFaultLosesNothing
<1>1. IInv /\ AckedIsDurable => OneFaultLosesNothing
  BY DEF IInv, OneFault, AckedIsDurable, OneFaultLosesNothing
<1>2. QED
  BY <1>1, ClusterInductive, AnswersAreDurable, PTL
=============================================================================
