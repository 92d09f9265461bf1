-------------------------- MODULE MatchmakingProofs --------------------------
(***************************************************************************)
(* Proofs about the matchmaking queue, for every set of players, ratings   *)
(* and calls and any number of failures: an entry is at most one game, an  *)
(* acceptable pair is never left standing, and a page that waits waits for *)
(* something.                                                              *)
(***************************************************************************)
EXTENDS Matchmaking, FiniteSetTheorems, TLAPS

-----------------------------------------------------------------------------
(* The inductive invariant. *)

Asks == {"enqueue", "ticket", "create", "requeue", "requeued", "notify"}
Leaves == {"zrem", "hdel"}
CallStates == [pc : {"idle", "done"} \cup Asks \cup Leaves, who : Players \cup {None},
               opponent : Players \cup {None}, page : BOOLEAN]

TypeOK ==
    /\ now \in Nat
    /\ queue \in [Players -> Nat \cup {None}]
    /\ since \in [Players -> Nat \cup {None}]
    /\ call \in [Calls -> CallStates]
    /\ page \in [Players -> {"home", "asking", "playing"} \cup Waiting]
    /\ entries \in [Players -> Nat]

\* A call that was made is somebody's, and one that has paired its caller has an
\* opponent who is another player.
CallsNamed ==
    \A c \in Calls :
        /\ call[c].pc # "idle" => call[c].who \in Players
        /\ call[c].pc \in {"create", "requeue", "requeued", "notify"} =>
               call[c].opponent \in Players \ {call[c].who}

\* There are finitely many games and calls to count.
Counted ==
    \A p \in Players :
        /\ IsFiniteSet(MadeOf(p)) /\ IsFiniteSet(Making(p))
        /\ Cardinality(MadeOf(p)) + Cardinality(Making(p)) + (IF Queued(p) THEN 1 ELSE 0)
               <= entries[p]

\* c is under way and a page hears its answer.
Heard(c) == call[c].page /\ call[c].pc \in Asks \cup Leaves

\* A page has one call at a time: it asks until its enterQueue has answered, and
\* while its leaveQueue is under way it waits or has been called to a game.
PagesHear ==
    /\ \A c \in Calls : Heard(c) =>
           page[call[c].who] \in IF call[c].pc \in Asks THEN {"asking"}
                                                        ELSE {"playing"} \cup Waiting
    /\ \A c, d \in Calls : Heard(c) /\ Heard(d) /\ call[c].who = call[d].who => c = d

\* p waits, or is about to.
Hopes(p) ==
    \/ page[p] \in Waiting
    \/ \E c \in Calls : Heard(c) /\ call[c].pc = "ticket" /\ call[c].who = p

\* p stands in the queue, has a game, or somebody has its fate in hand: a call that
\* paired it, or its own leaveQueue.
Held(p, c) == call[c].pc \in {"create", "requeue"} /\ p \in {call[c].who, call[c].opponent}
Leaving(p, c) == Heard(c) /\ call[c].pc = "hdel" /\ call[c].who = p
Cared(p) ==
    \/ Queued(p)
    \/ GamesOf(p) # {}
    \/ \E c \in Calls : Held(p, c) \/ Leaving(p, c)

HopesHeld == \A p \in Players \ dropped : Hopes(p) => Cared(p)

IInv ==
    /\ TypeOK
    /\ CallsNamed
    /\ Counted
    /\ NoMissedPair
    /\ PagesHear
    /\ HopesHeld

-----------------------------------------------------------------------------
(* What the steps do to the calls. *)

\* Only call c is touched, and becomes s.
Becomes(c, s) ==
    /\ call' = [call EXCEPT ![c] = s]
    /\ s \in CallStates

LEMMA Touched ==
    ASSUME TypeOK, NEW c \in Calls, NEW s, Becomes(c, s)
    PROVE  /\ call' \in [Calls -> CallStates]
           /\ call'[c] = s
           /\ \A d \in Calls \ {c} : call'[d] = call[d]
BY DEF TypeOK, Becomes

LEMMA CallShape ==
    ASSUME TypeOK, NEW c \in Calls
    PROVE  /\ call[c] \in CallStates
           /\ call[c].who \in Players \cup {None} /\ call[c].opponent \in Players \cup {None}
           /\ call[c].page \in BOOLEAN /\ call[c].pc \in {"idle", "done"} \cup Asks \cup Leaves
BY DEF TypeOK, CallStates

\* A step of a call changes its pc alone.
LEMMA Stepped ==
    ASSUME TypeOK, NEW c \in Calls, NEW pc \in {"done"} \cup Asks \cup Leaves, Step(c, pc)
    PROVE  /\ Becomes(c, [call[c] EXCEPT !.pc = pc])
           /\ call'[c].pc = pc /\ call'[c].who = call[c].who
           /\ call'[c].opponent = call[c].opponent /\ call'[c].page = call[c].page
<1>1. call[c] \in CallStates
  BY CallShape
<1>2. call' = [call EXCEPT ![c] = [call[c] EXCEPT !.pc = pc]]
  BY DEF Step
<1>3. [call[c] EXCEPT !.pc = pc] \in CallStates
  BY <1>1 DEF CallStates
<1>4. Becomes(c, [call[c] EXCEPT !.pc = pc])
  BY <1>2, <1>3 DEF Becomes
<1>5. call'[c] = [call[c] EXCEPT !.pc = pc]
  BY <1>4, Touched
<1> QED
  BY <1>1, <1>4, <1>5 DEF CallStates

\* A new call.
LEMMA Begun ==
    ASSUME TypeOK, NEW c \in Calls, NEW p \in Players, NEW pc \in Asks \cup Leaves,
           NEW heard \in BOOLEAN, Begin(c, p, pc, heard)
    PROVE  /\ Becomes(c, [pc |-> pc, who |-> p, opponent |-> None, page |-> heard])
           /\ call[c].pc = "idle"
           /\ call'[c].pc = pc /\ call'[c].who = p /\ call'[c].page = heard
<1>1. [pc |-> pc, who |-> p, opponent |-> None, page |-> heard] \in CallStates
  BY DEF CallStates
<1>2. Becomes(c, [pc |-> pc, who |-> p, opponent |-> None, page |-> heard])
  BY <1>1 DEF Begin, Becomes
<1> QED
  BY <1>2, Touched DEF Begin

\* Enqueue finds an opponent.
LEMMA Paired ==
    ASSUME TypeOK, NEW c \in Calls, NEW best \in Players,
           call' = [call EXCEPT ![c].pc = "create", ![c].opponent = best]
    PROVE  /\ Becomes(c, [call[c] EXCEPT !.pc = "create", !.opponent = best])
           /\ call'[c].pc = "create" /\ call'[c].who = call[c].who
           /\ call'[c].opponent = best /\ call'[c].page = call[c].page
<1>1. call[c] \in CallStates
  BY CallShape
<1>2. call' = [call EXCEPT ![c] = [call[c] EXCEPT !.pc = "create", !.opponent = best]]
  BY <1>1 DEF TypeOK, CallStates
<1>3. [call[c] EXCEPT !.pc = "create", !.opponent = best] \in CallStates
  BY <1>1 DEF CallStates, Asks
<1>4. Becomes(c, [call[c] EXCEPT !.pc = "create", !.opponent = best])
  BY <1>2, <1>3 DEF Becomes
<1>5. call'[c] = [call[c] EXCEPT !.pc = "create", !.opponent = best]
  BY <1>4, Touched
<1>6. call'[c].pc = "create" /\ call'[c].opponent = best
  BY <1>1, <1>5 DEF CallStates
<1>7. call'[c].who = call[c].who /\ call'[c].page = call[c].page
  BY <1>1, <1>5 DEF CallStates
<1> QED
  BY <1>4, <1>6, <1>7

\* A page that is gone hears no call any more.
Deaf(p) == [d \in Calls |-> [call[d] EXCEPT !.page = @ /\ call[d].who # p]]

LEMMA Deafened ==
    ASSUME TypeOK, NEW p \in Players
    PROVE  /\ Deaf(p) \in [Calls -> CallStates]
           /\ \A d \in Calls :
                /\ Deaf(p)[d].pc = call[d].pc /\ Deaf(p)[d].who = call[d].who
                /\ Deaf(p)[d].opponent = call[d].opponent
                /\ Deaf(p)[d].page <=> (call[d].page /\ call[d].who # p)
<1>1. ASSUME NEW e \in Calls
      PROVE  /\ Deaf(p)[e] \in CallStates
             /\ Deaf(p)[e].pc = call[e].pc /\ Deaf(p)[e].who = call[e].who
             /\ Deaf(p)[e].opponent = call[e].opponent
             /\ Deaf(p)[e].page <=> (call[e].page /\ call[e].who # p)
  <2>1. call[e] \in CallStates
    BY <1>1, CallShape
  <2>2. PICK b \in BOOLEAN : b = (call[e].page /\ call[e].who # p)
    OBVIOUS
  <2>3. Deaf(p)[e] = [call[e] EXCEPT !.page = b]
    BY <1>1, <2>2 DEF Deaf
  <2> QED
    BY <2>1, <2>2, <2>3 DEF CallStates
<1>2. Deaf(p) \in [Calls -> CallStates]
  BY <1>1 DEF Deaf
<1> QED
  BY <1>1, <1>2

LEMMA Reloaded ==
    ASSUME TypeOK, NEW p \in Players, Reload(p)
    PROVE  /\ call' \in [Calls -> CallStates]
           /\ \A d \in Calls :
                \/ /\ call'[d].pc = call[d].pc /\ call'[d].who = call[d].who
                   /\ call'[d].opponent = call[d].opponent
                   /\ call'[d].page <=> (call[d].page /\ call[d].who # p)
                \/ /\ call[d].pc = "idle" /\ call'[d].pc = "zrem" /\ call'[d].who = p
                   /\ ~call'[d].page
<1>1. CASE call' = Deaf(p)
  BY <1>1, Deafened
<1>2. CASE \E c \in Calls : /\ call[c].pc = "idle"
                            /\ call' = [Deaf(p) EXCEPT ![c] =
                                  [pc |-> "zrem", who |-> p, opponent |-> None, page |-> FALSE]]
  <2>1. PICK c \in Calls : /\ call[c].pc = "idle"
                           /\ call' = [Deaf(p) EXCEPT ![c] =
                                  [pc |-> "zrem", who |-> p, opponent |-> None, page |-> FALSE]]
    BY <1>2
  <2>2. [pc |-> "zrem", who |-> p, opponent |-> None, page |-> FALSE] \in CallStates
    BY DEF CallStates, Leaves
  <2>3. Deaf(p) \in [Calls -> CallStates]
    BY <2>1, Deafened
  <2>4. /\ call' \in [Calls -> CallStates]
        /\ call'[c] = [pc |-> "zrem", who |-> p, opponent |-> None, page |-> FALSE]
        /\ \A d \in Calls \ {c} : call'[d] = Deaf(p)[d]
    BY <2>1, <2>2, <2>3
  <2> QED
    BY <2>1, <2>4, Deafened
<1> QED
  BY <1>1, <1>2 DEF Reload, Deaf

-----------------------------------------------------------------------------
(* Types. *)

LEMMA WithoutType ==
    ASSUME NEW f \in [Players -> Nat \cup {None}], NEW S
    PROVE  /\ Without(f, S) \in [Players -> Nat \cup {None}]
           /\ \A p \in Players : Without(f, S)[p] = IF p \in S THEN None ELSE f[p]
BY DEF Without

\* The page hears the answer or stays as it is.
LEMMA Answered ==
    ASSUME TypeOK, NEW c \in Calls, call[c].who \in Players,
           NEW what \in {"home", "asking", "playing"} \cup Waiting, Answer(c, what)
    PROVE  /\ page' \in [Players -> {"home", "asking", "playing"} \cup Waiting]
           /\ \A p \in Players \ {call[c].who} : page'[p] = page[p]
           /\ page'[call[c].who] = IF call[c].page THEN what ELSE page[call[c].who]
BY DEF TypeOK, Answer, Show

LEMMA BestIsPlayer ==
    ASSUME NEW me, NEW elo, NEW best \in Best(me, elo)
    PROVE  best \in Players \ {me} /\ Queued(best)
BY DEF Best, Candidates

LEMMA WaitType ==
    ASSUME TypeOK, NEW me \in Players, NEW elo \in Nat, Wait(me, elo)
    PROVE  /\ queue' \in [Players -> Nat \cup {None}] /\ since' \in [Players -> Nat \cup {None}]
           /\ \A p \in Players : queue'[p] = IF p = me THEN elo ELSE queue[p]
<1>1. now \in Nat
  BY DEF TypeOK
<1> QED
  BY <1>1 DEF TypeOK, Wait

LEMMA DequeueType ==
    ASSUME TypeOK, NEW S, Dequeue(S)
    PROVE  /\ queue' \in [Players -> Nat \cup {None}] /\ since' \in [Players -> Nat \cup {None}]
           /\ \A p \in Players : queue'[p] = IF p \in S THEN None ELSE queue[p]
BY WithoutType DEF TypeOK, Dequeue

LEMMA TypeInit == Init => TypeOK /\ CallsNamed
<1> SUFFICES ASSUME Init PROVE TypeOK /\ CallsNamed
  OBVIOUS
<1>1. NoCall \in CallStates /\ NoCall.pc = "idle"
  BY DEF NoCall, CallStates
<1>2. TypeOK
  BY <1>1 DEF Init, TypeOK
<1>3. CallsNamed
  BY <1>1 DEF Init, CallsNamed
<1> QED
  BY <1>2, <1>3

\* A call that becomes another one keeps the calls named if it is named itself.
LEMMA NamedKept ==
    ASSUME TypeOK, CallsNamed, NEW c \in Calls, NEW s, Becomes(c, s),
           s.pc # "idle" => s.who \in Players,
           s.pc \in {"create", "requeue", "requeued", "notify"} =>
               s.opponent \in Players \ {s.who}
    PROVE  CallsNamed'
BY Touched DEF CallsNamed

\* So does one that goes on.
LEMMA NamedStep ==
    ASSUME TypeOK, CallsNamed, NEW c \in Calls,
           NEW pc \in {"done"} \cup Asks \cup Leaves, Step(c, pc), call[c].pc # "idle",
           \/ pc \notin {"create", "requeue", "requeued", "notify"}
           \/ call[c].pc \in {"create", "requeue", "requeued", "notify"}
    PROVE  CallsNamed' /\ call' \in [Calls -> CallStates]
<1>1. /\ Becomes(c, [call[c] EXCEPT !.pc = pc])
      /\ call'[c].pc = pc /\ call'[c].who = call[c].who /\ call'[c].opponent = call[c].opponent
  BY Stepped
<1>2. call' \in [Calls -> CallStates] /\ \A d \in Calls \ {c} : call'[d] = call[d]
  BY <1>1, Touched
<1> QED
  BY <1>1, <1>2 DEF CallsNamed

LEMMA TypeNext ==
    ASSUME TypeOK, CallsNamed, Next
    PROVE  TypeOK' /\ CallsNamed'
<1> USE DEF Asks, Leaves, Waiting
<1>1. ASSUME NEW c \in Calls, NEW p \in Players, Find(c, p)
      PROVE  TypeOK' /\ CallsNamed'
  <2>1. Becomes(c, [pc |-> "enqueue", who |-> p, opponent |-> None, page |-> TRUE])
    BY <1>1, Begun DEF Find
  <2> QED
    BY <1>1, <2>1, Touched, NamedKept DEF Find, Show, TypeOK, redisVars, histVars
<1>2. ASSUME NEW c \in Calls, NEW p \in Players, Cancel(c, p)
      PROVE  TypeOK' /\ CallsNamed'
  <2>1. Becomes(c, [pc |-> "zrem", who |-> p, opponent |-> None, page |-> TRUE])
    BY <1>2, Begun DEF Cancel
  <2> QED
    BY <1>2, <2>1, Touched, NamedKept DEF Cancel, TypeOK, redisVars, histVars
<1>3. ASSUME NEW p \in Players, Subscribe(p)
      PROVE  TypeOK' /\ CallsNamed'
  BY <1>3 DEF Subscribe, Show, TypeOK, CallsNamed, redisVars, histVars
<1>4. ASSUME NEW p \in Players, Reload(p)
      PROVE  TypeOK' /\ CallsNamed'
  <2>1. CallsNamed' /\ call' \in [Calls -> CallStates]
    BY <1>4, Reloaded DEF CallsNamed
  <2> QED
    BY <1>4, <2>1 DEF Reload, Show, TypeOK, redisVars, histVars
<1>5. ASSUME NEW c \in Calls, Enqueue(c)
      PROVE  TypeOK' /\ CallsNamed'
  <2>1. call[c].who \in Players /\ Elo[call[c].who] \in Nat
    BY <1>5, MatchmakingAssumption DEF Enqueue, CallsNamed
  <2>2. entries' \in [Players -> Nat]
    BY <1>5, <2>1 DEF Enqueue, TypeOK
  <2>3. CASE \E best \in Best(call[c].who, Elo[call[c].who]) :
                /\ Dequeue({call[c].who, best})
                /\ call' = [call EXCEPT ![c].pc = "create", ![c].opponent = best]
    <3>1. PICK best \in Best(call[c].who, Elo[call[c].who]) :
                /\ Dequeue({call[c].who, best})
                /\ call' = [call EXCEPT ![c].pc = "create", ![c].opponent = best]
      BY <2>3
    <3>2. best \in Players \ {call[c].who}
      BY BestIsPlayer
    <3>3. /\ Becomes(c, [call[c] EXCEPT !.pc = "create", !.opponent = best])
          /\ call'[c].who = call[c].who /\ call'[c].opponent = best
      BY <3>1, <3>2, Paired
    <3>4. call' \in [Calls -> CallStates] /\ \A d \in Calls \ {c} : call'[d] = call[d]
      BY <3>3, Touched
    <3>5. CallsNamed'
      BY <2>1, <3>2, <3>3, <3>4 DEF CallsNamed
    <3> QED
      BY <1>5, <2>2, <3>1, <3>4, <3>5, DequeueType DEF Enqueue, TypeOK
  <2>4. CASE Wait(call[c].who, Elo[call[c].who]) /\ Step(c, "ticket")
    <3>1. CallsNamed' /\ call' \in [Calls -> CallStates]
      BY <1>5, <2>4, NamedStep DEF Enqueue
    <3> QED
      BY <1>5, <2>1, <2>2, <2>4, <3>1, WaitType DEF Enqueue, TypeOK
  <2> QED
    BY <1>5, <2>3, <2>4 DEF Enqueue
<1>6. ASSUME NEW c \in Calls, Ticket(c)
      PROVE  TypeOK' /\ CallsNamed'
  <2>1. CallsNamed' /\ call' \in [Calls -> CallStates]
    BY <1>6, NamedStep DEF Ticket
  <2>2. page' \in [Players -> {"home", "asking", "playing"} \cup Waiting]
    BY <1>6, Answered DEF Ticket, CallsNamed
  <2> QED
    BY <1>6, <2>1, <2>2 DEF Ticket, TypeOK, histVars
<1>7. ASSUME NEW c \in Calls, CreateGame(c) \/ CreateFails(c)
      PROVE  TypeOK' /\ CallsNamed'
  <2>1. CallsNamed' /\ call' \in [Calls -> CallStates]
    BY <1>7, NamedStep DEF CreateGame, CreateFails
  <2> QED
    BY <1>7, <2>1 DEF CreateGame, CreateFails, TypeOK, redisVars, histVars
<1>8. ASSUME NEW c \in Calls, Requeue(c)
      PROVE  TypeOK' /\ CallsNamed'
  <2>1. /\ call[c].who \in Players /\ Elo[call[c].who] \in Nat
        /\ call[c].opponent \in Players
    BY <1>8, MatchmakingAssumption DEF Requeue, CallsNamed
  <2>2. CASE \E best \in Best(call[c].opponent, Elo[call[c].who]) :
                /\ Dequeue({call[c].opponent, best})
                /\ Step(c, "done")
                /\ Answer(c, "home")
    <3>1. CallsNamed' /\ call' \in [Calls -> CallStates]
      BY <1>8, <2>2, NamedStep DEF Requeue
    <3>2. page' \in [Players -> {"home", "asking", "playing"} \cup Waiting]
      BY <2>1, <2>2, Answered
    <3> QED
      BY <1>8, <2>2, <3>1, <3>2, DequeueType DEF Requeue, TypeOK
  <2>3. CASE Wait(call[c].opponent, Elo[call[c].who]) /\ Step(c, "requeued") /\ UNCHANGED page
    <3>1. CallsNamed' /\ call' \in [Calls -> CallStates]
      BY <1>8, <2>3, NamedStep DEF Requeue
    <3> QED
      BY <1>8, <2>1, <2>3, <3>1, WaitType DEF Requeue, TypeOK
  <2> QED
    BY <1>8, <2>2, <2>3 DEF Requeue
<1>9. ASSUME NEW c \in Calls, Notify(c)
      PROVE  TypeOK' /\ CallsNamed'
  <2>1. CallsNamed' /\ call' \in [Calls -> CallStates]
    BY <1>9, NamedStep DEF Notify
  <2>2. page' \in [Players -> {"home", "asking", "playing"} \cup Waiting]
    BY <1>9 DEF Notify, TypeOK
  <2> QED
    BY <1>9, <2>1, <2>2 DEF Notify, TypeOK, redisVars, histVars
<1>10. ASSUME NEW c \in Calls, ZRem(c)
      PROVE  TypeOK' /\ CallsNamed'
  <2>1. CallsNamed' /\ call' \in [Calls -> CallStates]
    BY <1>10, NamedStep DEF ZRem
  <2> QED
    BY <1>10, <2>1, WithoutType DEF ZRem, TypeOK
<1>11. ASSUME NEW c \in Calls, HDel(c)
      PROVE  TypeOK' /\ CallsNamed'
  <2>1. CallsNamed' /\ call' \in [Calls -> CallStates]
    BY <1>11, NamedStep DEF HDel
  <2>2. page' \in [Players -> {"home", "asking", "playing"} \cup Waiting]
    BY <1>11, Answered DEF HDel, CallsNamed, TypeOK
  <2> QED
    BY <1>11, <2>1, <2>2, WithoutType DEF HDel, TypeOK, histVars
<1>12. ASSUME NEW c \in Calls, Fail(c)
      PROVE  TypeOK' /\ CallsNamed'
  <2>1. CallsNamed' /\ call' \in [Calls -> CallStates]
    BY <1>12, NamedStep DEF Fail
  <2>2. page' \in [Players -> {"home", "asking", "playing"} \cup Waiting]
    BY <1>12, Answered DEF Fail, CallsNamed, TypeOK
  <2> QED
    BY <1>12, <2>1, <2>2 DEF Fail, TypeOK, redisVars
<1>13. ASSUME ExpireKeys PROVE TypeOK' /\ CallsNamed'
  BY <1>13, WithoutType DEF ExpireKeys, TypeOK, CallsNamed
<1>14. ASSUME Tick PROVE TypeOK' /\ CallsNamed'
  BY <1>14 DEF Tick, TypeOK, CallsNamed, redisVars, histVars
<1> QED
  BY <1>1, <1>2, <1>3, <1>4, <1>5, <1>6, <1>7, <1>8, <1>9, <1>10, <1>11, <1>12, <1>13, <1>14
  DEF Next, Serve

-----------------------------------------------------------------------------
(* No acceptable pair is left standing. *)

\* Who leaves the queue leaves no new pair behind.
LEMMA FewerPairs ==
    ASSUME TypeOK, NoMissedPair, \A p \in Players : queue'[p] \in {queue[p], None}
    PROVE  NoMissedPair'
BY DEF NoMissedPair, Queued, Gap

\* A band is never narrower than the first.
LEMMA BandOpens ==
    ASSUME TypeOK, NEW p \in Players
    PROVE  Band(p) \in Nat /\ Band(p) >= InitialBand
<1>1. since[p] \in Nat \cup {None} /\ now \in Nat
  BY DEF TypeOK
<1>2. InitialBand \in Nat /\ BandPerSec \in Nat /\ MaxBand \in Nat /\ InitialBand <= MaxBand
  BY MatchmakingAssumption
<1>3. PICK wait : wait = IF since[p] = None \/ since[p] > now THEN 0 ELSE now - since[p]
  OBVIOUS
<1>4. wait \in Nat
  BY <1>1, <1>3
<1>5. wait * BandPerSec \in Nat
  BY <1>2, <1>4
<1>6. InitialBand + wait * BandPerSec >= InitialBand
  BY <1>2, <1>5
<1>7. Band(p) = IF InitialBand + wait * BandPerSec < MaxBand
                THEN InitialBand + wait * BandPerSec ELSE MaxBand
  BY <1>3 DEF Band
<1> QED
  BY <1>2, <1>5, <1>6, <1>7

\* Who comes to wait has found nobody within the first band of both.
LEMMA WaitsApart ==
    ASSUME TypeOK, NoMissedPair, NEW me \in Players, NEW elo \in Nat, Wait(me, elo)
    PROVE  NoMissedPair'
<1>1. \A p \in Players : queue'[p] = IF p = me THEN elo ELSE queue[p]
  BY WaitType
<1>2. None \notin Nat /\ InitialBand \in Nat
  BY MatchmakingAssumption
<1>3. ASSUME NEW p \in Players \ {me}, Queued(p)
      PROVE  Abs(queue[p] - elo) > InitialBand
  <2>1. p \notin Candidates(me, elo)
    BY DEF Wait
  <2>2. ~(Abs(queue[p] - elo) <= Band(me) /\ Abs(queue[p] - elo) <= Band(p))
    BY <1>3, <2>1 DEF Candidates, Gap
  <2>3. /\ Band(me) \in Nat /\ Band(me) >= InitialBand
        /\ Band(p) \in Nat /\ Band(p) >= InitialBand
    BY <1>3, BandOpens
  <2>4. Abs(queue[p] - elo) \in Nat
    <3>1. queue[p] \in Nat
      BY <1>3 DEF TypeOK, Queued
    <3> QED
      BY <3>1 DEF Abs
  <2> QED
    BY <1>2, <2>2, <2>3, <2>4
<1>4. ASSUME NEW p \in Players, NEW q \in Players, p # q, Queued(p)', Queued(q)'
      PROVE  Abs(queue'[p] - queue'[q]) > InitialBand
  <2>1. CASE p # me /\ q # me
    BY <1>1, <1>4, <2>1 DEF NoMissedPair, Queued, Gap
  <2>2. CASE q = me
    <3>1. queue'[p] = queue[p] /\ queue'[q] = elo /\ Queued(p)
      BY <1>1, <1>4, <2>2 DEF Queued
    <3> QED
      BY <1>3, <1>4, <2>2, <3>1
  <2>3. CASE p = me
    <3>1. queue'[q] = queue[q] /\ queue'[p] = elo /\ Queued(q)
      BY <1>1, <1>4, <2>3 DEF Queued
    <3>2. Abs(queue[q] - elo) > InitialBand
      BY <1>3, <1>4, <2>3, <3>1
    <3>3. queue[q] \in Nat
      BY <3>1 DEF TypeOK, Queued
    <3>4. Abs(elo - queue[q]) = Abs(queue[q] - elo)
      BY <3>3 DEF Abs
    <3> QED
      BY <3>1, <3>2, <3>4
  <2> QED
    BY <2>1, <2>2, <2>3
<1> QED
  BY <1>4 DEF NoMissedPair, Gap

LEMMA ApartInit == Init => NoMissedPair
BY DEF Init, NoMissedPair, Queued

LEMMA ApartNext ==
    ASSUME TypeOK, CallsNamed, NoMissedPair, Next
    PROVE  NoMissedPair'
<1>1. ASSUME NEW c \in Calls, Enqueue(c) PROVE NoMissedPair'
  <2>1. call[c].who \in Players /\ Elo[call[c].who] \in Nat
    BY <1>1, MatchmakingAssumption DEF Enqueue, CallsNamed
  <2>2. CASE \E best : Dequeue({call[c].who, best})
    BY <2>2, DequeueType, FewerPairs
  <2> QED
    BY <1>1, <2>1, <2>2, WaitsApart DEF Enqueue
<1>2. ASSUME NEW c \in Calls, Requeue(c) PROVE NoMissedPair'
  <2>1. Elo[call[c].who] \in Nat /\ call[c].opponent \in Players
    BY <1>2, MatchmakingAssumption DEF Requeue, CallsNamed
  <2>2. CASE \E best : Dequeue({call[c].opponent, best})
    BY <2>2, DequeueType, FewerPairs
  <2> QED
    BY <1>2, <2>1, <2>2, WaitsApart DEF Requeue
<1>3. ASSUME NEW c \in Calls, ZRem(c) PROVE NoMissedPair'
  <2>1. \A p \in Players : queue'[p] \in {queue[p], None}
    BY <1>3, WithoutType DEF ZRem, TypeOK
  <2> QED
    BY <2>1, FewerPairs
<1>4. ASSUME ExpireKeys PROVE NoMissedPair'
  <2>1. \A p \in Players : queue'[p] \in {queue[p], None}
    BY <1>4, WithoutType DEF ExpireKeys, TypeOK
  <2> QED
    BY <2>1, FewerPairs
<1>5. CASE UNCHANGED queue
  BY <1>5, FewerPairs
<1>6. \/ UNCHANGED queue \/ ExpireKeys
      \/ \E c \in Calls : Enqueue(c) \/ Requeue(c) \/ ZRem(c)
  BY DEF Next, Serve, Find, Cancel, Subscribe, Reload, Ticket, CreateGame, CreateFails,
     Notify, HDel, Fail, Tick, redisVars
<1> QED
  BY <1>1, <1>2, <1>3, <1>4, <1>5, <1>6

-----------------------------------------------------------------------------
(* One game per entry. *)

Place(p) == IF Queued(p) THEN 1 ELSE 0

CountedFor(p) ==
    /\ IsFiniteSet(MadeOf(p)) /\ IsFiniteSet(Making(p))
    /\ Cardinality(MadeOf(p)) + Cardinality(Making(p)) + Place(p) <= entries[p]

LEMMA CountedParts == Counted <=> \A p \in Players : CountedFor(p)
BY DEF Counted, CountedFor, Place

\* Adding at most one element, or taking one away.
LEMMA OneMore ==
    ASSUME NEW S, NEW x, NEW T, IsFiniteSet(S), T \subseteq S \cup {x}
    PROVE  IsFiniteSet(T) /\ Cardinality(T) <= Cardinality(S) + 1
           /\ Cardinality(T) \in Nat /\ Cardinality(S) \in Nat
<1>0. Cardinality(S) \in Nat
  BY FS_CardinalityType
<1>1. IsFiniteSet(S \cup {x}) /\ Cardinality(S \cup {x}) <= Cardinality(S) + 1
  BY <1>0, FS_AddElement
<1>2. IsFiniteSet(T) /\ Cardinality(T) <= Cardinality(S \cup {x}) /\ Cardinality(S \cup {x}) \in Nat
  BY <1>1, FS_Subset, FS_CardinalityType
<1>3. Cardinality(T) \in Nat
  BY <1>2, FS_CardinalityType
<1> QED
  BY <1>0, <1>1, <1>2, <1>3

LEMMA OneLess ==
    ASSUME NEW S, NEW x \in S, NEW T, IsFiniteSet(S), T \subseteq S \ {x}
    PROVE  IsFiniteSet(T) /\ Cardinality(T) + 1 <= Cardinality(S)
           /\ Cardinality(T) \in Nat /\ Cardinality(S) \in Nat
<1>1. IsFiniteSet(S \ {x}) /\ Cardinality(S \ {x}) = Cardinality(S) - 1
      /\ Cardinality(S) \in Nat
  BY FS_RemoveElement, FS_CardinalityType
<1>2. IsFiniteSet(T) /\ Cardinality(T) <= Cardinality(S \ {x})
  BY <1>1, FS_Subset
<1>3. Cardinality(T) \in Nat
  BY <1>2, FS_CardinalityType
<1> QED
  BY <1>1, <1>2, <1>3

LEMMA NoMore ==
    ASSUME NEW S, NEW T, IsFiniteSet(S), T \subseteq S
    PROVE  IsFiniteSet(T) /\ Cardinality(T) <= Cardinality(S)
           /\ Cardinality(T) \in Nat /\ Cardinality(S) \in Nat
BY FS_Subset, FS_CardinalityType

LEMMA PlaceIsNat == ASSUME NEW p PROVE Place(p) \in {0, 1} /\ Place(p)' \in {0, 1}
BY DEF Place

\* Nothing is made of an entry, and no new one counted.
LEMMA CountFalls ==
    ASSUME TypeOK, TypeOK', NEW p \in Players, CountedFor(p),
           MadeOf(p)' = MadeOf(p), Making(p)' \subseteq Making(p),
           Place(p)' - Place(p) <= entries'[p] - entries[p]
    PROVE  CountedFor(p)'
<1>1. entries[p] \in Nat /\ entries'[p] \in Nat
  BY DEF TypeOK
<1>2. PICK M : M = Making(p)'
  OBVIOUS
<1>3. /\ IsFiniteSet(M) /\ Cardinality(M) <= Cardinality(Making(p))
      /\ Cardinality(M) \in Nat /\ Cardinality(Making(p)) \in Nat
  BY <1>2, NoMore DEF CountedFor
<1>4. Cardinality(MadeOf(p)) \in Nat
  BY FS_CardinalityType DEF CountedFor
<1>5. Cardinality(MadeOf(p)) + Cardinality(M) + Place(p)' <= entries'[p]
  BY <1>1, <1>3, <1>4, PlaceIsNat DEF CountedFor
<1> QED
  BY <1>2, <1>3, <1>5 DEF CountedFor

\* A place in the queue, or a new entry, becomes a call that makes a game.
LEMMA CountPaired ==
    ASSUME TypeOK, TypeOK', NEW p \in Players, CountedFor(p), NEW c,
           MadeOf(p)' = MadeOf(p), Making(p)' \subseteq Making(p) \cup {c},
           Place(p)' + 1 - Place(p) <= entries'[p] - entries[p]
    PROVE  CountedFor(p)'
<1>1. entries[p] \in Nat /\ entries'[p] \in Nat
  BY DEF TypeOK
<1>2. PICK M : M = Making(p)'
  OBVIOUS
<1>3. /\ IsFiniteSet(M) /\ Cardinality(M) <= Cardinality(Making(p)) + 1
      /\ Cardinality(M) \in Nat /\ Cardinality(Making(p)) \in Nat
  BY <1>2, OneMore DEF CountedFor
<1>4. Cardinality(MadeOf(p)) \in Nat
  BY FS_CardinalityType DEF CountedFor
<1>5. Cardinality(MadeOf(p)) + Cardinality(M) + Place(p)' <= entries'[p]
  BY <1>1, <1>3, <1>4, PlaceIsNat DEF CountedFor
<1> QED
  BY <1>2, <1>3, <1>5 DEF CountedFor

\* A call that made a game for p, or was to put it back, has done so.
LEMMA CountMade ==
    ASSUME TypeOK, TypeOK', NEW p \in Players, CountedFor(p), NEW c \in Making(p), NEW g,
           Making(p)' \subseteq Making(p) \ {c}, entries'[p] = entries[p],
           \/ MadeOf(p)' \subseteq MadeOf(p) \cup {g} /\ Place(p)' = Place(p)
           \/ MadeOf(p)' = MadeOf(p)
    PROVE  CountedFor(p)'
<1>1. entries[p] \in Nat
  BY DEF TypeOK
<1>2. PICK M : M = Making(p)'
  OBVIOUS
<1>3. PICK G : G = MadeOf(p)'
  OBVIOUS
<1>4. /\ IsFiniteSet(M) /\ Cardinality(M) + 1 <= Cardinality(Making(p))
      /\ Cardinality(M) \in Nat /\ Cardinality(Making(p)) \in Nat
  BY <1>2, OneLess DEF CountedFor
<1>5. IsFiniteSet(G) /\ Cardinality(G) \in Nat /\ Cardinality(MadeOf(p)) \in Nat
      /\ \/ Cardinality(G) <= Cardinality(MadeOf(p)) + 1 /\ Place(p)' = Place(p)
         \/ Cardinality(G) = Cardinality(MadeOf(p))
  <2>1. IsFiniteSet(MadeOf(p))
    BY DEF CountedFor
  <2>2. CASE G \subseteq MadeOf(p) \cup {g} /\ Place(p)' = Place(p)
    BY <2>1, <2>2, OneMore
  <2>3. CASE G = MadeOf(p)
    BY <2>1, <2>3, FS_CardinalityType
  <2> QED
    BY <1>3, <2>2, <2>3
<1>6. Cardinality(G) + Cardinality(M) + Place(p)' <= entries[p]
  BY <1>1, <1>4, <1>5, PlaceIsNat DEF CountedFor
<1> QED
  BY <1>2, <1>3, <1>4, <1>5, <1>6 DEF CountedFor

\* A step of call c leaves what the others are making.
LEMMA OthersMake ==
    ASSUME NEW p, NEW c \in Calls, \A d \in Calls \ {c} : call'[d] = call[d]
    PROVE  /\ Making(p)' \subseteq Making(p) \cup {c}
           /\ call'[c].pc \notin {"create", "requeue"} => Making(p)' \subseteq Making(p) \ {c}
           /\ c \notin Making(p)' => Making(p)' \subseteq Making(p) \ {c}
BY DEF Making

LEMMA PlaceKept == ASSUME NEW p, UNCHANGED queue PROVE Place(p)' = Place(p)
BY DEF Place, Queued

LEMMA MadeKept == ASSUME NEW p, UNCHANGED games PROVE MadeOf(p)' = MadeOf(p)
BY DEF MadeOf, GamesOf

\* A step that touches no call that pairs.
LEMMA CountSame ==
    ASSUME TypeOK, TypeOK', Counted, \A p \in Players : Making(p)' \subseteq Making(p),
           UNCHANGED <<games, entries>>, \A p \in Players : queue'[p] \in {queue[p], None}
    PROVE  Counted'
<1>1. ASSUME NEW p \in Players PROVE CountedFor(p)'
  <2>1. CountedFor(p)
    BY CountedParts
  <2>2. MadeOf(p)' = MadeOf(p) /\ Making(p)' \subseteq Making(p)
    BY MadeKept
  <2>3. entries'[p] = entries[p] /\ entries[p] \in Nat
    BY DEF TypeOK
  <2>4. Place(p)' <= Place(p)
    BY DEF Place, Queued
  <2>5. Place(p)' - Place(p) <= entries'[p] - entries[p]
    BY <2>3, <2>4, PlaceIsNat
  <2> QED
    BY <2>1, <2>2, <2>5, CountFalls
<1> QED
  BY <1>1, CountedParts DEF Counted, CountedFor, Place

\* A call that pairs nobody and puts nobody in the queue.
LEMMA CountIdle ==
    ASSUME TypeOK, TypeOK', Counted, NEW c \in Calls, \A d \in Calls \ {c} : call'[d] = call[d],
           call'[c].pc \notin {"create", "requeue"},
           UNCHANGED <<games, entries>>, \A p \in Players : queue'[p] \in {queue[p], None}
    PROVE  Counted'
BY OthersMake, CountSame

LEMMA CountInit == Init => Counted
<1> SUFFICES ASSUME Init, NEW p \in Players
             PROVE  /\ MadeOf(p) = {} /\ Making(p) = {} /\ ~Queued(p) /\ entries[p] = 0
  BY FS_EmptySet DEF Counted
<1>1. \A c \in Calls : call[c].pc = "idle"
  BY DEF Init, NoCall
<1> QED
  BY <1>1 DEF Init, MadeOf, GamesOf, Making, Queued

\* The script takes both of a pair out, or counts the caller's new entry.
LEMMA CountEnqueue ==
    ASSUME TypeOK, TypeOK', CallsNamed, Counted, NEW c \in Calls, Enqueue(c)
    PROVE  Counted'
<1> DEFINE me == call[c].who
<1>1. me \in Players /\ Elo[me] \in Nat /\ None \notin Nat
  BY MatchmakingAssumption DEF Enqueue, CallsNamed
<1>2. \A p \in Players : /\ entries[p] \in Nat
                         /\ p # me => entries'[p] = entries[p]
                         /\ p = me => entries'[p] = entries[p] + 1 - Place(p)
  BY <1>1 DEF Enqueue, TypeOK, Place
<1>3. UNCHANGED games
  BY DEF Enqueue
<1> SUFFICES ASSUME NEW p \in Players PROVE CountedFor(p)'
  BY DEF Counted, CountedFor, Place
<1>4. CountedFor(p) /\ MadeOf(p)' = MadeOf(p)
  BY <1>3, CountedParts, MadeKept
<1>5. CASE \E best \in Best(me, Elo[me]) :
             /\ Dequeue({me, best})
             /\ call' = [call EXCEPT ![c].pc = "create", ![c].opponent = best]
  <2>1. PICK best \in Best(me, Elo[me]) :
             /\ Dequeue({me, best})
             /\ call' = [call EXCEPT ![c].pc = "create", ![c].opponent = best]
    BY <1>5
  <2>2. best \in Players \ {me} /\ Queued(best)
    BY BestIsPlayer
  <2>3. /\ Becomes(c, [call[c] EXCEPT !.pc = "create", !.opponent = best])
        /\ call'[c].pc = "create" /\ call'[c].who = me /\ call'[c].opponent = best
    BY <2>1, <2>2, Paired
  <2>4. \A d \in Calls \ {c} : call'[d] = call[d]
    BY <2>3, Touched
  <2>5. \A q \in Players : queue'[q] = IF q \in {me, best} THEN None ELSE queue[q]
    BY <2>1, DequeueType
  <2>6. CASE p \in {me, best}
    <3>1. Place(p)' = 0
      BY <2>5, <2>6 DEF Place, Queued
    <3>2. Place(p)' + 1 - Place(p) <= entries'[p] - entries[p]
      <4>1. CASE p = me
        BY <1>2, <3>1, <4>1, PlaceIsNat
      <4>2. CASE p = best
        <5>1. Place(p) = 1 /\ p # me
          BY <2>2, <4>2 DEF Place
        <5> QED
          BY <1>2, <3>1, <5>1
      <4> QED
        BY <2>6, <4>1, <4>2
    <3>3. Making(p)' \subseteq Making(p) \cup {c}
      BY <2>4, OthersMake
    <3> QED
      BY <1>4, <3>2, <3>3, CountPaired
  <2>7. CASE p \notin {me, best}
    <3>1. c \notin Making(p)'
      BY <2>3, <2>7 DEF Making
    <3>2. Making(p)' \subseteq Making(p)
      BY <2>4, <3>1, OthersMake
    <3>3. Place(p)' = Place(p)
      BY <2>5, <2>7 DEF Place, Queued
    <3>4. entries'[p] = entries[p]
      BY <1>2, <2>7
    <3>5. Place(p)' - Place(p) <= entries'[p] - entries[p]
      BY <1>2, <3>3, <3>4, PlaceIsNat
    <3> QED
      BY <1>4, <3>2, <3>5, CountFalls
  <2> QED
    BY <2>6, <2>7
<1>6. CASE Wait(me, Elo[me]) /\ Step(c, "ticket")
  <2>1. Becomes(c, [call[c] EXCEPT !.pc = "ticket"]) /\ call'[c].pc = "ticket"
    BY <1>6, Stepped DEF Asks
  <2>2. \A d \in Calls \ {c} : call'[d] = call[d]
    BY <2>1, Touched
  <2>3. Making(p)' \subseteq Making(p)
    BY <2>1, <2>2, OthersMake
  <2>4. \A q \in Players : queue'[q] = IF q = me THEN Elo[me] ELSE queue[q]
    BY <1>1, <1>6, WaitType
  <2>5. Place(p)' - Place(p) <= entries'[p] - entries[p]
    <3>1. CASE p = me
      <4>1. Place(p)' = 1
        BY <1>1, <2>4, <3>1 DEF Place, Queued
      <4> QED
        BY <1>2, <3>1, <4>1, PlaceIsNat
    <3>2. CASE p # me
      <4>1. Place(p)' = Place(p)
        BY <2>4, <3>2 DEF Place, Queued
      <4> QED
        BY <1>2, <3>2, <4>1, PlaceIsNat
    <3> QED
      BY <3>1, <3>2
  <2> QED
    BY <1>4, <2>3, <2>5, CountFalls
<1> QED
  BY <1>5, <1>6 DEF Enqueue

\* A call that was making a game for p makes it, or is to put p back.
LEMMA CountCreate ==
    ASSUME TypeOK, TypeOK', CallsNamed, Counted, NEW c \in Calls, CreateGame(c)
    PROVE  Counted'
<1>1. /\ call[c].pc = "create" /\ games' = games \cup {Game(c, TRUE)}
      /\ UNCHANGED queue /\ UNCHANGED entries
  BY DEF CreateGame, redisVars, histVars
<1>2. Becomes(c, [call[c] EXCEPT !.pc = "notify"]) /\ call'[c].pc = "notify"
  BY Stepped DEF CreateGame, Asks
<1>3. \A d \in Calls \ {c} : call'[d] = call[d]
  BY <1>2, Touched
<1> SUFFICES ASSUME NEW p \in Players PROVE CountedFor(p)'
  BY DEF Counted, CountedFor, Place
<1>4. /\ CountedFor(p) /\ Place(p)' = Place(p) /\ Making(p)' \subseteq Making(p) \ {c}
      /\ entries'[p] = entries[p] /\ entries[p] \in Nat
  BY <1>1, <1>2, <1>3, CountedParts, PlaceKept, OthersMake DEF TypeOK
<1>5. CASE p \in {call[c].who, call[c].opponent}
  <2>1. c \in Making(p)
    BY <1>1, <1>5 DEF Making
  <2>2. MadeOf(p)' \subseteq MadeOf(p) \cup {Game(c, TRUE)}
    BY <1>1 DEF MadeOf, GamesOf
  <2> QED
    BY <1>4, <2>1, <2>2, CountMade
<1>6. CASE p \notin {call[c].who, call[c].opponent}
  <2>1. MadeOf(p)' = MadeOf(p)
    BY <1>1, <1>6 DEF MadeOf, GamesOf, Game
  <2>2. Place(p)' - Place(p) <= entries'[p] - entries[p]
    BY <1>4, PlaceIsNat
  <2> QED
    BY <1>4, <2>1, <2>2, CountFalls
<1> QED
  BY <1>5, <1>6

\* A creation that failed may have made a game of the caller's entry; the opponent's
\* is still with the call, to be put back.
LEMMA CountCreateFails ==
    ASSUME TypeOK, TypeOK', CallsNamed, Counted, NEW c \in Calls, CreateFails(c)
    PROVE  Counted'
<1>1. /\ call[c].pc = "create" /\ games' \in {games, games \cup {Game(c, FALSE)}}
      /\ UNCHANGED queue /\ UNCHANGED entries /\ call[c].who # call[c].opponent
  BY DEF CreateFails, redisVars, histVars, CallsNamed
<1>2. /\ Becomes(c, [call[c] EXCEPT !.pc = "requeue"])
      /\ call'[c].pc = "requeue" /\ call'[c].opponent = call[c].opponent
  BY Stepped DEF CreateFails, Asks
<1>3. \A d \in Calls \ {c} : call'[d] = call[d]
  BY <1>2, Touched
<1> SUFFICES ASSUME NEW p \in Players PROVE CountedFor(p)'
  BY DEF Counted, CountedFor, Place
<1>4. /\ CountedFor(p) /\ Place(p)' = Place(p) /\ Making(p)' \subseteq Making(p) \cup {c}
      /\ entries'[p] = entries[p] /\ entries[p] \in Nat
  BY <1>1, <1>3, CountedParts, PlaceKept, OthersMake DEF TypeOK
<1>5. CASE p = call[c].who
  <2>1. c \in Making(p)
    BY <1>1, <1>5 DEF Making
  <2>2. MadeOf(p)' \subseteq MadeOf(p) \cup {Game(c, FALSE)}
    BY <1>1 DEF MadeOf, GamesOf
  <2>3. c \notin Making(p)'
    BY <1>1, <1>2, <1>5 DEF Making
  <2>4. Making(p)' \subseteq Making(p) \ {c}
    BY <1>4, <2>3
  <2> QED
    BY <1>4, <2>1, <2>2, <2>4, CountMade
<1>6. CASE p # call[c].who
  <2>1. MadeOf(p)' = MadeOf(p)
    BY <1>1, <1>6 DEF MadeOf, GamesOf, Game
  <2>2. c \in Making(p)' => c \in Making(p)
    BY <1>1, <1>2 DEF Making
  <2>3. Making(p)' \subseteq Making(p)
    BY <1>4, <2>2
  <2>4. Place(p)' - Place(p) <= entries'[p] - entries[p]
    BY <1>4, PlaceIsNat
  <2> QED
    BY <1>4, <2>1, <2>3, <2>4, CountFalls
<1> QED
  BY <1>5, <1>6

\* The opponent of a game that was not created is back in the queue, or out of it
\* with whom the script found.
LEMMA CountRequeue ==
    ASSUME TypeOK, TypeOK', CallsNamed, Counted, NEW c \in Calls, Requeue(c)
    PROVE  Counted'
<1> DEFINE me == call[c].opponent
<1>1. /\ call[c].pc = "requeue" /\ me \in Players /\ Elo[call[c].who] \in Nat
      /\ UNCHANGED games /\ UNCHANGED entries
  BY MatchmakingAssumption DEF Requeue, CallsNamed
<1>2. \E pc \in {"done", "requeued"} : Step(c, pc)
  BY DEF Requeue
<1>3. call'[c].pc \notin {"create", "requeue"} /\ \A d \in Calls \ {c} : call'[d] = call[d]
  BY <1>2, Stepped, Touched DEF Asks
<1>4. CASE \E best : Dequeue({me, best})
  BY <1>1, <1>3, <1>4, DequeueType, CountIdle
<1>5. CASE Wait(me, Elo[call[c].who])
  <2>1. \A q \in Players : queue'[q] = IF q = me THEN Elo[call[c].who] ELSE queue[q]
    BY <1>1, <1>5, WaitType
  <2> SUFFICES ASSUME NEW p \in Players PROVE CountedFor(p)'
    BY DEF Counted, CountedFor, Place
  <2>2. /\ CountedFor(p) /\ Making(p)' \subseteq Making(p) \ {c}
        /\ MadeOf(p)' = MadeOf(p) /\ entries'[p] = entries[p] /\ entries[p] \in Nat
    BY <1>1, <1>3, CountedParts, OthersMake, MadeKept DEF TypeOK
  <2>3. CASE p = me
    <3>1. c \in Making(p)
      BY <1>1, <2>3 DEF Making
    <3> QED
      BY <2>2, <3>1, CountMade
  <2>4. CASE p # me
    <3>1. Place(p)' = Place(p)
      BY <2>1, <2>4 DEF Place, Queued
    <3>2. Place(p)' - Place(p) <= entries'[p] - entries[p]
      BY <2>2, <3>1, PlaceIsNat
    <3> QED
      BY <2>2, <3>2, CountFalls
  <2> QED
    BY <2>3, <2>4
<1> QED
  BY <1>4, <1>5 DEF Requeue

LEMMA CountNext ==
    ASSUME TypeOK, TypeOK', CallsNamed, Counted, Next
    PROVE  Counted'
<1> USE DEF redisVars, histVars
<1>1. ASSUME NEW c \in Calls, NEW p \in Players, Find(c, p) \/ Cancel(c, p)
      PROVE  Counted'
  <2>1. PICK pc \in {"enqueue", "zrem"} : Begin(c, p, pc, TRUE)
    BY <1>1 DEF Find, Cancel
  <2>2. /\ Becomes(c, [pc |-> pc, who |-> p, opponent |-> None, page |-> TRUE])
        /\ call'[c].pc = pc
    <3>1. pc \in Asks \cup Leaves
      BY DEF Asks, Leaves
    <3> QED
      BY <2>1, <3>1, Begun
  <2>3. call'[c].pc \notin {"create", "requeue"} /\ \A d \in Calls \ {c} : call'[d] = call[d]
    BY <2>2, Touched
  <2> QED
    BY <1>1, <2>3, CountIdle DEF Find, Cancel
<1>2. ASSUME NEW p \in Players, Subscribe(p) PROVE Counted'
  BY <1>2, CountSame DEF Subscribe, Making
<1>3. ASSUME NEW p \in Players, Reload(p) PROVE Counted'
  <2>1. \A q \in Players : Making(q)' \subseteq Making(q)
    BY <1>3, Reloaded DEF Making
  <2> QED
    BY <1>3, <2>1, CountSame DEF Reload
<1>4. ASSUME NEW c \in Calls, Ticket(c) \/ Notify(c) \/ HDel(c) \/ Fail(c) PROVE Counted'
  <2>1. Step(c, "done") /\ UNCHANGED <<queue, games, entries>>
    BY <1>4 DEF Ticket, Notify, HDel, Fail
  <2>2. call'[c].pc = "done" /\ \A d \in Calls \ {c} : call'[d] = call[d]
    BY <2>1, Stepped, Touched
  <2> QED
    BY <2>1, <2>2, CountIdle
<1>5. ASSUME NEW c \in Calls, ZRem(c) PROVE Counted'
  <2>1. call'[c].pc = "hdel" /\ \A d \in Calls \ {c} : call'[d] = call[d]
    BY <1>5, Stepped, Touched DEF ZRem, Leaves
  <2>2. \A p \in Players : queue'[p] \in {queue[p], None}
    BY <1>5, WithoutType DEF ZRem, TypeOK
  <2> QED
    BY <1>5, <2>1, <2>2, CountIdle DEF ZRem
<1>6. ASSUME NEW c \in Calls, CreateFails(c) PROVE Counted'
  BY <1>6, CountCreateFails
<1>7. ASSUME ExpireKeys PROVE Counted'
  <2>1. \A p \in Players : queue'[p] \in {queue[p], None}
    BY <1>7, WithoutType DEF ExpireKeys, TypeOK
  <2> QED
    BY <1>7, <2>1, CountSame DEF ExpireKeys, Making
<1>8. ASSUME Tick PROVE Counted'
  BY <1>8, CountSame DEF Tick, Making
<1> QED
  BY <1>1, <1>2, <1>3, <1>4, <1>5, <1>6, <1>7, <1>8, CountEnqueue, CountCreate, CountRequeue
  DEF Next, Serve

-----------------------------------------------------------------------------
(* What a page waits for. *)

\* A step of call c that leaves its page alone.
LEMMA UnheardStep ==
    ASSUME TypeOK, TypeOK', CallsNamed, PagesHear, NEW c \in Calls,
           \A d \in Calls \ {c} : call'[d] = call[d],
           call'[c].who = call[c].who, call'[c].page = call[c].page, page' = page,
           \/ call'[c].pc = "done"
           \/ call[c].pc \in Asks /\ call'[c].pc \in Asks
           \/ call[c].pc \in Leaves /\ call'[c].pc \in Leaves
    PROVE  PagesHear'
<1>1. \A d \in Calls : Heard(d)' => /\ Heard(d) /\ call'[d].who = call[d].who
                                    /\ call'[d].pc \in Asks <=> call[d].pc \in Asks
  BY DEF Heard, Asks, Leaves
<1> QED
  BY <1>1 DEF PagesHear

\* A call that ends and answers its page.
LEMMA LastStep ==
    ASSUME TypeOK, TypeOK', CallsNamed, PagesHear, NEW c \in Calls,
           \A d \in Calls \ {c} : call'[d] = call[d], call'[c].pc = "done",
           call[c].who \in Players, call[c].pc \in Asks \cup Leaves,
           \A p \in Players : page'[p] # page[p] =>
               /\ call[c].page
               /\ p = call[c].who
    PROVE  PagesHear'
<1>1. \A d \in Calls : Heard(d)' => Heard(d) /\ d # c /\ call'[d] = call[d]
  BY DEF Heard, Asks, Leaves
<1>2. ASSUME NEW d \in Calls, Heard(d)'
      PROVE  page'[call[d].who] = page[call[d].who]
  <2>1. Heard(d) /\ d # c
    BY <1>1, <1>2
  <2>2. call[d].who \in Players
    BY <2>1 DEF Heard, Asks, Leaves, CallsNamed
  <2>3. Heard(c) /\ call[d].who = call[c].who => d = c
    BY <2>1 DEF PagesHear
  <2> QED
    BY <2>1, <2>2, <2>3 DEF Heard
<1> QED
  BY <1>1, <1>2 DEF PagesHear

LEMMA HearInit == Init => PagesHear
BY DEF Init, NoCall, PagesHear, Heard

\* A page that asks was at home, and one that leaves has no other call.
LEMMA HearBegin ==
    ASSUME TypeOK, TypeOK', CallsNamed, PagesHear, NEW c \in Calls, NEW p \in Players,
           Find(c, p) \/ Cancel(c, p)
    PROVE  PagesHear'
<1>1. \A d \in Calls : Heard(d) => call[d].who # p
  <2>1. CASE Find(c, p)
    BY <2>1 DEF Find, PagesHear, Waiting
  <2>2. CASE Cancel(c, p)
    BY <2>2 DEF Cancel, Heard, Asks, Leaves
  <2> QED
    BY <2>1, <2>2
<1>2. CASE Find(c, p)
  <2>1. /\ Becomes(c, [pc |-> "enqueue", who |-> p, opponent |-> None, page |-> TRUE])
        /\ call'[c].pc = "enqueue" /\ call'[c].who = p
    BY <1>2, Begun DEF Find, Asks
  <2>2. \A d \in Calls \ {c} : call'[d] = call[d]
    BY <2>1, Touched
  <2>3. \A q \in Players : page'[q] = IF q = p THEN "asking" ELSE page[q]
    BY <1>2 DEF Find, Show, TypeOK
  <2>4. ASSUME NEW d \in Calls, Heard(d)', d # c
        PROVE  Heard(d) /\ call'[d] = call[d] /\ page'[call[d].who] = page[call[d].who]
               /\ call[d].who # p
    <3>1. Heard(d) /\ call'[d] = call[d]
      BY <2>2, <2>4 DEF Heard
    <3>2. call[d].who \in Players
      BY <3>1 DEF Heard, Asks, Leaves, CallsNamed
    <3> QED
      BY <1>1, <2>3, <3>1, <3>2
  <2> QED
    BY <2>1, <2>3, <2>4 DEF PagesHear, Asks
<1>3. CASE Cancel(c, p)
  <2>1. /\ Becomes(c, [pc |-> "zrem", who |-> p, opponent |-> None, page |-> TRUE])
        /\ call'[c].pc = "zrem" /\ call'[c].who = p
    BY <1>3, Begun DEF Cancel, Leaves
  <2>2. \A d \in Calls \ {c} : call'[d] = call[d]
    BY <2>1, Touched
  <2>3. page' = page /\ page[p] \in Waiting
    BY <1>3 DEF Cancel
  <2>4. \A d \in Calls \ {c} : Heard(d)' => Heard(d) /\ call'[d] = call[d] /\ call[d].who # p
    BY <1>1, <2>2 DEF Heard
  <2> QED
    BY <2>1, <2>3, <2>4 DEF PagesHear, Asks
<1> QED
  BY <1>2, <1>3

LEMMA HearNext ==
    ASSUME TypeOK, TypeOK', CallsNamed, PagesHear, Next
    PROVE  PagesHear'
<1>1. ASSUME NEW p \in Players, Subscribe(p) PROVE PagesHear'
  <2>1. page[p] = "ticket" /\ \A q \in Players : page'[q] = IF q = p THEN "watching" ELSE page[q]
    BY <1>1 DEF Subscribe, Show, TypeOK
  <2>2. call' = call
    BY <1>1 DEF Subscribe
  <2>3. ASSUME NEW d \in Calls, Heard(d) PROVE call[d].who \in Players
    BY <2>3 DEF Heard, Asks, Leaves, CallsNamed
  <2> QED
    BY <2>1, <2>2, <2>3 DEF PagesHear, Heard, Waiting
<1>2. ASSUME NEW p \in Players, Reload(p) PROVE PagesHear'
  <2>1. \A d \in Calls : Heard(d)' =>
             /\ Heard(d) /\ call'[d].who = call[d].who /\ call'[d].pc = call[d].pc
             /\ call[d].who # p
    BY <1>2, Reloaded DEF Heard
  <2>2. \A q \in Players : q # p => page'[q] = page[q]
    BY <1>2 DEF Reload, Show, TypeOK
  <2>3. ASSUME NEW d \in Calls, Heard(d) PROVE call[d].who \in Players
    BY <2>3 DEF Heard, Asks, Leaves, CallsNamed
  <2> QED
    BY <2>1, <2>2, <2>3 DEF PagesHear
<1>3. ASSUME NEW c \in Calls, Enqueue(c) PROVE PagesHear'
  <2>1. call[c].pc = "enqueue" /\ page' = page
    BY <1>3 DEF Enqueue
  <2>2. /\ \A d \in Calls \ {c} : call'[d] = call[d]
        /\ call'[c].who = call[c].who /\ call'[c].page = call[c].page
        /\ call'[c].pc \in {"create", "ticket"}
    <3>1. CASE Step(c, "ticket")
      BY <3>1, Stepped, Touched DEF Asks
    <3>2. CASE \E best \in Best(call[c].who, Elo[call[c].who]) :
                 call' = [call EXCEPT ![c].pc = "create", ![c].opponent = best]
      <4>1. PICK best \in Players :
                 call' = [call EXCEPT ![c].pc = "create", ![c].opponent = best]
        BY <3>2, BestIsPlayer
      <4> QED
        BY <4>1, Paired, Touched
    <3> QED
      BY <1>3, <3>1, <3>2 DEF Enqueue
  <2> QED
    BY <2>1, <2>2, UnheardStep DEF Asks
<1>4. ASSUME NEW c \in Calls, CreateGame(c) \/ CreateFails(c) \/ ZRem(c) PROVE PagesHear'
  <2>1. PICK pc \in {"notify", "requeue", "hdel"} :
            /\ Step(c, pc) /\ page' = page
            /\ call[c].pc = IF pc = "hdel" THEN "zrem" ELSE "create"
    BY <1>4 DEF CreateGame, CreateFails, ZRem
  <2>2. /\ \A d \in Calls \ {c} : call'[d] = call[d]
        /\ call'[c].who = call[c].who /\ call'[c].page = call[c].page /\ call'[c].pc = pc
    BY <2>1, Stepped, Touched DEF Asks, Leaves
  <2> QED
    BY <2>1, <2>2, UnheardStep DEF Asks, Leaves
<1>5. ASSUME NEW c \in Calls, Step(c, "done"), call[c].pc \in Asks \cup Leaves,
             (\E what \in {"home", "ticket"} : Answer(c, what)) \/ UNCHANGED page
      PROVE  PagesHear'
  <2>1. \A d \in Calls \ {c} : call'[d] = call[d]
    BY <1>5, Stepped, Touched
  <2>2. call[c].who \in Players /\ call'[c].pc = "done"
    BY <1>5, Stepped DEF CallsNamed, Asks, Leaves
  <2>3. \A p \in Players : page'[p] # page[p] => call[c].page /\ p = call[c].who
    BY <1>5, <2>2, Answered DEF Waiting
  <2> QED
    BY <1>5, <2>1, <2>2, <2>3, LastStep
<1>6. ASSUME NEW c \in Calls, Ticket(c) \/ HDel(c) \/ Fail(c) PROVE PagesHear'
  BY <1>5, <1>6, CallShape DEF Ticket, HDel, Fail, Asks, Leaves
<1>7. ASSUME NEW c \in Calls, Requeue(c) PROVE PagesHear'
  <2>1. call[c].pc = "requeue"
    BY <1>7 DEF Requeue
  <2>2. CASE Step(c, "done") /\ Answer(c, "home")
    BY <1>5, <2>1, <2>2 DEF Asks
  <2>3. CASE Step(c, "requeued") /\ UNCHANGED page
    <3>1. /\ \A d \in Calls \ {c} : call'[d] = call[d]
          /\ call'[c].who = call[c].who /\ call'[c].page = call[c].page
          /\ call'[c].pc = "requeued"
      BY <2>3, Stepped, Touched DEF Asks
    <3> QED
      BY <2>1, <2>3, <3>1, UnheardStep DEF Asks
  <2> QED
    BY <1>7, <2>2, <2>3 DEF Requeue
<1>8. ASSUME NEW c \in Calls, Notify(c) PROVE PagesHear'
  <2>1. Step(c, "done") /\ call[c].pc = "notify"
    BY <1>8 DEF Notify
  <2>2. call'[c].pc = "done" /\ \A d \in Calls \ {c} : call'[d] = call[d]
    BY <2>1, Stepped, Touched
  <2>3. \A p \in Players :
            \/ page'[p] = page[p]
            \/ call[c].page /\ p = call[c].who
            \/ page[p] = "watching" /\ page'[p] = "playing"
    BY <1>8 DEF Notify, TypeOK
  <2>4. \A d \in Calls : Heard(d)' => Heard(d) /\ d # c /\ call'[d] = call[d]
    BY <2>1, <2>2 DEF Heard, Asks, Leaves
  <2>5. ASSUME NEW d \in Calls, Heard(d)'
        PROVE  \/ page'[call[d].who] = page[call[d].who]
               \/ page[call[d].who] = "watching" /\ page'[call[d].who] = "playing"
    <3>1. Heard(d) /\ d # c
      BY <2>4, <2>5
    <3>2. call[d].who \in Players
      BY <3>1 DEF Heard, Asks, Leaves, CallsNamed
    <3>3. Heard(c) /\ call[d].who = call[c].who => d = c
      BY <3>1 DEF PagesHear
    <3>4. call[c].page => Heard(c)
      BY <2>1 DEF Heard, Asks
    <3> QED
      BY <2>3, <3>1, <3>2, <3>3, <3>4
  <2> QED
    BY <2>4, <2>5 DEF PagesHear, Waiting
<1>9. ASSUME UNCHANGED <<call, page>> PROVE PagesHear'
  BY <1>9 DEF PagesHear, Heard
<1>10. ExpireKeys \/ Tick => UNCHANGED <<call, page>>
  BY DEF ExpireKeys, Tick
<1> QED
  BY <1>1, <1>2, <1>3, <1>4, <1>6, <1>7, <1>8, <1>9, <1>10, HearBegin DEF Next, Serve

\* Who hopes after a step of call c, hoped before it.
LEMMA HopedBefore ==
    ASSUME NEW p, NEW c \in Calls, \A d \in Calls \ {c} : call'[d] = call[d],
           Hopes(p)', page'[p] \in Waiting => Hopes(p),
           Heard(c)' /\ call'[c].pc = "ticket" /\ call'[c].who = p => Hopes(p)
    PROVE  Hopes(p)
BY DEF Hopes, Heard

\* Who was cared for before a step of call c, is after it, if it has not lost its
\* place or call c.
LEMMA CaredAfter ==
    ASSUME NEW p, NEW c \in Calls, \A d \in Calls \ {c} : call'[d] = call[d],
           Cared(p), games \subseteq games', Queued(p) => Cared(p)',
           Held(p, c) \/ Leaving(p, c) => Cared(p)'
    PROVE  Cared(p)'
<1>1. CASE GamesOf(p) # {}
  BY <1>1 DEF Cared, GamesOf
<1>2. ASSUME NEW d \in Calls, Held(p, d) \/ Leaving(p, d) PROVE Cared(p)'
  <2>1. CASE d # c
    <3>1. Held(p, d)' \/ Leaving(p, d)'
      BY <1>2, <2>1 DEF Held, Leaving, Heard
    <3> QED
      BY <3>1 DEF Cared
  <2> QED
    BY <1>2, <2>1
<1> QED
  BY <1>1, <1>2 DEF Cared

\* A call that neither held anybody nor gives anybody hope.
LEMMA HopesAside ==
    ASSUME TypeOK, HopesHeld, NEW c \in Calls, \A d \in Calls \ {c} : call'[d] = call[d],
           UNCHANGED queue, UNCHANGED games, dropped \subseteq dropped',
           call[c].pc \notin {"create", "requeue", "hdel"}, call'[c].pc # "ticket",
           \A p \in Players : page'[p] \in Waiting => Hopes(p)
    PROVE  HopesHeld'
<1> SUFFICES ASSUME NEW p \in Players \ dropped', Hopes(p)' PROVE Cared(p)'
  BY DEF HopesHeld
<1>1. Hopes(p)
  BY HopedBefore
<1>2. Cared(p)
  BY <1>1 DEF HopesHeld
<1>3. Queued(p) => Cared(p)'
  BY DEF Cared, Queued
<1>4. ~Held(p, c) /\ ~Leaving(p, c)
  BY DEF Held, Leaving
<1> QED
  BY <1>2, <1>3, <1>4, CaredAfter

LEMMA HopesInit == Init => HopesHeld
BY DEF Init, NoCall, HopesHeld, Hopes, Heard, Waiting

LEMMA HopesBegin ==
    ASSUME TypeOK, HopesHeld, NEW c \in Calls, NEW p \in Players, Find(c, p) \/ Cancel(c, p)
    PROVE  HopesHeld'
<1>1. PICK pc \in {"enqueue", "zrem"} : Begin(c, p, pc, TRUE)
  BY DEF Find, Cancel
<1>2. /\ Becomes(c, [pc |-> pc, who |-> p, opponent |-> None, page |-> TRUE])
      /\ call'[c].pc = pc /\ call[c].pc = "idle"
  <2>1. pc \in Asks \cup Leaves
    BY DEF Asks, Leaves
  <2> QED
    BY <1>1, <2>1, Begun
<1>3. \A d \in Calls \ {c} : call'[d] = call[d]
  BY <1>2, Touched
<1>4. \A q \in Players : page'[q] \in Waiting => Hopes(q)
  BY DEF Find, Cancel, Show, TypeOK, Hopes, Waiting
<1>5. UNCHANGED queue /\ UNCHANGED games /\ dropped \subseteq dropped'
  BY DEF Find, Cancel, redisVars, histVars
<1> QED
  BY <1>2, <1>3, <1>4, <1>5, HopesAside

LEMMA HopesReload ==
    ASSUME TypeOK, HopesHeld, NEW q \in Players, Reload(q)
    PROVE  HopesHeld'
<1> SUFFICES ASSUME NEW p \in Players \ dropped', Hopes(p)' PROVE Cared(p)'
  BY DEF HopesHeld
<1>1. UNCHANGED queue /\ UNCHANGED games /\ UNCHANGED dropped
      /\ \A r \in Players : page'[r] = IF r = q THEN "home" ELSE page[r]
  BY DEF Reload, Show, TypeOK, redisVars, histVars
<1>2. p # q /\ Hopes(p)
  <2>1. CASE page'[p] \in Waiting
    BY <1>1, <2>1 DEF Hopes, Waiting
  <2>2. ASSUME NEW c \in Calls, Heard(c)', call'[c].pc = "ticket", call'[c].who = p
        PROVE  p # q /\ Hopes(p)
    BY <2>2, Reloaded DEF Heard, Hopes
  <2> QED
    BY <2>1, <2>2 DEF Hopes
<1>3. Cared(p)
  BY <1>1, <1>2 DEF HopesHeld
<1>4. ASSUME NEW d \in Calls, Held(p, d) \/ Leaving(p, d) PROVE Held(p, d)' \/ Leaving(p, d)'
  <2>1. call[d].pc # "idle"
    BY <1>4 DEF Held, Leaving
  <2> QED
    BY <1>2, <1>4, <2>1, Reloaded DEF Held, Leaving, Heard
<1> QED
  BY <1>1, <1>3, <1>4 DEF Cared, Queued, GamesOf

\* Both of a pair are held by the call that paired them; who waits is in the queue.
LEMMA HopesEnqueue ==
    ASSUME TypeOK, CallsNamed, HopesHeld, NEW c \in Calls, Enqueue(c)
    PROVE  HopesHeld'
<1> DEFINE me == call[c].who
<1>1. /\ call[c].pc = "enqueue" /\ page' = page /\ games' = games /\ dropped' = dropped \ {me}
      /\ me \in Players /\ Elo[me] \in Nat /\ None \notin Nat
  BY MatchmakingAssumption DEF Enqueue, CallsNamed
<1> SUFFICES ASSUME NEW p \in Players \ dropped', Hopes(p)' PROVE Cared(p)'
  BY DEF HopesHeld
<1>3. CASE \E best \in Best(me, Elo[me]) :
             /\ Dequeue({me, best})
             /\ call' = [call EXCEPT ![c].pc = "create", ![c].opponent = best]
  <2>1. PICK best \in Best(me, Elo[me]) :
             /\ Dequeue({me, best})
             /\ call' = [call EXCEPT ![c].pc = "create", ![c].opponent = best]
    BY <1>3
  <2>2. best \in Players \ {me}
    BY BestIsPlayer
  <2>3. /\ Becomes(c, [call[c] EXCEPT !.pc = "create", !.opponent = best])
        /\ call'[c].pc = "create" /\ call'[c].who = me /\ call'[c].opponent = best
    BY <2>1, <2>2, Paired
  <2>4. \A d \in Calls \ {c} : call'[d] = call[d]
    BY <2>3, Touched
  <2>5. \A q \in Players : queue'[q] = IF q \in {me, best} THEN None ELSE queue[q]
    BY <2>1, DequeueType
  <2>6. CASE p \in {me, best}
    BY <2>3, <2>6 DEF Cared, Held
  <2>7. CASE p \notin {me, best}
    <3>1. Hopes(p)
      BY <1>1, <2>3, <2>4, HopedBefore DEF Hopes
    <3>2. Cared(p)
      BY <1>1, <2>7, <3>1 DEF HopesHeld
    <3>3. Queued(p) => Cared(p)'
      BY <2>5, <2>7 DEF Queued, Cared
    <3>4. ~Held(p, c) /\ ~Leaving(p, c)
      BY <1>1 DEF Held, Leaving
    <3> QED
      BY <1>1, <2>4, <3>2, <3>3, <3>4, CaredAfter
  <2> QED
    BY <2>6, <2>7
<1>4. CASE Wait(me, Elo[me]) /\ Step(c, "ticket")
  <2>1. /\ \A d \in Calls \ {c} : call'[d] = call[d]
        /\ call'[c].who = me
    BY <1>4, Stepped, Touched DEF Asks
  <2>2. \A q \in Players : queue'[q] = IF q = me THEN Elo[me] ELSE queue[q]
    BY <1>1, <1>4, WaitType
  <2>3. CASE p = me
    BY <1>1, <2>2, <2>3 DEF Cared, Queued
  <2>4. CASE p # me
    <3>1. Hopes(p)
      BY <1>1, <2>1, <2>4, HopedBefore DEF Hopes
    <3>2. Cared(p)
      BY <1>1, <2>4, <3>1 DEF HopesHeld
    <3>3. Queued(p) => Cared(p)'
      BY <2>2, <2>4 DEF Queued, Cared
    <3>4. ~Held(p, c) /\ ~Leaving(p, c)
      BY <1>1 DEF Held, Leaving
    <3> QED
      BY <1>1, <2>1, <3>2, <3>3, <3>4, CaredAfter
  <2> QED
    BY <2>3, <2>4
<1> QED
  BY <1>3, <1>4 DEF Enqueue

\* A call that paired p goes on to the game, to putting p back, or drops it.
LEMMA HopesPaired ==
    ASSUME TypeOK, CallsNamed, HopesHeld, NEW c \in Calls,
           CreateGame(c) \/ CreateFails(c) \/ Requeue(c)
    PROVE  HopesHeld'
<1>1. PICK pc \in {"notify", "requeue", "requeued", "done"} : Step(c, pc)
  BY DEF CreateGame, CreateFails, Requeue
<1>2. /\ \A d \in Calls \ {c} : call'[d] = call[d]
      /\ call'[c].pc = pc /\ call'[c].who = call[c].who /\ call'[c].opponent = call[c].opponent
  BY <1>1, Stepped, Touched DEF Asks
<1>3. /\ call[c].pc \in {"create", "requeue"} /\ call[c].who \in Players
      /\ call[c].opponent \in Players /\ Elo[call[c].who] \in Nat /\ None \notin Nat
  BY MatchmakingAssumption DEF CreateGame, CreateFails, Requeue, CallsNamed
<1>4. \A q \in Players : page'[q] = page[q] \/ page'[q] = "home"
  <2>1. CASE Answer(c, "home")
    BY <1>3, <2>1, Answered
  <2> QED
    BY <2>1 DEF CreateGame, CreateFails, Requeue
<1>5. games \subseteq games' /\ dropped \subseteq dropped'
  BY DEF CreateGame, CreateFails, Requeue, histVars
<1> SUFFICES ASSUME NEW p \in Players \ dropped', Hopes(p)' PROVE Cared(p)'
  BY DEF HopesHeld
<1>6. Hopes(p)
  <2>1. page'[p] \in Waiting => Hopes(p)
    BY <1>4 DEF Hopes, Waiting
  <2>2. call'[c].pc # "ticket"
    BY <1>2
  <2> QED
    BY <1>2, <2>1, <2>2, HopedBefore
<1>7. Cared(p)
  BY <1>5, <1>6 DEF HopesHeld
<1>8. ~Leaving(p, c)
  BY <1>3 DEF Leaving
<1>9. CASE CreateGame(c)
  <2>1. Queued(p) => Cared(p)'
    BY <1>9 DEF CreateGame, redisVars, Cared, Queued
  <2>2. Held(p, c) => Cared(p)'
    <3>1. Game(c, TRUE) \in games'
      BY <1>9 DEF CreateGame
    <3> QED
      BY <3>1 DEF Held, Cared, GamesOf, Game
  <2> QED
    BY <1>2, <1>5, <1>7, <1>8, <2>1, <2>2, CaredAfter
<1>10. CASE CreateFails(c)
  <2>1. Queued(p) => Cared(p)'
    BY <1>10 DEF CreateFails, redisVars, Cared, Queued
  <2>2. Held(p, c) => Cared(p)'
    <3>1. call'[c].pc = "requeue"
      BY <1>10, Stepped DEF CreateFails, Asks
    <3> QED
      BY <1>2, <3>1 DEF Held, Cared
  <2> QED
    BY <1>2, <1>5, <1>7, <1>8, <2>1, <2>2, CaredAfter
<1>11. CASE Requeue(c)
  <2>1. CASE \E best \in Best(call[c].opponent, Elo[call[c].who]) :
             /\ Dequeue({call[c].opponent, best})
             /\ dropped' = dropped \cup {call[c].who, call[c].opponent, best}
    <3>1. PICK best \in Best(call[c].opponent, Elo[call[c].who]) :
             /\ Dequeue({call[c].opponent, best})
             /\ dropped' = dropped \cup {call[c].who, call[c].opponent, best}
      BY <2>1
    <3>2. p \notin {call[c].who, call[c].opponent, best}
      BY <3>1
    <3>3. Queued(p) => Cared(p)'
      BY <3>1, <3>2, DequeueType DEF Queued, Cared
    <3>4. ~Held(p, c)
      BY <3>2 DEF Held
    <3> QED
      BY <1>2, <1>5, <1>7, <1>8, <3>3, <3>4, CaredAfter
  <2>2. CASE /\ Wait(call[c].opponent, Elo[call[c].who])
             /\ dropped' = dropped \cup {call[c].who}
    <3>1. \A q \in Players :
              queue'[q] = IF q = call[c].opponent THEN Elo[call[c].who] ELSE queue[q]
      BY <1>3, <2>2, WaitType
    <3>2. CASE p = call[c].opponent
      BY <1>3, <3>1, <3>2 DEF Cared, Queued
    <3>3. CASE p # call[c].opponent
      <4>1. Queued(p) => Cared(p)'
        BY <3>1, <3>3 DEF Queued, Cared
      <4>2. ~Held(p, c)
        BY <2>2, <3>3 DEF Held
      <4> QED
        BY <1>2, <1>5, <1>7, <1>8, <4>1, <4>2, CaredAfter
    <3> QED
      BY <3>2, <3>3
  <2> QED
    BY <1>11, <2>1, <2>2 DEF Requeue
<1> QED
  BY <1>9, <1>10, <1>11

\* A leave that its page waits for cares for the player until it has answered; a
\* late one drops it.
LEMMA HopesLeave ==
    ASSUME TypeOK, TypeOK', CallsNamed, PagesHear, HopesHeld, NEW c \in Calls,
           ZRem(c) \/ HDel(c)
    PROVE  HopesHeld'
<1>1. PICK pc \in {"hdel", "done"} : Step(c, pc)
  BY DEF ZRem, HDel
<1>2. /\ \A d \in Calls \ {c} : call'[d] = call[d]
      /\ call'[c].pc = pc /\ call'[c].who = call[c].who /\ call'[c].page = call[c].page
  BY <1>1, Stepped, Touched DEF Leaves
<1>3. call[c].pc \in Leaves /\ call[c].who \in Players
  BY DEF ZRem, HDel, CallsNamed, Leaves
<1>4. \A q \in Players : page'[q] = page[q] \/ page'[q] = "home"
  <2>1. CASE Answer(c, "home")
    BY <1>3, <2>1, Answered
  <2> QED
    BY <2>1 DEF ZRem, HDel
<1>5. UNCHANGED games /\ dropped \subseteq dropped'
  BY DEF ZRem, HDel, histVars
<1> SUFFICES ASSUME NEW p \in Players \ dropped', Hopes(p)' PROVE Cared(p)'
  BY DEF HopesHeld
<1>6. Hopes(p)
  <2>1. page'[p] \in Waiting => Hopes(p)
    BY <1>4 DEF Hopes, Waiting
  <2> QED
    BY <1>2, <2>1, HopedBefore
<1>7. Cared(p) /\ ~Held(p, c)
  BY <1>3, <1>5, <1>6 DEF HopesHeld, Held, Leaves
<1>8. CASE ZRem(c)
  <2>1. ~Leaving(p, c)
    BY <1>8 DEF ZRem, Leaving
  <2>2. Queued(p) => Cared(p)'
    <3>1. CASE p = call[c].who
      <4>1. call[c].page /\ call'[c].pc = "hdel"
        BY <1>8, <3>1, Stepped DEF ZRem, Leaves
      <4>2. Leaving(p, c)'
        BY <1>2, <3>1, <4>1 DEF Leaving, Heard, Leaves
      <4> QED
        BY <4>2 DEF Cared
    <3>2. CASE p # call[c].who
      <4>1. queue'[p] = queue[p]
        BY <1>8, <3>2, WithoutType DEF ZRem, TypeOK
      <4> QED
        BY <4>1 DEF Queued, Cared
    <3> QED
      BY <3>1, <3>2
  <2> QED
    BY <1>2, <1>5, <1>7, <2>1, <2>2, CaredAfter
<1>9. CASE HDel(c)
  <2>1. Queued(p) => Cared(p)'
    BY <1>9 DEF HDel, Cared, Queued
  <2>2. ~Leaving(p, c)
    <3>1. SUFFICES ASSUME Heard(c), call[c].who = p PROVE FALSE
      BY DEF Leaving
    <3>2. page[p] \in {"playing"} \cup Waiting
      BY <1>3, <3>1 DEF PagesHear, Asks, Leaves
    <3>3. page'[p] \notin Waiting
      <4>1. CASE page[p] \in Waiting
        <5>1. Answer(c, "home")
          BY <1>9, <3>1, <4>1 DEF HDel
        <5>2. page'[p] = "home"
          BY <1>3, <3>1, <5>1, Answered DEF Heard
        <5> QED
          BY <5>2 DEF Waiting
      <4>2. CASE page[p] = "playing"
        BY <1>4, <4>2 DEF Waiting
      <4> QED
        BY <3>2, <4>1, <4>2
    <3>4. PICK d \in Calls : Heard(d)' /\ call'[d].pc = "ticket" /\ call'[d].who = p
      BY <3>3 DEF Hopes
    <3>5. d # c
      BY <1>2, <3>4
    <3>6. Heard(d) /\ call[d].who = p
      BY <1>2, <3>4, <3>5 DEF Heard
    <3> QED
      BY <3>1, <3>5, <3>6 DEF PagesHear
  <2> QED
    BY <1>2, <1>5, <1>7, <2>1, <2>2, CaredAfter
<1> QED
  BY <1>8, <1>9

\* A call that fails drops who it held.
LEMMA HopesFail ==
    ASSUME TypeOK, CallsNamed, HopesHeld, NEW c \in Calls, Fail(c)
    PROVE  HopesHeld'
<1>1. \A d \in Calls \ {c} : call'[d] = call[d]
  BY Stepped, Touched DEF Fail
<1>2. call'[c].pc = "done" /\ call[c].pc # "idle" /\ call[c].who \in Players
  BY Stepped DEF Fail, CallsNamed
<1>3. \A q \in Players : page'[q] = page[q] \/ page'[q] = "home"
  <2>1. CASE Answer(c, "home")
    BY <1>2, <2>1, Answered
  <2> QED
    BY <2>1 DEF Fail
<1>4. /\ UNCHANGED games /\ UNCHANGED queue /\ dropped \subseteq dropped'
      /\ call[c].pc \in {"create", "requeue"} =>
             call[c].who \in dropped' /\ call[c].opponent \in dropped'
      /\ call[c].pc = "hdel" => call[c].who \in dropped'
  BY DEF Fail, redisVars
<1> SUFFICES ASSUME NEW p \in Players \ dropped', Hopes(p)' PROVE Cared(p)'
  BY DEF HopesHeld
<1>5. Hopes(p)
  <2>1. page'[p] \in Waiting => Hopes(p)
    BY <1>3 DEF Hopes, Waiting
  <2> QED
    BY <1>1, <1>2, <2>1, HopedBefore
<1>6. Cared(p)
  BY <1>4, <1>5 DEF HopesHeld
<1>7. Queued(p) => Cared(p)'
  BY <1>4 DEF Cared, Queued
<1>8. ~Held(p, c) /\ ~Leaving(p, c)
  BY <1>4 DEF Held, Leaving
<1> QED
  BY <1>1, <1>4, <1>6, <1>7, <1>8, CaredAfter

LEMMA HopesNext ==
    ASSUME TypeOK, TypeOK', CallsNamed, PagesHear, HopesHeld, Next
    PROVE  HopesHeld'
<1> USE DEF redisVars, histVars
<1>1. ASSUME NEW q \in Players, Subscribe(q) PROVE HopesHeld'
  <2>1. /\ UNCHANGED <<queue, games, dropped, call>>
        /\ \A p \in Players : page'[p] \in Waiting => page[p] \in Waiting
    BY <1>1 DEF Subscribe, Show, TypeOK, Waiting
  <2>2. \A p \in Players : Hopes(p)' => Hopes(p)
    BY <2>1 DEF Hopes, Heard
  <2>3. \A p \in Players : Cared(p) => Cared(p)'
    BY <2>1 DEF Cared, Queued, GamesOf, Held, Leaving, Heard
  <2> QED
    BY <2>1, <2>2, <2>3 DEF HopesHeld
<1>2. ASSUME NEW c \in Calls, Ticket(c) PROVE HopesHeld'
  <2>1. Step(c, "done") /\ UNCHANGED <<queue, games, dropped>>
    BY <1>2 DEF Ticket
  <2>2. call'[c].pc = "done" /\ \A d \in Calls \ {c} : call'[d] = call[d]
    BY <2>1, Stepped, Touched
  <2>3. call[c].pc \in {"ticket", "requeued"} /\ call[c].who \in Players
    BY <1>2 DEF Ticket, CallsNamed
  <2>4. \A p \in Players : page'[p] \in Waiting => Hopes(p)
    <3>1. CASE call[c].pc = "ticket"
      <4>1. Answer(c, "ticket")
        BY <1>2, <3>1 DEF Ticket
      <4>2. \A p \in Players : page'[p] = page[p] \/ (call[c].page /\ p = call[c].who)
        BY <2>3, <4>1, Answered DEF Waiting
      <4> QED
        BY <3>1, <4>2 DEF Hopes, Heard, Asks
    <3>2. CASE call[c].pc = "requeued"
      <4>1. Answer(c, "home")
        BY <1>2, <3>2 DEF Ticket
      <4>2. \A p \in Players : page'[p] = page[p] \/ page'[p] = "home"
        BY <2>3, <4>1, Answered
      <4> QED
        BY <4>2 DEF Hopes, Waiting
    <3> QED
      BY <2>3, <3>1, <3>2
  <2> QED
    BY <2>1, <2>2, <2>3, <2>4, HopesAside
<1>3. ASSUME NEW c \in Calls, Notify(c) PROVE HopesHeld'
  <2>1. Step(c, "done") /\ UNCHANGED <<queue, games, dropped>> /\ call[c].pc = "notify"
    BY <1>3 DEF Notify
  <2>2. call'[c].pc = "done" /\ \A d \in Calls \ {c} : call'[d] = call[d]
    BY <2>1, Stepped, Touched
  <2>3. \A p \in Players : page'[p] \in Waiting => Hopes(p)
    BY <1>3 DEF Notify, TypeOK, Hopes, Waiting
  <2> QED
    BY <2>1, <2>2, <2>3, HopesAside
<1>4. ASSUME ExpireKeys PROVE HopesHeld'
  <2>1. /\ UNCHANGED <<call, page, games>>
        /\ dropped' = dropped \cup {p \in Players : Queued(p)}
    BY <1>4 DEF ExpireKeys
  <2>2. \A p \in Players : Hopes(p)' => Hopes(p)
    BY <2>1 DEF Hopes, Heard
  <2>3. \A p \in Players : Cared(p) /\ ~Queued(p) => Cared(p)'
    BY <2>1 DEF Cared, GamesOf, Held, Leaving, Heard
  <2> QED
    BY <2>1, <2>2, <2>3 DEF HopesHeld
<1>5. ASSUME Tick PROVE HopesHeld'
  BY <1>5 DEF Tick, HopesHeld, Hopes, Cared, Queued, GamesOf, Held, Leaving, Heard
<1> QED
  BY <1>1, <1>2, <1>3, <1>4, <1>5, HopesBegin, HopesReload, HopesEnqueue, HopesPaired,
     HopesLeave, HopesFail DEF Next, Serve

-----------------------------------------------------------------------------
(* The theorems. *)

\* Whatever calls race, fail or are lost, with the script run as one step: the
\* entries are accounted for, nobody stands beside an acceptable opponent, a page has
\* one call at a time, and who waits is cared for.
THEOREM QueueInductive == Spec => []IInv
<1>1. Init => IInv
  BY TypeInit, CountInit, ApartInit, HearInit, HopesInit DEF IInv
<1>2. IInv /\ [Next]_vars => IInv'
  <2> SUFFICES ASSUME IInv, [Next]_vars PROVE IInv'
    OBVIOUS
  <2>1. CASE Next
    <3>1. TypeOK' /\ CallsNamed'
      BY <2>1, TypeNext DEF IInv
    <3> QED
      BY <2>1, <3>1, CountNext, ApartNext, HearNext, HopesNext DEF IInv
  <2>2. CASE UNCHANGED vars
    <3>1. UNCHANGED <<now, queue, since, call, page, games, entries, dropped>>
      BY <2>2 DEF vars, redisVars, histVars
    <3>2. TypeOK' /\ CallsNamed' /\ NoMissedPair'
      BY <3>1 DEF IInv, TypeOK, CallsNamed, NoMissedPair, Queued, Gap
    <3>3. Counted'
      BY <3>1, <3>2, CountSame DEF IInv, Making
    <3>4. PagesHear' /\ HopesHeld'
      BY <3>1 DEF IInv, PagesHear, HopesHeld, Hopes, Cared, Queued, GamesOf, Held, Leaving, Heard
    <3> QED
      BY <3>2, <3>3, <3>4 DEF IInv
  <2> QED
    BY <2>1, <2>2
<1> QED
  BY <1>1, <1>2, PTL DEF Spec

\* One place in the queue is at most one game: the pairing script takes both out, and
\* a failed CreateGame puts back only the opponent that it had.  The game that such a
\* failure may leave behind is the caller's; to the opponent it is one too many.
THEOREM EntriesMakeOneGame == Spec => []OneGamePerEntry
<1>1. IInv => OneGamePerEntry
  BY DEF IInv, Counted, OneGamePerEntry
<1> QED
  BY <1>1, QueueInductive, PTL

\* The script leaves no two players standing who are within the first band of each
\* other, whoever came second, was put back or came again.
THEOREM PairsAreMade == Spec => []NoMissedPair
<1>1. IInv => NoMissedPair
  BY DEF IInv
<1> QED
  BY <1>1, QueueInductive, PTL

\* When no call is under way, a page that waits is in the queue or has a game, but
\* for the players that a fault or a race took out (app.js, enterQueue, leaveQueue).
THEOREM WaitersAreKept == Spec => []WaitsForSomething
<1>1. IInv => WaitsForSomething
  <2> SUFFICES ASSUME IInv, Quiet, NEW p \in Players, page[p] \in Waiting, p \notin dropped
               PROVE  Queued(p) \/ GamesOf(p) # {}
    BY DEF WaitsForSomething
  <2>1. Cared(p)
    BY DEF IInv, HopesHeld, Hopes
  <2> QED
    BY <2>1 DEF Cared, Held, Leaving, Quiet
<1> QED
  BY <1>1, QueueInductive, PTL
=============================================================================
