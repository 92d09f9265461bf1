------------------------------- MODULE Analysis -------------------------------
(***************************************************************************)
(* The analysis of finished games: workers of one Kafka consumer group     *)
(* (pkg/kafkax/kafkax.go, services/analysis-worker), the novelty filter in *)
(* Redis (pkg/redisx/novelty.go) and the reports in Postgres               *)
(* (pkg/store/analysis.go).                                                *)
(*                                                                         *)
(* A worker polls a batch, handles its records one by one and commits what *)
(* it has polled; what it has polled is remembered by the client library,  *)
(* whatever became of it.  Partitions move between workers at any moment,  *)
(* a batch in hand included, and a new owner starts from the commit.       *)
(*                                                                         *)
(* A record is the game it asks for.  What the engine says of a position   *)
(* does not change between attempts, so a report is told apart by its      *)
(* novelty only.  The filter is taken to be exact: it never forgets, and   *)
(* its false positives only hide novelties.  The fair-play samples that    *)
(* Analyze adds to a series nothing here reads are left out.               *)
(***************************************************************************)
EXTENDS Integers, Sequences, FiniteSets, FiniteSetsExt

CONSTANTS
    Workers, Partitions,
    Log,          \* the records of each partition, a sequence of games
    Line,         \* the positions each game went through
    Garbled,      \* records that do not parse
    None,
    MaxFailed     \* bound: calls that fail, workers that die, partitions that move

Games == UNION {{Log[p][i] : i \in DOMAIN Log[p]} : p \in Partitions}

Positions == UNION {{Line[g][i] : i \in DOMAIN Line[g]} : g \in DOMAIN Line}

ASSUME AnalysisAssumption ==
    /\ \A p \in Partitions : Log[p] \in Seq(Games)
    /\ \A g \in Games \ Garbled :
           g \in DOMAIN Line /\ Line[g] \in Seq(Positions) /\ Len(Line[g]) >= 2
    /\ None \notin Positions
    /\ MaxFailed \in Nat

Offsets == UNION {{<<p, i>> : i \in DOMAIN Log[p]} : p \in Partitions}
Game(r) == Log[r[1]][r[2]]
Longest == Max({Len(Log[p]) : p \in Partitions})

VARIABLES
    owner,       \* the worker each partition is assigned to
    committed,   \* records of each partition that are committed
    polled,      \* records of each partition its owner has polled
    worker,
    seen,        \* the positions in the filter
    report,      \* the novelty of each saved report
    saved,       \* games with a report
    failed,
    \* History, read by no guard.
    errored,     \* records a handling of which returned an error
    dropped,     \* records of fetches that were thrown away
    known,       \* the reports there were when the filter was asked for each saved report
    unfiled      \* games whose positions could not be recorded

brokerVars == <<owner, committed, polled>>
storeVars  == <<report, saved>>
histVars   == <<errored, dropped, known, unfiled>>
vars == <<brokerVars, worker, seen, storeVars, failed, histVars>>

Idle == [pc |-> "poll", batch |-> {}, clean |-> TRUE, record |-> <<>>, novelty |-> None,
         known |-> {}]

Fails == failed < MaxFailed /\ failed' = failed + 1

Owned(w) == {p \in Partitions : owner[p] = w}

\* The records of w's partitions up to the offsets `upto', polled already or not.
Fetched(w, upto) == {r \in Offsets : r[1] \in Owned(w) /\ polled[r[1]] < r[2] /\ r[2] <= upto[r[1]]}

--------------------------------------------------------------------------
\* Consumer.Run.

\* PollFetches: the client counts the records as polled from here on.
Poll(w) ==
    /\ worker[w].pc = "poll"
    /\ \E upto \in [Owned(w) -> 0 .. Longest] :
        /\ \A p \in Owned(w) : upto[p] \in polled[p] .. Len(Log[p])
        /\ Fetched(w, upto) # {}
        /\ polled' = [p \in Partitions |-> IF p \in Owned(w) THEN upto[p] ELSE polled[p]]
        /\ \/ /\ worker' = [worker EXCEPT ![w] = [Idle EXCEPT !.pc = "next",
                                                              !.batch = Fetched(w, upto)]]
              /\ UNCHANGED <<failed, dropped>>
           \* A partition of the fetch is in error: the loop backs off and
           \* polls again, and leaves the records of the others where they are.
           \/ /\ Fails
              /\ dropped' = dropped \cup Fetched(w, upto)
              /\ UNCHANGED worker
    /\ UNCHANGED <<owner, committed, seen, storeVars, errored, known, unfiled>>

Goto(w, pc) == worker' = [worker EXCEPT ![w].pc = pc]

\* The next record of the batch, in order within its partition.
NextRecord(w) ==
    /\ worker[w].pc = "next"
    /\ \E r \in worker[w].batch :
        /\ \A q \in worker[w].batch : q[1] = r[1] => r[2] <= q[2]
        /\ IF Game(r) \in Garbled
           THEN worker' = [worker EXCEPT ![w].batch = @ \ {r}]
           ELSE worker' = [worker EXCEPT ![w].batch = @ \ {r}, ![w].record = r,
                                         ![w].pc = "analyze"]
    /\ UNCHANGED <<brokerVars, seen, storeVars, failed, histVars>>

\* Mutant: the worker commits for partitions it has lost.
CommitForeign(w) == committed' = polled

\* CommitUncommittedOffsets: all that was ever polled, not this batch alone.
CommitPolled(w) ==
    committed' = [p \in Partitions |-> IF p \in Owned(w) THEN polled[p] ELSE committed[p]]

\* The batch is done: a clean one is committed; that this fails is only logged.
Commit(w) ==
    /\ worker[w].pc = "next"
    /\ worker[w].batch = {}
    /\ worker' = [worker EXCEPT ![w] = Idle]
    /\ \/ worker[w].clean /\ CommitPolled(w) /\ UNCHANGED failed
       \/ worker[w].clean /\ Fails /\ UNCHANGED committed
       \/ ~worker[w].clean /\ UNCHANGED <<committed, failed>>
    /\ UNCHANGED <<owner, polled, seen, storeVars, histVars>>

--------------------------------------------------------------------------
\* The handler.

\* The handler returns: an error leaves the batch unclean, and the next record
\* follows all the same.
Return(w, clean) ==
    worker' = [worker EXCEPT ![w] = [Idle EXCEPT !.pc = "next", !.batch = worker[w].batch,
                                                 !.clean = worker[w].clean /\ clean]]

Err(w) ==
    /\ Fails
    /\ Return(w, FALSE)
    /\ errored' = errored \cup {worker[w].record}

\* FirstNovelty: the first position the filter does not hold.
FirstNovelty(g) ==
    LET new == {i \in DOMAIN Line[g] : Line[g][i] \notin seen}
    IN  IF new = {} THEN None ELSE Line[g][Min(new)]

Asked(w, novelty) ==
    worker' = [worker EXCEPT ![w].pc = "record", ![w].novelty = novelty,
                             ![w].known = saved \ unfiled]

\* Analyze gives every position to the engine, whose evaluations concern
\* nobody else, and attachNovelty asks the filter.  An engine that fails, or a
\* line that is not one, fails the game; a filter that fails knows everything.
Ask(w) ==
    /\ worker[w].pc = "analyze"
    /\ \/ Err(w)
       \/ Asked(w, FirstNovelty(Game(worker[w].record))) /\ UNCHANGED <<failed, errored>>
       \/ Fails /\ Asked(w, None) /\ UNCHANGED errored
    /\ UNCHANGED <<brokerVars, seen, storeVars, dropped, known, unfiled>>

\* Mutant: only the novelty is recorded.
RecordNovelty(w) ==
    /\ worker[w].pc = "record"
    /\ Goto(w, "save")
    /\ seen' = seen \cup {worker[w].novelty}
    /\ UNCHANGED <<brokerVars, storeVars, failed, histVars>>

\* attachNovelty then records the positions; a failure is only logged.
Record(w) ==
    LET g == Game(worker[w].record) IN
    /\ worker[w].pc = "record"
    /\ Goto(w, "save")
    /\ \/ /\ seen' = seen \cup {Line[g][i] : i \in DOMAIN Line[g]}
          /\ UNCHANGED <<failed, unfiled>>
       \/ /\ Fails
          /\ unfiled' = unfiled \cup {g}
          /\ UNCHANGED seen
    /\ UNCHANGED <<brokerVars, storeVars, errored, dropped, known>>

\* SaveAnalysis replaces the game's report in one transaction.  Archive and
\* announcement follow; their failures change nothing.
Save(w) ==
    LET g == Game(worker[w].record) IN
    /\ worker[w].pc = "save"
    /\ \/ /\ saved' = saved \cup {g}
          /\ report' = [report EXCEPT ![g] = worker[w].novelty]
          /\ known' = [known EXCEPT ![g] = worker[w].known]
          /\ Return(w, TRUE)
          /\ UNCHANGED <<failed, errored>>
       \/ Err(w) /\ UNCHANGED <<storeVars, known>>
    /\ UNCHANGED <<brokerVars, seen, dropped, unfiled>>

--------------------------------------------------------------------------
\* The group.

\* A partition moves to v, which starts from the commit.  The old owner goes on
\* with what it has in hand, but commits this partition no more.
Rebalance(p, v) ==
    /\ owner[p] # v
    /\ Fails
    /\ owner' = [owner EXCEPT ![p] = v]
    /\ polled' = [polled EXCEPT ![p] = committed[p]]
    /\ UNCHANGED <<committed, worker, seen, storeVars, histVars>>

\* Mutant: what a dead worker had in hand is not read again.
CrashAndGoOn(w) ==
    /\ worker[w] # Idle
    /\ Fails
    /\ worker' = [worker EXCEPT ![w] = Idle]
    /\ UNCHANGED <<brokerVars, seen, storeVars, histVars>>

\* A worker dies and comes back; its partitions are read from the commit again.
Crash(w) ==
    /\ worker[w] # Idle
    /\ Fails
    /\ worker' = [worker EXCEPT ![w] = Idle]
    /\ polled' = [p \in Partitions |-> IF p \in Owned(w) THEN committed[p] ELSE polled[p]]
    /\ UNCHANGED <<owner, committed, seen, storeVars, histVars>>

Init ==
    /\ owner \in [Partitions -> Workers]
    /\ committed = [p \in Partitions |-> 0]
    /\ polled = [p \in Partitions |-> 0]
    /\ worker = [w \in Workers |-> Idle]
    /\ seen = {}
    /\ report = [g \in Games |-> None]
    /\ saved = {}
    /\ failed = 0
    /\ errored = {}
    /\ dropped = {}
    /\ known = [g \in Games |-> {}]
    /\ unfiled = {}

Work(w) ==
    \/ Poll(w) \/ NextRecord(w) \/ Commit(w)
    \/ Ask(w) \/ Record(w) \/ Save(w)

Next ==
    \/ \E w \in Workers : Work(w) \/ Crash(w)
    \/ \E p \in Partitions, v \in Workers : Rebalance(p, v)

Spec == Init /\ [][Next]_vars

\* Workers run.
FairSpec == Spec /\ \A w \in Workers : WF_vars(Work(w))

--------------------------------------------------------------------------

\* A committed request has its report, unless a handling of it failed or its
\* fetch was thrown away: neither the death of a worker, nor a partition moving
\* under one, nor a commit that fails loses a game.
LostOnlyByFailure ==
    \A r \in Offsets : r[2] <= committed[r[1]] =>
        Game(r) \in saved \cup Garbled \/ r \in errored \cup dropped

\* What a report calls a novelty was in no other game that had its report when
\* the filter was asked, unless that game's positions could not be recorded,
\* however many workers ask, record and analyse again at once.
NoveltyIsFirst ==
    \A g \in saved : report[g] # None =>
        \A h \in known[g] \ {g} : \A i \in DOMAIN Line[h] : Line[h][i] # report[g]

\* Every request ends with a report or with a failure of its own.
EveryRequestSettled ==
    \A r \in Offsets : <>(Game(r) \in saved \cup Garbled \/ r \in errored \cup dropped)
=============================================================================
