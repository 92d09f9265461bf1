---------------------------- MODULE AnalysisProofs ----------------------------
(***************************************************************************)
(* Proofs about the analysis of finished games, for every number of        *)
(* workers, partitions, records and failures: no request is lost without a *)
(* failure of its own, and a novelty was in no earlier report.             *)
(***************************************************************************)
EXTENDS Analysis, WellFoundedInduction, TLAPS

-----------------------------------------------------------------------------
(* The inductive invariants. *)

Busy == {"analyze", "record", "save"}

WorkerStates ==
    [pc : {"poll", "next"} \cup Busy, batch : SUBSET Offsets, clean : BOOLEAN,
     record : Offsets \cup {<<>>}, novelty : Positions \cup {None}, known : SUBSET Games]

TypeOK ==
    /\ owner \in [Partitions -> Workers]
    /\ committed \in [Partitions -> Nat]
    /\ polled \in [Partitions -> Nat]
    /\ worker \in [Workers -> WorkerStates]
    /\ report \in [Games -> Positions \cup {None}]
    /\ known \in [Games -> SUBSET Games]
    /\ saved \subseteq Games

\* A worker that polls has nothing in hand; one that handles a record has one, and
\* one that parses.
InHandOK ==
    \A w \in Workers :
        /\ worker[w].pc = "poll" => worker[w].batch = {}
        /\ worker[w].pc \in Busy =>
               worker[w].record \in Offsets /\ Game(worker[w].record) \notin Garbled

\* What became of a record, and who has it in hand.
Settled(r) == Game(r) \in saved \cup Garbled \/ r \in errored \cup dropped
InHand(w, r) == r \in worker[w].batch \/ (worker[w].pc \in Busy /\ worker[w].record = r)

\* A commit is never ahead of what was polled, and every record that was polled
\* since its partition last moved is settled or in the hands of the owner.
PolledInv ==
    /\ \A p \in Partitions : committed[p] <= polled[p]
    /\ \A r \in Offsets : r[2] <= polled[r[1]] => Settled(r) \/ InHand(owner[r[1]], r)

OffsetsInv == TypeOK /\ InHandOK /\ PolledInv /\ LostOnlyByFailure

Through(g) == {Line[g][i] : i \in DOMAIN Line[g]}

\* The filter holds every game with a report but the ones it failed to record,
\* and a worker about to save has recorded its game or has failed to.
FilterInv ==
    /\ \A g \in saved \ unfiled : Through(g) \subseteq seen
    /\ \A w \in Workers : worker[w].pc = "save" =>
           LET g == Game(worker[w].record) IN g \in unfiled \/ Through(g) \subseteq seen

\* The novelty a worker has in hand is in no game that was reported when it asked.
AskedInv ==
    \A w \in Workers : worker[w].pc \in {"record", "save"} /\ worker[w].novelty # None =>
        \A h \in worker[w].known : worker[w].novelty \notin Through(h)

NoveltyInv == FilterInv /\ AskedInv /\ NoveltyIsFirst

-----------------------------------------------------------------------------
(* Lemmas. *)

\* A record is a game of a partition.
LEMMA OffsetShape ==
    ASSUME NEW r \in Offsets
    PROVE  /\ r[1] \in Partitions /\ r[2] \in DOMAIN Log[r[1]] /\ r[2] \in Nat
           /\ Game(r) \in Games
  <1>1. PICK p \in Partitions : \E i \in DOMAIN Log[p] : r = <<p, i>>
    BY DEF Offsets
  <1>2. PICK i \in DOMAIN Log[p] : r = <<p, i>>
    BY <1>1
  <1>3. Log[p] \in Seq(Games)
    BY AnalysisAssumption
  <1>4. r[1] = p /\ r[2] = i /\ i \in Nat
    BY <1>2, <1>3
  <1>5. Game(r) = Log[p][i]
    BY <1>4 DEF Game
  <1> QED
    BY <1>2, <1>3, <1>4, <1>5

\* A set of naturals that is not empty has its minimum.
LEMMA MinIsMember ==
    ASSUME NEW S \in SUBSET Nat, S # {}
    PROVE  Min(S) \in S
  <1> DEFINE R == {ss \in Nat \X Nat : ss[1] < ss[2]}
  <1>1. IsWellFoundedOn(R, Nat)
    BY NatLessThanWellFounded DEF OpToRel
  <1> HIDE DEF R
  <1>2. PICK x \in S : \A y \in S : ~(<<y, x>> \in R)
    BY <1>1, WFMin
  <1>3. ASSUME NEW y \in S PROVE x <= y
    <2>1. x \in Nat /\ y \in Nat
      OBVIOUS
    <2>2. y < x => <<y, x>> \in R
      BY <2>1 DEF R
    <2> QED
      BY <1>2, <2>1, <2>2
  <1> QED
    BY <1>2, <1>3 DEF Min

\* The novelty is a position of the game that the filter does not hold.
LEMMA NoveltyIsNew ==
    ASSUME NEW g \in Games \ Garbled
    PROVE  /\ FirstNovelty(g) \in Positions \cup {None}
           /\ FirstNovelty(g) # None => FirstNovelty(g) \notin seen
  <1> DEFINE new == {i \in DOMAIN Line[g] : Line[g][i] \notin seen}
  <1>1. Line[g] \in Seq(Positions) /\ new \in SUBSET Nat
    BY AnalysisAssumption
  <1>2. CASE new = {}
    BY <1>2 DEF FirstNovelty
  <1>3. CASE new # {}
    <2>1. PICK m \in new : m = Min(new)
      BY <1>1, <1>3, MinIsMember
    <2>2. FirstNovelty(g) = Line[g][m]
      BY <1>3, <2>1 DEF FirstNovelty
    <2>3. Line[g][m] \in Positions /\ Line[g][m] \notin seen
      BY <1>1
    <2> QED
      BY <2>2, <2>3
  <1> QED
    BY <1>2, <1>3

LEMMA IdleType == Idle \in WorkerStates
  BY DEF Idle, WorkerStates

\* What the actions do to the worker that takes them, field by field.
LEMMA WorkerUpdates ==
    ASSUME TypeOK, NEW w \in Workers, NEW v \in WorkerStates, worker' = [worker EXCEPT ![w] = v]
    PROVE  /\ worker' \in [Workers -> WorkerStates]
           /\ worker'[w] = v /\ \A x \in Workers : x # w => worker'[x] = worker[x]
  BY DEF TypeOK

LEMMA TakenState ==
    ASSUME TypeOK, NEW w \in Workers, NEW r \in worker[w].batch,
           worker' = [worker EXCEPT ![w].batch = @ \ {r}, ![w].record = r, ![w].pc = "analyze"]
    PROVE  \E v \in WorkerStates :
             /\ worker' = [worker EXCEPT ![w] = v]
             /\ v.batch = worker[w].batch \ {r} /\ v.record = r /\ v.pc = "analyze"
             /\ r \in Offsets
  <1> DEFINE v == [worker[w] EXCEPT !.batch = @ \ {r}, !.record = r, !.pc = "analyze"]
  <1>1. worker[w] \in WorkerStates /\ r \in Offsets
    BY DEF TypeOK, WorkerStates
  <1>2. v \in WorkerStates /\ v.batch = worker[w].batch \ {r} /\ v.record = r /\ v.pc = "analyze"
    BY <1>1 DEF WorkerStates, Busy
  <1>3. worker' = [worker EXCEPT ![w] = v]
    BY DEF TypeOK
  <1> QED
    BY <1>1, <1>2, <1>3

LEMMA SkippedState ==
    ASSUME TypeOK, NEW w \in Workers, NEW r, worker' = [worker EXCEPT ![w].batch = @ \ {r}]
    PROVE  \E v \in WorkerStates :
             /\ worker' = [worker EXCEPT ![w] = v]
             /\ v.batch = worker[w].batch \ {r} /\ v.record = worker[w].record /\ v.pc = worker[w].pc
  <1> DEFINE v == [worker[w] EXCEPT !.batch = @ \ {r}]
  <1>1. worker[w] \in WorkerStates
    BY DEF TypeOK
  <1>2. v \in WorkerStates /\ v.batch = worker[w].batch \ {r} /\ v.record = worker[w].record /\ v.pc = worker[w].pc
    BY <1>1 DEF WorkerStates, Busy
  <1>3. worker' = [worker EXCEPT ![w] = v]
    BY DEF TypeOK
  <1> QED
    BY <1>2, <1>3

LEMMA ReturnState ==
    ASSUME TypeOK, NEW w \in Workers, NEW b \in BOOLEAN, Return(w, b)
    PROVE  \E v \in WorkerStates :
             /\ worker' = [worker EXCEPT ![w] = v]
             /\ v.batch = worker[w].batch /\ v.pc = "next"
  <1> DEFINE v == [Idle EXCEPT !.pc = "next", !.batch = worker[w].batch,
                               !.clean = worker[w].clean /\ b]
  <1>1. worker[w] \in WorkerStates
    BY DEF TypeOK
  <1>2. v \in WorkerStates /\ v.batch = worker[w].batch /\ v.pc = "next"
    BY <1>1, IdleType DEF WorkerStates, Idle
  <1>3. worker' = [worker EXCEPT ![w] = v]
    BY DEF Return
  <1> QED
    BY <1>2, <1>3

LEMMA AskedState ==
    ASSUME TypeOK, NEW w \in Workers, NEW n \in Positions \cup {None}, Asked(w, n)
    PROVE  \E v \in WorkerStates :
             /\ worker' = [worker EXCEPT ![w] = v]
             /\ v.batch = worker[w].batch /\ v.record = worker[w].record /\ v.pc = "record"
             /\ v.novelty = n /\ v.known = saved \ unfiled
  <1> DEFINE v == [worker[w] EXCEPT !.pc = "record", !.novelty = n, !.known = saved \ unfiled]
  <1>1. worker[w] \in WorkerStates /\ saved \ unfiled \subseteq Games
    BY DEF TypeOK
  <1>2. /\ v \in WorkerStates /\ v.batch = worker[w].batch /\ v.record = worker[w].record
        /\ v.pc = "record" /\ v.novelty = n /\ v.known = saved \ unfiled
    BY <1>1 DEF WorkerStates, Busy
  <1>3. worker' = [worker EXCEPT ![w] = v]
    BY DEF TypeOK, Asked
  <1> QED
    BY <1>2, <1>3

LEMMA GotoState ==
    ASSUME TypeOK, NEW w \in Workers, Goto(w, "save")
    PROVE  \E v \in WorkerStates :
             /\ worker' = [worker EXCEPT ![w] = v]
             /\ v.batch = worker[w].batch /\ v.record = worker[w].record /\ v.pc = "save"
             /\ v.novelty = worker[w].novelty /\ v.known = worker[w].known
  <1> DEFINE v == [worker[w] EXCEPT !.pc = "save"]
  <1>1. worker[w] \in WorkerStates
    BY DEF TypeOK
  <1>2. /\ v \in WorkerStates /\ v.batch = worker[w].batch /\ v.record = worker[w].record
        /\ v.pc = "save" /\ v.novelty = worker[w].novelty /\ v.known = worker[w].known
    BY <1>1 DEF WorkerStates, Busy
  <1>3. worker' = [worker EXCEPT ![w] = v]
    BY DEF TypeOK, Goto
  <1> QED
    BY <1>2, <1>3

-----------------------------------------------------------------------------
(* No request is lost. *)

LEMMA OffsetsInit == Init => OffsetsInv
  <1> SUFFICES ASSUME Init PROVE OffsetsInv
    OBVIOUS
  <1>1. TypeOK
    BY IdleType DEF Init, TypeOK
  <1>2. InHandOK
    BY DEF Init, InHandOK, Idle, Busy
  <1>3. \A r \in Offsets : ~(r[2] <= 0)
    <2> SUFFICES ASSUME NEW r \in Offsets PROVE ~(r[2] <= 0)
      OBVIOUS
    <2>1. Log[r[1]] \in Seq(Games) /\ r[2] \in DOMAIN Log[r[1]]
      BY OffsetShape, AnalysisAssumption
    <2> QED
      BY <2>1
  <1>4. PolledInv /\ LostOnlyByFailure
    BY <1>3, OffsetShape DEF Init, PolledInv, LostOnlyByFailure
  <1> QED
    BY <1>1, <1>2, <1>4 DEF OffsetsInv

\* A worker does something with what it has in hand and lets go of nothing that
\* is not settled.
LEMMA HandStep ==
    ASSUME OffsetsInv, NEW w \in Workers, NEW v \in WorkerStates,
           worker' = [worker EXCEPT ![w] = v], UNCHANGED brokerVars,
           saved \subseteq saved', errored \subseteq errored', dropped \subseteq dropped',
           v.pc = "poll" => v.batch = {},
           v.pc \in Busy => v.record \in Offsets /\ Game(v.record) \notin Garbled,
           \A r \in Offsets : InHand(w, r) =>
               \/ Game(r) \in saved' \cup Garbled \/ r \in errored' \cup dropped'
               \/ r \in v.batch \/ (v.pc \in Busy /\ v.record = r)
    PROVE  InHandOK' /\ PolledInv' /\ LostOnlyByFailure'
  <1>1. TypeOK /\ InHandOK /\ PolledInv /\ LostOnlyByFailure
    BY DEF OffsetsInv
  <1>2. worker'[w] = v /\ \A x \in Workers : x # w => worker'[x] = worker[x]
    BY <1>1, WorkerUpdates
  <1>3. InHandOK'
    BY <1>1, <1>2 DEF InHandOK
  <1>4. LostOnlyByFailure'
    BY <1>1 DEF LostOnlyByFailure, brokerVars
  <1>5. ASSUME NEW r \in Offsets, r[2] <= polled[r[1]]
        PROVE  Settled(r)' \/ InHand(owner[r[1]], r)'
    <2>1. r[1] \in Partitions /\ owner[r[1]] \in Workers
      BY <1>1, OffsetShape DEF TypeOK
    <2>2. Settled(r) \/ InHand(owner[r[1]], r)
      BY <1>1, <1>5 DEF PolledInv
    <2>3. CASE Settled(r)
      BY <2>3 DEF Settled
    <2>4. CASE InHand(owner[r[1]], r) /\ owner[r[1]] # w
      BY <1>2, <2>1, <2>4 DEF InHand, brokerVars
    <2>5. CASE InHand(w, r) /\ owner[r[1]] = w
      BY <1>2, <2>5 DEF InHand, Settled, brokerVars
    <2> QED
      BY <2>2, <2>3, <2>4, <2>5
  <1>6. PolledInv'
    BY <1>1, <1>5 DEF PolledInv, brokerVars
  <1> QED
    BY <1>3, <1>4, <1>6

\* A partition is read from its commit again: what was committed is settled.
LEMMA RewindStep ==
    ASSUME OffsetsInv, owner' \in [Partitions -> Workers], UNCHANGED <<committed, saved, errored, dropped>>,
           \A p \in Partitions :
               \/ polled'[p] = committed[p]
               \/ /\ polled'[p] = polled[p] /\ owner'[p] = owner[p]
                  /\ worker'[owner[p]] = worker[owner[p]]
    PROVE  PolledInv' /\ LostOnlyByFailure'
  <1>1. TypeOK /\ InHandOK /\ PolledInv /\ LostOnlyByFailure
    BY DEF OffsetsInv
  <1>2. LostOnlyByFailure'
    BY <1>1 DEF LostOnlyByFailure
  <1>3. ASSUME NEW r \in Offsets, r[2] <= polled'[r[1]]
        PROVE  Settled(r)' \/ InHand(owner[r[1]], r)'
    <2>1. r[1] \in Partitions
      BY OffsetShape
    <2>2. Settled(r) => Settled(r)'
      BY DEF Settled
    <2>3. CASE polled'[r[1]] = committed[r[1]]
      BY <1>1, <1>3, <2>2, <2>3 DEF LostOnlyByFailure, Settled
    <2>4. CASE /\ polled'[r[1]] = polled[r[1]] /\ owner'[r[1]] = owner[r[1]]
               /\ worker'[owner[r[1]]] = worker[owner[r[1]]]
      BY <1>1, <1>3, <2>2, <2>4 DEF PolledInv, InHand
    <2> QED
      BY <2>1, <2>3, <2>4
  <1>4. \A p \in Partitions : committed'[p] <= polled'[p]
    BY <1>1 DEF PolledInv, TypeOK
  <1> QED
    BY <1>2, <1>3, <1>4 DEF PolledInv

LEMMA OffsetsStep ==
    ASSUME OffsetsInv, [Next]_vars
    PROVE  OffsetsInv'
  <1>0. TypeOK /\ InHandOK /\ PolledInv /\ LostOnlyByFailure
    BY DEF OffsetsInv
  <1>1. ASSUME NEW w \in Workers, NextRecord(w) PROVE OffsetsInv'
    <2>1. PICK r \in worker[w].batch :
            IF Game(r) \in Garbled
            THEN worker' = [worker EXCEPT ![w].batch = @ \ {r}]
            ELSE worker' = [worker EXCEPT ![w].batch = @ \ {r}, ![w].record = r,
                                          ![w].pc = "analyze"]
      BY <1>1 DEF NextRecord
    <2>2. /\ worker[w].pc = "next"
          /\ UNCHANGED <<brokerVars, owner, committed, polled, saved, report, known, errored, dropped>>
      BY <1>1 DEF NextRecord, brokerVars, storeVars, histVars
    <2>3. CASE Game(r) \in Garbled
      <3>1. PICK v \in WorkerStates :
               /\ worker' = [worker EXCEPT ![w] = v]
               /\ v.batch = worker[w].batch \ {r} /\ v.record = worker[w].record
               /\ v.pc = worker[w].pc
        BY <1>0, <2>1, <2>3, SkippedState
      <3>2. InHandOK' /\ PolledInv' /\ LostOnlyByFailure'
        BY <2>2, <2>3, <3>1, HandStep DEF InHand, Busy
      <3>3. TypeOK'
        BY <1>0, <2>2, <3>1, WorkerUpdates DEF TypeOK
      <3> QED
        BY <3>2, <3>3 DEF OffsetsInv
    <2>4. CASE Game(r) \notin Garbled
      <3>1. PICK v \in WorkerStates :
               /\ worker' = [worker EXCEPT ![w] = v]
               /\ v.batch = worker[w].batch \ {r} /\ v.record = r /\ v.pc = "analyze"
               /\ r \in Offsets
        BY <1>0, <2>1, <2>4, TakenState
      <3>2. InHandOK' /\ PolledInv' /\ LostOnlyByFailure'
        BY <2>2, <2>4, <3>1, HandStep DEF InHand, Busy
      <3>3. TypeOK'
        BY <1>0, <2>2, <3>1, WorkerUpdates DEF TypeOK
      <3> QED
        BY <3>2, <3>3 DEF OffsetsInv
    <2> QED
      BY <2>3, <2>4
  <1>2. ASSUME NEW w \in Workers, Poll(w) PROVE OffsetsInv'
    <2>1. PICK upto \in [Owned(w) -> 0 .. Longest] :
            /\ \A p \in Owned(w) : upto[p] \in polled[p] .. Len(Log[p])
            /\ polled' = [p \in Partitions |-> IF p \in Owned(w) THEN upto[p] ELSE polled[p]]
            /\ \/ /\ worker' = [worker EXCEPT ![w] = [Idle EXCEPT !.pc = "next",
                                                              !.batch = Fetched(w, upto)]]
                  /\ UNCHANGED <<failed, dropped>>
               \/ /\ dropped' = dropped \cup Fetched(w, upto)
                  /\ UNCHANGED worker
      BY <1>2 DEF Poll
    <2>2. /\ worker[w].pc = "poll" /\ worker[w].batch = {}
          /\ UNCHANGED <<owner, committed, saved, report, errored, known>>
      BY <1>0, <1>2 DEF Poll, storeVars, InHandOK
    <2>3. \A p \in Partitions : polled'[p] \in Nat /\ polled[p] <= polled'[p]
      <3>1. ASSUME NEW p \in Owned(w) PROVE upto[p] \in Nat /\ polled[p] <= upto[p]
        <4>1. polled[p] \in Nat /\ Len(Log[p]) \in Nat /\ upto[p] \in polled[p] .. Len(Log[p])
          BY <1>0, <2>1, AnalysisAssumption DEF Owned, TypeOK
        <4> QED
          BY <4>1
      <3> QED
        BY <1>0, <2>1, <3>1 DEF TypeOK
    <2>4. Fetched(w, upto) \subseteq Offsets
      BY DEF Fetched
    <2>5. ASSUME NEW r \in Offsets, r[2] <= polled'[r[1]], ~(r[2] <= polled[r[1]])
          PROVE  r \in Fetched(w, upto) /\ owner[r[1]] = w
      <3>1. r[1] \in Partitions /\ r[2] \in Nat /\ polled[r[1]] \in Nat
        BY <1>0, OffsetShape DEF TypeOK
      <3>2. r[1] \in Owned(w) /\ r[2] <= upto[r[1]]
        BY <2>1, <2>5, <3>1
      <3> QED
        BY <2>5, <3>1, <3>2 DEF Fetched, Owned
    <2>6. ASSUME NEW r \in Offsets, r[2] <= polled[r[1]] PROVE Settled(r) \/ (owner[r[1]] # w /\ InHand(owner[r[1]], r))
      BY <1>0, <2>2, <2>6 DEF PolledInv, InHand, Busy
    <2>7. CASE worker' = [worker EXCEPT ![w] = [Idle EXCEPT !.pc = "next", !.batch = Fetched(w, upto)]] /\ UNCHANGED dropped
      <3> DEFINE v == [Idle EXCEPT !.pc = "next", !.batch = Fetched(w, upto)]
      <3>1. v \in WorkerStates /\ v.pc = "next" /\ v.batch = Fetched(w, upto)
        BY <2>4 DEF WorkerStates, Idle
      <3> HIDE DEF v
      <3>2. /\ worker' \in [Workers -> WorkerStates]
            /\ worker'[w] = v /\ \A x \in Workers : x # w => worker'[x] = worker[x]
        BY <1>0, <2>7, <3>1, WorkerUpdates DEF v
      <3>3. InHandOK' /\ LostOnlyByFailure'
        BY <1>0, <2>2, <2>7, <3>1, <3>2 DEF InHandOK, LostOnlyByFailure, Busy
      <3>4. ASSUME NEW r \in Offsets, r[2] <= polled'[r[1]]
            PROVE  Settled(r)' \/ InHand(owner[r[1]], r)'
        <4>1. r[1] \in Partitions /\ owner[r[1]] \in Workers
          BY <1>0, OffsetShape DEF TypeOK
        <4>2. CASE r[2] <= polled[r[1]]
          BY <2>2, <2>6, <2>7, <3>2, <4>1, <4>2 DEF Settled, InHand
        <4>3. CASE ~(r[2] <= polled[r[1]])
          BY <2>2, <2>5, <3>1, <3>2, <3>4, <4>3 DEF InHand
        <4> QED
          BY <4>2, <4>3
      <3>5. \A p \in Partitions : committed'[p] <= polled'[p]
        BY <1>0, <2>2, <2>3 DEF PolledInv, TypeOK
      <3>6. PolledInv'
        BY <3>4, <3>5 DEF PolledInv
      <3>7. TypeOK'
        BY <1>0, <2>1, <2>2, <2>3, <3>2 DEF TypeOK
      <3> QED
        BY <3>3, <3>6, <3>7 DEF OffsetsInv
    <2>8. CASE dropped' = dropped \cup Fetched(w, upto) /\ UNCHANGED worker
      <3>1. InHandOK' /\ LostOnlyByFailure'
        BY <1>0, <2>2, <2>8 DEF InHandOK, LostOnlyByFailure
      <3>2. ASSUME NEW r \in Offsets, r[2] <= polled'[r[1]]
            PROVE  Settled(r)' \/ InHand(owner[r[1]], r)'
        BY <2>2, <2>5, <2>6, <2>8, <3>2 DEF Settled, InHand
      <3>3. \A p \in Partitions : committed'[p] <= polled'[p]
        BY <1>0, <2>2, <2>3 DEF PolledInv, TypeOK
      <3>4. TypeOK'
        BY <1>0, <2>1, <2>2, <2>3, <2>8 DEF TypeOK
      <3> QED
        BY <3>1, <3>2, <3>3, <3>4 DEF OffsetsInv, PolledInv
    <2> QED
      BY <2>1, <2>7, <2>8
  <1>3. ASSUME NEW w \in Workers, Commit(w) PROVE OffsetsInv'
    <2>1. /\ worker[w].pc = "next" /\ worker[w].batch = {} /\ worker' = [worker EXCEPT ![w] = Idle]
          /\ UNCHANGED <<owner, polled, saved, report, known, errored, dropped>>
          /\ CommitPolled(w) \/ UNCHANGED committed
      BY <1>3 DEF Commit, storeVars, histVars
    <2>2. Idle.pc = "poll" /\ Idle.batch = {} /\ Idle \in WorkerStates
      BY IdleType DEF Idle
    <2>3. \A r \in Offsets : ~InHand(w, r)
      BY <2>1 DEF InHand, Busy
    <2>4. worker' \in [Workers -> WorkerStates]
      BY <1>0, <2>1, <2>2, WorkerUpdates
    <2>5. CASE UNCHANGED committed
      <3>1. InHandOK' /\ PolledInv' /\ LostOnlyByFailure'
        BY <2>1, <2>2, <2>3, <2>5, HandStep DEF brokerVars, Busy
      <3>2. TypeOK'
        BY <1>0, <2>1, <2>4, <2>5 DEF TypeOK
      <3> QED
        BY <3>1, <3>2 DEF OffsetsInv
    <2>6. CASE CommitPolled(w)
      <3>1. /\ worker'[w] = Idle /\ \A x \in Workers : x # w => worker'[x] = worker[x]
        BY <1>0, <2>1, <2>2, WorkerUpdates
      <3>2. InHandOK'
        BY <1>0, <2>2, <3>1 DEF InHandOK, Busy
      <3>3. \A p \in Partitions : committed'[p] = IF owner[p] = w THEN polled[p] ELSE committed[p]
        BY <2>6 DEF CommitPolled, Owned
      <3>4. ASSUME NEW r \in Offsets, r[2] <= polled[r[1]], owner[r[1]] = w PROVE Settled(r)
        BY <1>0, <2>3, <3>4 DEF PolledInv
      <3>5. \A r \in Offsets : Settled(r) => Settled(r)'
        BY <2>1 DEF Settled
      <3>6. LostOnlyByFailure'
        <4>1. ASSUME NEW r \in Offsets, r[2] <= committed'[r[1]] PROVE Settled(r)'
          <5>1. r[1] \in Partitions
            BY OffsetShape
          <5> QED
            BY <1>0, <3>3, <3>4, <3>5, <4>1, <5>1 DEF LostOnlyByFailure, Settled
        <4> QED
          BY <4>1 DEF LostOnlyByFailure, Settled
      <3>7. PolledInv'
        <4>1. \A p \in Partitions : committed'[p] <= polled'[p]
          BY <1>0, <2>1, <3>3 DEF PolledInv, TypeOK
        <4>2. ASSUME NEW r \in Offsets, r[2] <= polled'[r[1]]
              PROVE  Settled(r)' \/ InHand(owner[r[1]], r)'
          <5>1. r[1] \in Partitions /\ owner[r[1]] \in Workers
            BY <1>0, OffsetShape DEF TypeOK
          <5>2. CASE owner[r[1]] = w
            BY <2>1, <3>4, <3>5, <4>2, <5>2
          <5>3. CASE owner[r[1]] # w
            BY <1>0, <2>1, <3>1, <3>5, <4>2, <5>1, <5>3 DEF PolledInv, InHand
          <5> QED
            BY <5>2, <5>3
        <4> QED
          BY <4>1, <4>2 DEF PolledInv
      <3>8. TypeOK'
        BY <1>0, <2>1, <2>4, <2>6 DEF TypeOK, CommitPolled
      <3> QED
        BY <3>2, <3>6, <3>7, <3>8 DEF OffsetsInv
    <2> QED
      BY <2>1, <2>5, <2>6
  <1>4. ASSUME NEW w \in Workers, worker[w].pc \in Busy, Return(w, FALSE),
               errored' = errored \cup {worker[w].record},
               UNCHANGED <<owner, committed, polled, saved, report, known, dropped>>
        PROVE  OffsetsInv'
    <2>1. PICK v \in WorkerStates :
             /\ worker' = [worker EXCEPT ![w] = v]
             /\ v.batch = worker[w].batch /\ v.pc = "next"
      BY <1>0, <1>4, ReturnState
    <2>2. InHandOK' /\ PolledInv' /\ LostOnlyByFailure'
      BY <1>4, <2>1, HandStep DEF InHand, Busy, brokerVars
    <2>3. TypeOK'
      BY <1>0, <1>4, <2>1, WorkerUpdates DEF TypeOK
    <2> QED
      BY <2>2, <2>3 DEF OffsetsInv
  <1>5. ASSUME NEW w \in Workers, Ask(w) PROVE OffsetsInv'
    <2>1. /\ worker[w].pc = "analyze" /\ worker[w].pc \in Busy
          /\ UNCHANGED <<owner, committed, polled, saved, report, known, dropped>>
      BY <1>5 DEF Ask, brokerVars, storeVars, Busy
    <2>2. CASE Err(w)
      BY <1>4, <2>1, <2>2 DEF Err
    <2>3. ASSUME NEW n \in Positions \cup {None}, Asked(w, n), UNCHANGED errored PROVE OffsetsInv'
      <3>1. PICK v \in WorkerStates :
             /\ worker' = [worker EXCEPT ![w] = v]
             /\ v.batch = worker[w].batch /\ v.record = worker[w].record /\ v.pc = "record"
        BY <1>0, <2>3, AskedState
      <3>2. InHandOK' /\ PolledInv' /\ LostOnlyByFailure'
        BY <1>0, <2>1, <2>3, <3>1, HandStep DEF InHand, InHandOK, Busy, brokerVars
      <3>3. TypeOK'
        BY <1>0, <2>1, <3>1, WorkerUpdates DEF TypeOK
      <3> QED
        BY <3>2, <3>3 DEF OffsetsInv
    <2>4. FirstNovelty(Game(worker[w].record)) \in Positions \cup {None}
      BY <1>0, <2>1, OffsetShape, NoveltyIsNew DEF InHandOK
    <2> QED
      BY <1>5, <2>2, <2>3, <2>4 DEF Ask
  <1>6. ASSUME NEW w \in Workers, Record(w) PROVE OffsetsInv'
    <2>1. /\ worker[w].pc = "record" /\ Goto(w, "save")
          /\ UNCHANGED <<owner, committed, polled, saved, report, known, errored, dropped>>
      BY <1>6 DEF Record, brokerVars, storeVars
    <2>2. PICK v \in WorkerStates :
             /\ worker' = [worker EXCEPT ![w] = v]
             /\ v.batch = worker[w].batch /\ v.record = worker[w].record /\ v.pc = "save"
      BY <1>0, <2>1, GotoState
    <2>3. InHandOK' /\ PolledInv' /\ LostOnlyByFailure'
      BY <1>0, <2>1, <2>2, HandStep DEF InHand, InHandOK, Busy, brokerVars
    <2>4. TypeOK'
      BY <1>0, <2>1, <2>2, WorkerUpdates DEF TypeOK
    <2> QED
      BY <2>3, <2>4 DEF OffsetsInv
  <1>7. ASSUME NEW w \in Workers, Save(w) PROVE OffsetsInv'
    <2> DEFINE g == Game(worker[w].record)
    <2>1. /\ worker[w].pc = "save" /\ worker[w].pc \in Busy
          /\ UNCHANGED <<owner, committed, polled, dropped>>
      BY <1>7 DEF Save, brokerVars, Busy
    <2>2. CASE Err(w) /\ UNCHANGED <<storeVars, known>>
      BY <1>4, <2>1, <2>2 DEF Err, storeVars
    <2>3. CASE /\ saved' = saved \cup {g}
               /\ report' = [report EXCEPT ![g] = worker[w].novelty]
               /\ known' = [known EXCEPT ![g] = worker[w].known]
               /\ Return(w, TRUE) /\ UNCHANGED errored
      <3>1. PICK v \in WorkerStates :
               /\ worker' = [worker EXCEPT ![w] = v]
               /\ v.batch = worker[w].batch /\ v.pc = "next"
        BY <1>0, <2>3, ReturnState
      <3>2. InHandOK' /\ PolledInv' /\ LostOnlyByFailure'
        BY <2>1, <2>3, <3>1, HandStep DEF InHand, Busy, brokerVars
      <3>3. /\ g \in Games /\ worker[w].novelty \in Positions \cup {None}
            /\ worker[w].known \subseteq Games
        BY <1>0, <2>1, OffsetShape DEF InHandOK, TypeOK, WorkerStates
      <3>4. worker' \in [Workers -> WorkerStates]
        BY <1>0, <3>1, WorkerUpdates
      <3> HIDE DEF g
      <3>5. TypeOK'
        BY <1>0, <2>1, <2>3, <3>3, <3>4 DEF TypeOK
      <3> QED
        BY <3>2, <3>5 DEF OffsetsInv
    <2> QED
      BY <1>7, <2>2, <2>3 DEF Save
  <1>8. ASSUME NEW w \in Workers, Crash(w) PROVE OffsetsInv'
    <2>1. /\ worker' = [worker EXCEPT ![w] = Idle]
          /\ polled' = [p \in Partitions |-> IF p \in Owned(w) THEN committed[p] ELSE polled[p]]
          /\ UNCHANGED <<owner, committed, saved, report, known, errored, dropped>>
      BY <1>8 DEF Crash, storeVars, histVars
    <2>2. /\ worker' \in [Workers -> WorkerStates]
          /\ worker'[w] = Idle /\ \A x \in Workers : x # w => worker'[x] = worker[x]
      BY <1>0, <2>1, IdleType, WorkerUpdates
    <2>3. InHandOK'
      BY <1>0, <2>2 DEF InHandOK, Idle, Busy
    <2>4. ASSUME NEW p \in Partitions
          PROVE  \/ polled'[p] = committed[p]
                 \/ /\ polled'[p] = polled[p] /\ owner'[p] = owner[p]
                    /\ worker'[owner[p]] = worker[owner[p]]
      <3>1. owner[p] \in Workers
        BY <1>0 DEF TypeOK
      <3> QED
        BY <2>1, <2>2, <3>1 DEF Owned
    <2>5. PolledInv' /\ LostOnlyByFailure'
      BY <1>0, <2>1, <2>4, RewindStep DEF TypeOK
    <2>6. TypeOK'
      BY <1>0, <2>1, <2>2 DEF TypeOK
    <2> QED
      BY <2>3, <2>5, <2>6 DEF OffsetsInv
  <1>9. ASSUME NEW q \in Partitions, NEW v \in Workers, Rebalance(q, v) PROVE OffsetsInv'
    <2>1. /\ owner' = [owner EXCEPT ![q] = v] /\ polled' = [polled EXCEPT ![q] = committed[q]]
          /\ UNCHANGED <<committed, worker, saved, report, known, errored, dropped>>
      BY <1>9 DEF Rebalance, storeVars, histVars
    <2>2. TypeOK' /\ InHandOK'
      BY <1>0, <2>1 DEF TypeOK, InHandOK
    <2>3. \A p \in Partitions :
                 \/ polled'[p] = committed[p]
                 \/ /\ polled'[p] = polled[p] /\ owner'[p] = owner[p]
                    /\ worker'[owner[p]] = worker[owner[p]]
      BY <1>0, <2>1 DEF TypeOK
    <2>4. PolledInv' /\ LostOnlyByFailure'
      BY <2>1, <2>2, <2>3, RewindStep DEF TypeOK
    <2> QED
      BY <2>2, <2>4 DEF OffsetsInv
  <1>10. CASE UNCHANGED vars
    BY <1>0, <1>10 DEF OffsetsInv, TypeOK, InHandOK, PolledInv, Settled, InHand, LostOnlyByFailure,
       vars, brokerVars, storeVars, histVars
  <1> QED
    BY <1>1, <1>2, <1>3, <1>5, <1>6, <1>7, <1>8, <1>9, <1>10 DEF Next, Work

-----------------------------------------------------------------------------
(* A novelty is new. *)

LEMMA NoveltyInit == Init => NoveltyInv
  BY DEF Init, NoveltyInv, FilterInv, AskedInv, NoveltyIsFirst, Idle

\* A worker that asks, records or saves nothing disturbs nobody's novelty.
LEMMA NoveltyKept ==
    ASSUME NoveltyInv, TypeOK, UNCHANGED <<seen, saved, report, known, unfiled>>,
           \A x \in Workers : worker'[x] = worker[x] \/ worker'[x].pc \notin {"record", "save"}
    PROVE  NoveltyInv'
  BY DEF NoveltyInv, FilterInv, AskedInv, NoveltyIsFirst, Through

LEMMA NoveltyStep ==
    ASSUME OffsetsInv, NoveltyInv, [Next]_vars
    PROVE  NoveltyInv'
  <1>0. TypeOK /\ InHandOK /\ FilterInv /\ AskedInv /\ NoveltyIsFirst
    BY DEF OffsetsInv, NoveltyInv
  <1>1. ASSUME NEW w \in Workers, NEW v \in WorkerStates, worker' = [worker EXCEPT ![w] = v],
               v.pc \notin {"record", "save"}, UNCHANGED <<seen, saved, report, known, unfiled>>
        PROVE  NoveltyInv'
    BY <1>0, <1>1, WorkerUpdates, NoveltyKept
  <1>2. ASSUME NEW w \in Workers, NextRecord(w) PROVE NoveltyInv'
    <2>1. worker[w].pc = "next" /\ UNCHANGED <<seen, saved, report, known, unfiled>>
      BY <1>2 DEF NextRecord, storeVars, histVars
    <2>2. PICK r \in worker[w].batch :
            \/ worker' = [worker EXCEPT ![w].batch = @ \ {r}]
            \/ worker' = [worker EXCEPT ![w].batch = @ \ {r}, ![w].record = r, ![w].pc = "analyze"]
      BY <1>2 DEF NextRecord
    <2>3. \E v \in WorkerStates : worker' = [worker EXCEPT ![w] = v] /\ v.pc \notin {"record", "save"}
      <3>1. CASE worker' = [worker EXCEPT ![w].batch = @ \ {r}]
        BY <1>0, <2>1, <3>1, SkippedState
      <3>2. CASE worker' = [worker EXCEPT ![w].batch = @ \ {r}, ![w].record = r, ![w].pc = "analyze"]
        BY <1>0, <3>2, TakenState
      <3> QED
        BY <2>2, <3>1, <3>2
    <2> QED
      BY <1>1, <2>1, <2>3
  <1>3. ASSUME NEW w \in Workers, Poll(w) PROVE NoveltyInv'
    <2>1. UNCHANGED <<seen, saved, report, known, unfiled>>
      BY <1>3 DEF Poll, storeVars
    <2>2. CASE UNCHANGED worker
      BY <1>0, <2>1, <2>2, NoveltyKept
    <2>3. CASE \E b : worker' = [worker EXCEPT ![w] = [Idle EXCEPT !.pc = "next", !.batch = b]]
      <3>1. \A b : [Idle EXCEPT !.pc = "next", !.batch = b].pc = "next"
        BY DEF Idle
      <3>2. \A x \in Workers : worker'[x] = worker[x] \/ worker'[x].pc = "next"
        BY <1>0, <2>3, <3>1 DEF TypeOK
      <3> QED
        BY <1>0, <2>1, <3>2, NoveltyKept
    <2> QED
      BY <1>3, <2>2, <2>3 DEF Poll
  <1>4. ASSUME NEW w \in Workers, Commit(w) \/ Crash(w) PROVE NoveltyInv'
    <2>1. UNCHANGED <<seen, saved, report, known, unfiled>> /\ worker' = [worker EXCEPT ![w] = Idle]
      BY <1>4 DEF Commit, Crash, storeVars, histVars
    <2> QED
      BY <1>1, <2>1, IdleType DEF Idle
  <1>5. ASSUME NEW w \in Workers, NEW b \in BOOLEAN, Return(w, b),
               UNCHANGED <<seen, saved, report, known, unfiled>>
        PROVE  NoveltyInv'
    BY <1>0, <1>1, <1>5, ReturnState
  <1>6. ASSUME NEW w \in Workers, Ask(w) PROVE NoveltyInv'
    <2>1. worker[w].pc = "analyze" /\ UNCHANGED <<seen, saved, report, known, unfiled>>
      BY <1>6 DEF Ask, storeVars
    <2>2. CASE Err(w)
      BY <1>5, <2>1, <2>2 DEF Err
    <2>3. ASSUME NEW n \in Positions \cup {None}, Asked(w, n), n # None => n \notin seen
          PROVE  NoveltyInv'
      <3>1. PICK v \in WorkerStates :
             /\ worker' = [worker EXCEPT ![w] = v]
             /\ v.pc = "record" /\ v.novelty = n /\ v.known = saved \ unfiled
        BY <1>0, <2>3, AskedState
      <3>2. worker'[w] = v /\ \A x \in Workers : x # w => worker'[x] = worker[x]
        BY <1>0, <3>1, WorkerUpdates
      <3>3. FilterInv'
        <4>1. \A g \in saved' \ unfiled' : Through(g) \subseteq seen'
          BY <1>0, <2>1 DEF FilterInv
        <4>2. ASSUME NEW x \in Workers, worker'[x].pc = "save"
              PROVE  LET g == Game(worker'[x].record)
                     IN  g \in unfiled' \/ Through(g) \subseteq seen'
          <5>1. worker'[x] = worker[x]
            BY <3>1, <3>2, <4>2
          <5> QED
            BY <1>0, <2>1, <4>2, <5>1 DEF FilterInv
        <4> QED
          BY <4>1, <4>2 DEF FilterInv, Through
      <3>4. n # None => \A h \in v.known : n \notin Through(h)
        BY <1>0, <2>3, <3>1 DEF FilterInv
      <3>5. AskedInv'
        BY <1>0, <3>1, <3>2, <3>4 DEF AskedInv, Through
      <3>6. NoveltyIsFirst'
        BY <1>0, <2>1 DEF NoveltyIsFirst
      <3> QED
        BY <3>3, <3>5, <3>6 DEF NoveltyInv
    <2>4. /\ FirstNovelty(Game(worker[w].record)) \in Positions \cup {None}
          /\ FirstNovelty(Game(worker[w].record)) # None => FirstNovelty(Game(worker[w].record)) \notin seen
      BY <1>0, <2>1, OffsetShape, NoveltyIsNew DEF InHandOK, Busy
    <2> QED
      BY <1>6, <2>2, <2>3, <2>4 DEF Ask
  <1>7. ASSUME NEW w \in Workers, Record(w) PROVE NoveltyInv'
    <2> DEFINE g == Game(worker[w].record)
    <2>1. /\ worker[w].pc = "record" /\ Goto(w, "save") /\ UNCHANGED <<saved, report, known>>
          /\ \/ seen' = seen \cup Through(g) /\ UNCHANGED unfiled
             \/ unfiled' = unfiled \cup {g} /\ UNCHANGED seen
      BY <1>7 DEF Record, storeVars, Through
    <2> HIDE DEF g
    <2>2. PICK v \in WorkerStates :
             /\ worker' = [worker EXCEPT ![w] = v]
             /\ v.record = worker[w].record /\ v.pc = "save"
             /\ v.novelty = worker[w].novelty /\ v.known = worker[w].known
      BY <1>0, <2>1, GotoState
    <2>3. worker'[w] = v /\ \A x \in Workers : x # w => worker'[x] = worker[x]
      BY <1>0, <2>2, WorkerUpdates
    <2>4. seen \subseteq seen' /\ unfiled \subseteq unfiled' /\ (g \in unfiled' \/ Through(g) \subseteq seen')
      BY <2>1
    <2>5. FilterInv'
      BY <1>0, <2>1, <2>2, <2>3, <2>4 DEF FilterInv, Through, g
    <2>6. AskedInv'
      BY <1>0, <2>1, <2>2, <2>3 DEF AskedInv, Through
    <2>7. NoveltyIsFirst'
      BY <1>0, <2>1 DEF NoveltyIsFirst
    <2> QED
      BY <2>5, <2>6, <2>7 DEF NoveltyInv
  <1>8. ASSUME NEW w \in Workers, Save(w) PROVE NoveltyInv'
    <2> DEFINE g == Game(worker[w].record)
    <2>1. worker[w].pc = "save" /\ UNCHANGED <<seen, unfiled>>
      BY <1>8 DEF Save
    <2>2. CASE Err(w) /\ UNCHANGED <<storeVars, known>>
      BY <1>5, <2>1, <2>2 DEF Err, storeVars
    <2>3. CASE /\ saved' = saved \cup {g}
               /\ report' = [report EXCEPT ![g] = worker[w].novelty]
               /\ known' = [known EXCEPT ![g] = worker[w].known]
               /\ Return(w, TRUE)
      <3>1. PICK v \in WorkerStates : worker' = [worker EXCEPT ![w] = v] /\ v.pc = "next"
        BY <1>0, <2>3, ReturnState
      <3>2. worker'[w] = v /\ \A x \in Workers : x # w => worker'[x] = worker[x]
        BY <1>0, <3>1, WorkerUpdates
      <3>3. g \in unfiled \/ Through(g) \subseteq seen
        BY <1>0, <2>1 DEF FilterInv
      <3>4. g \in Games
        BY <1>0, <2>1, OffsetShape DEF InHandOK, Busy
      <3>5. worker[w].novelty # None => \A h \in worker[w].known : worker[w].novelty \notin Through(h)
        BY <1>0, <2>1 DEF AskedInv
      <3> HIDE DEF g
      <3>6. FilterInv'
        <4>1. \A k \in saved' \ unfiled' : Through(k) \subseteq seen'
          BY <1>0, <2>1, <2>3, <3>3 DEF FilterInv
        <4>2. ASSUME NEW x \in Workers, worker'[x].pc = "save"
              PROVE  Game(worker'[x].record) \in unfiled' \/ Through(Game(worker'[x].record)) \subseteq seen'
          BY <1>0, <2>1, <3>1, <3>2, <4>2 DEF FilterInv
        <4> QED
          BY <4>1, <4>2 DEF FilterInv
      <3>7. AskedInv'
        BY <1>0, <3>1, <3>2 DEF AskedInv, Through
      <3>8. NoveltyIsFirst'
        <4>1. ASSUME NEW k \in saved', report'[k] # None, NEW h \in known'[k] \ {k},
                     NEW i \in DOMAIN Line[h]
              PROVE  Line[h][i] # report'[k]
          <5>1. CASE k = g
            <6>1. report'[k] = worker[w].novelty /\ known'[k] = worker[w].known
              BY <1>0, <2>3, <3>4, <5>1 DEF TypeOK
            <6> QED
              BY <3>5, <4>1, <6>1 DEF Through
          <5>2. CASE k # g
            <6>1. report'[k] = report[k] /\ known'[k] = known[k] /\ k \in saved
              BY <1>0, <2>3, <5>2 DEF TypeOK
            <6> QED
              BY <1>0, <4>1, <6>1 DEF NoveltyIsFirst
          <5> QED
            BY <5>1, <5>2
        <4> QED
          BY <4>1 DEF NoveltyIsFirst
      <3> QED
        BY <3>6, <3>7, <3>8 DEF NoveltyInv
    <2> QED
      BY <1>8, <2>2, <2>3 DEF Save
  <1>9. CASE (\E p \in Partitions, v \in Workers : Rebalance(p, v)) \/ UNCHANGED vars
    <2>1. UNCHANGED <<worker, seen, saved, report, known, unfiled>>
      BY <1>9 DEF Rebalance, vars, storeVars, histVars
    <2> QED
      BY <1>0, <2>1, NoveltyKept
  <1> QED
    BY <1>2, <1>3, <1>4, <1>6, <1>7, <1>8, <1>9 DEF Next, Work

-----------------------------------------------------------------------------
(* The theorems. *)

\* Both invariants hold throughout, in every instance.
THEOREM AnalysisInductive == Spec => [](OffsetsInv /\ NoveltyInv)
  <1>1. Init => OffsetsInv /\ NoveltyInv
    BY OffsetsInit, NoveltyInit
  <1>2. OffsetsInv /\ NoveltyInv /\ [Next]_vars => (OffsetsInv /\ NoveltyInv)'
    BY OffsetsStep, NoveltyStep
  <1> QED
    BY <1>1, <1>2, PTL DEF Spec

\* A committed request has its report or a failure of its own, whichever workers
\* die, partitions move or commits fail (Consumer.Run of pkg/kafkax).
THEOREM NothingLost == Spec => []LostOnlyByFailure
  <1>1. OffsetsInv /\ NoveltyInv => LostOnlyByFailure
    BY DEF OffsetsInv
  <1> QED
    BY <1>1, AnalysisInductive, PTL

\* What a report calls a novelty was in no other report the filter knew of when it
\* was asked (attachNovelty of the analysis worker).
THEOREM NoveltiesAreFirst == Spec => []NoveltyIsFirst
  <1>1. OffsetsInv /\ NoveltyInv => NoveltyIsFirst
    BY DEF NoveltyInv
  <1> QED
    BY <1>1, AnalysisInductive, PTL

=============================================================================
