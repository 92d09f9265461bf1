-------------------------------- MODULE Relay --------------------------------
(***************************************************************************)
(* The transactional outbox of one game on its way to the game's event     *)
(* stream: pkg/store/outbox.go, pkg/eventlog/relay.go and stream.go.       *)
(* Every game-service replica runs a relay (game-service main.go).         *)
(*                                                                         *)
(* The outbox rows of a game have their plies' order (GameService), so a   *)
(* row is named by its ply.  Rows of other games share a relay's batch but *)
(* no stream, and are left out.                                            *)
(***************************************************************************)
EXTENDS Integers, Sequences, FiniteSets

CONSTANTS
    Relays,     \* the game-service replicas
    Batch,      \* rows fetched in one cycle
    \* Bounds of an instance:
    MaxRows,    \* moves of the game
    MaxFailed   \* failed or lost statements and lost processes

ASSUME RelayAssumption ==
    /\ IsFiniteSet(Relays)
    /\ Batch \in Nat \ {0}
    /\ MaxRows \in Nat /\ MaxFailed \in Nat

VARIABLES
    rows,       \* the rows of move_outbox are 1..rows
    published,  \* those with a published_at
    stream,     \* the Redis stream game:{id}:events
    relay,      \* where each relay's cycle is, and its rows to do and done
    failed

relayVars == <<rows, published, stream, relay, failed>>

InStream == {stream[i] : i \in DOMAIN stream}

Unpublished == (1..rows) \ published
Resting == [at |-> "idle", todo |-> {}, done |-> {}]

\* store.AppendMove commits a move and its row.
Write ==
    /\ rows < MaxRows
    /\ rows' = rows + 1
    /\ UNCHANGED <<published, stream, relay, failed>>

\* ORDER BY id LIMIT batch.
Fetched == {i \in Unpublished : Cardinality({j \in Unpublished : j < i}) < Batch}

FetchUnpublished(r) ==
    /\ relay[r].at = "idle"
    /\ Unpublished # {}
    /\ relay' = [relay EXCEPT ![r] = [at |-> "append", todo |-> Fetched, done |-> {}]]
    /\ UNCHANGED <<rows, published, stream, failed>>

\* Mutant: a row that cannot be appended is skipped, not the end of the cycle.
AppendOrSkip(r) ==
    /\ relay[r].at = "append"
    /\ \E row \in relay[r].todo :
         LET rest == relay[r].todo \ {row}
             next == [relay[r] EXCEPT !.todo = rest,
                                      !.at = IF rest = {} THEN "mark" ELSE "append"]
         IN  /\ \A other \in relay[r].todo : row <= other
             /\ \/ /\ stream' = Append(stream, row)
                   /\ relay' = [relay EXCEPT ![r] = [next EXCEPT !.done = @ \cup {row}]]
                   /\ UNCHANGED failed
                \/ /\ failed < MaxFailed /\ failed' = failed + 1
                   /\ relay' = [relay EXCEPT ![r] = next]
                   /\ UNCHANGED stream
    /\ UNCHANGED <<rows, published>>

\* The loop of drainOnce appends the oldest row of the batch, or stops at an
\* error; an append that fails for the relay may have been made.
AppendNext(r) ==
    /\ relay[r].at = "append"
    /\ \E row \in relay[r].todo :
         LET rest == relay[r].todo \ {row}
         IN  /\ \A other \in relay[r].todo : row <= other
             /\ \/ /\ stream' = Append(stream, row)
                   /\ relay' = [relay EXCEPT ![r].todo = rest,
                                             ![r].done = @ \cup {row},
                                             ![r].at = IF rest = {} THEN "mark" ELSE "append"]
                   /\ UNCHANGED failed
                \/ /\ failed < MaxFailed /\ failed' = failed + 1
                   /\ relay' = [relay EXCEPT ![r].at = "mark"]
                   /\ stream' \in {stream, Append(stream, row)}
    /\ UNCHANGED <<rows, published>>

\* Mutant: the whole batch is marked, appended or not.
MarkBatch(r) ==
    /\ relay[r].at = "mark"
    /\ published' = published \cup relay[r].done \cup relay[r].todo
    /\ relay' = [relay EXCEPT ![r] = Resting]
    /\ UNCHANGED <<rows, stream, failed>>

\* Mutant: only the first row of the batch is marked.
MarkFirst(r) ==
    /\ relay[r].at = "mark"
    /\ published' = published \cup {i \in relay[r].done : \A j \in relay[r].done : i <= j}
    /\ relay' = [relay EXCEPT ![r] = Resting]
    /\ UNCHANGED <<rows, stream, failed>>

MarkPublished(r) ==
    /\ relay[r].at = "mark"
    /\ \/ published' = published \cup relay[r].done /\ UNCHANGED failed
       \/ failed < MaxFailed /\ failed' = failed + 1 /\ UNCHANGED published
    /\ relay' = [relay EXCEPT ![r] = Resting]
    /\ UNCHANGED <<rows, stream>>

\* The process dies and is started again.
RelayCrash(r) ==
    /\ relay[r].at # "idle"
    /\ failed < MaxFailed /\ failed' = failed + 1
    /\ relay' = [relay EXCEPT ![r] = Resting]
    /\ UNCHANGED <<rows, published, stream>>

RelayInit ==
    /\ rows = 0
    /\ published = {}
    /\ stream = <<>>
    /\ relay = [r \in Relays |-> Resting]
    /\ failed = 0

RelayNext ==
    \/ Write
    \/ \E r \in Relays :
         FetchUnpublished(r) \/ AppendNext(r) \/ MarkPublished(r) \/ RelayCrash(r)

RelaySpec == RelayInit /\ [][RelayNext]_relayVars

\* A relay's loop goes on for ever; players owe nobody a move.
RelayFairness ==
    \A r \in Relays :
        /\ WF_relayVars(FetchUnpublished(r))
        /\ WF_relayVars(AppendNext(r))
        /\ WF_relayVars(MarkPublished(r))

RelayFairSpec == RelaySpec /\ RelayFairness

-----------------------------------------------------------------------------
(* What the relay promises. *)

RelayTypeOK ==
    /\ rows \in Nat
    /\ published \subseteq 1..rows
    /\ stream \in Seq(Nat \ {0})
    /\ InStream \subseteq 1..rows
    /\ relay \in [Relays -> [at : {"idle", "append", "mark"},
                             todo : SUBSET (1..rows), done : SUBSET (1..rows)]]
    /\ failed \in Nat

\* No event overtakes an earlier one: before the first entry of a move, the stream
\* holds every move before it, though relays overlap, die and retry ("Rows are
\* published in id order", relay.go:76).
StreamInOrder ==
    \A i \in DOMAIN stream : \A ply \in 1..(stream[i] - 1) :
        \E j \in 1..(i - 1) : stream[j] = ply

\* A row is marked published only once its event is in the stream: nothing a crash
\* or a failed append interrupts is lost (drainOnce marks "the rows it did publish",
\* relay.go:77).
MarkedIsInStream == published \subseteq InStream

\* A spectator may be sent a move twice, nothing downstream removes the copy, but
\* what repeats it is bounded: one copy for each replica that relays it, and one
\* more for each failure.  No cycle, however late its mark, starts another.
RepeatsBounded ==
    \A ply \in InStream :
        Cardinality({i \in DOMAIN stream : stream[i] = ply}) <= Cardinality(Relays) + failed

\* Every committed move reaches the stream, whatever fails on the way ("the
\* unpublished remainder is retried next cycle", relay.go:78).
EveryRowStreamed == \A ply \in 1..MaxRows : rows >= ply ~> ply \in InStream
=============================================================================
