---------------------------- MODULE DeliveryProofs ----------------------------
(***************************************************************************)
(* From the outbox to the pages.  The relays deliver every game's moves in *)
(* order and mark nothing that is not delivered; a spectator misses none   *)
(* of them; and the live board shows the game as it is stored once all is  *)
(* quiet.  For any number of relays, fanout replicas, viewers, games and   *)
(* requests, any size of batches and buffers, and any number of failures   *)
(* and lost connections.                                                   *)
(***************************************************************************)
EXTENDS Fanout, LiveBoard, FiniteSetTheorems, TLAPS

-----------------------------------------------------------------------------
(* The inductive invariant. *)

\* What a relay believes it has appended is in the stream.
DoneInStream == \A r \in Relays : relay[r].done \subseteq InStream

\* A relay still has, or the stream already holds, everything before what it is
\* about to append: its batch had no hole that was not yet published.
NoHole ==
    \A r \in Relays : relay[r].at = "append" =>
        \A row \in relay[r].todo : \A ply \in 1..(row - 1) :
            ply \in relay[r].todo \/ ply \in InStream

RelayInv ==
    /\ RelayTypeOK
    /\ StreamInOrder
    /\ MarkedIsInStream
    /\ DoneInStream
    /\ NoHole

-----------------------------------------------------------------------------
(* The stream and the batch. *)

\* Appending an entry adds its move to the stream and keeps every position.
LEMMA AppendedStream ==
    ASSUME stream \in Seq(Nat \ {0}), NEW row \in Nat \ {0},
           stream' = Append(stream, row)
    PROVE  /\ stream' \in Seq(Nat \ {0})
           /\ DOMAIN stream = 1..Len(stream)
           /\ DOMAIN stream' = 1..(Len(stream) + 1)
           /\ \A i \in 1..Len(stream) : stream'[i] = stream[i]
           /\ stream'[Len(stream) + 1] = row
           /\ InStream' = InStream \cup {row}
<1>1. /\ stream' \in Seq(Nat \ {0})
      /\ DOMAIN stream = 1..Len(stream)
      /\ DOMAIN stream' = 1..(Len(stream) + 1)
      /\ \A i \in 1..Len(stream) : stream'[i] = stream[i]
      /\ stream'[Len(stream) + 1] = row
      /\ Len(stream) \in Nat
  OBVIOUS
<1>2. InStream' \subseteq InStream \cup {row}
  BY <1>1 DEF InStream
<1>3. InStream \cup {row} \subseteq InStream'
  BY <1>1 DEF InStream
<1> QED
  BY <1>1, <1>2, <1>3

\* A batch is a prefix of the unpublished rows: LIMIT drops only the newest.
LEMMA FetchedIsPrefix ==
    ASSUME rows \in Nat, NEW row \in Fetched, NEW ply \in Unpublished, ply < row
    PROVE  ply \in Fetched
<1> DEFINE Before(i) == {j \in Unpublished : j < i}
<1>1. Unpublished \subseteq 1..rows
  BY DEF Unpublished
<1>2. IsFiniteSet(1..rows)
  BY FS_Interval
<1>3. IsFiniteSet(Before(row))
  BY <1>1, <1>2, FS_Subset
<1>4. Before(ply) \subseteq Before(row)
  <2>1. row \in 1..rows /\ ply \in 1..rows
    BY <1>1 DEF Fetched
  <2>2. \A j \in Unpublished : j \in Int /\ (j < ply => j < row)
    BY <1>1, <2>1
  <2> QED
    BY <2>2
<1>5. /\ IsFiniteSet(Before(ply))
      /\ Cardinality(Before(ply)) <= Cardinality(Before(row))
  BY <1>3, <1>4, FS_Subset
<1>6. Cardinality(Before(row)) \in Nat /\ Cardinality(Before(ply)) \in Nat
  BY <1>3, <1>5, FS_CardinalityType
<1>7. Cardinality(Before(row)) < Batch
  BY DEF Fetched
<1>8. Cardinality(Before(ply)) < Batch
  BY <1>5, <1>6, <1>7, RelayAssumption
<1> QED
  BY <1>8 DEF Fetched

-----------------------------------------------------------------------------
(* Each action preserves the invariant. *)

LEMMA InitRelayInv == RelayInit => RelayInv
  BY DEF RelayInit, RelayInv, RelayTypeOK, StreamInOrder, MarkedIsInStream, DoneInStream,
         NoHole, InStream, Resting

LEMMA WriteRelayInv == RelayInv /\ Write => RelayInv'
<1> SUFFICES ASSUME RelayInv, Write PROVE RelayInv'
  OBVIOUS
<1> USE DEF RelayInv, Write
<1>1. rows' \in Nat /\ 1..rows \subseteq 1..rows'
  BY DEF RelayTypeOK
<1>2. RelayTypeOK'
  BY <1>1 DEF RelayTypeOK, InStream
<1>3. (StreamInOrder /\ MarkedIsInStream /\ DoneInStream /\ NoHole)'
  BY DEF StreamInOrder, MarkedIsInStream, DoneInStream, NoHole, InStream
<1> QED
  BY <1>2, <1>3

LEMMA FetchRelayInv ==
    ASSUME RelayInv, NEW r \in Relays, FetchUnpublished(r)
    PROVE  RelayInv'
<1> USE DEF RelayInv, FetchUnpublished
<1>1. Fetched \subseteq 1..rows
  BY DEF Fetched, Unpublished
<1>2. relay' = [relay EXCEPT ![r] = [at |-> "append", todo |-> Fetched, done |-> {}]]
  OBVIOUS
<1>3. RelayTypeOK'
  BY <1>1, <1>2 DEF RelayTypeOK, InStream
<1>4. (StreamInOrder /\ MarkedIsInStream)'
  BY DEF StreamInOrder, MarkedIsInStream, InStream
<1>5. DoneInStream'
  BY <1>2 DEF RelayTypeOK, DoneInStream, InStream
<1>6. NoHole'
  <2> SUFFICES ASSUME NEW s \in Relays, relay'[s].at = "append",
                      NEW row \in relay'[s].todo, NEW ply \in 1..(row - 1)
               PROVE  ply \in relay'[s].todo \/ ply \in InStream
    BY DEF NoHole, InStream
  <2>1. CASE s # r
    BY <2>1, <1>2 DEF RelayTypeOK, NoHole
  <2>2. CASE s = r
    <3>1. relay'[s].todo = Fetched
      BY <2>2, <1>2 DEF RelayTypeOK
    <3>2. row \in 1..rows /\ ply \in 1..rows /\ ply < row /\ rows \in Nat
      BY <3>1, <1>1 DEF RelayTypeOK
    <3>3. CASE ply \in published
      BY <3>3 DEF MarkedIsInStream
    <3>4. CASE ply \notin published
      <4>1. ply \in Unpublished
        BY <3>2, <3>4 DEF Unpublished
      <4> QED
        BY <4>1, <3>1, <3>2, FetchedIsPrefix
    <3> QED
      BY <3>3, <3>4
  <2> QED
    BY <2>1, <2>2
<1> QED
  BY <1>3, <1>4, <1>5, <1>6

\* An entry appended by relay r is the oldest of its batch, so by NoHole the
\* stream already holds everything before it.
LEMMA AppendStreamInv ==
    ASSUME RelayInv, NEW r \in Relays, relay[r].at = "append",
           NEW row \in relay[r].todo, \A other \in relay[r].todo : row <= other,
           stream' = Append(stream, row), rows' = rows
    PROVE  /\ stream' \in Seq(Nat \ {0})
           /\ StreamInOrder'
           /\ InStream' = InStream \cup {row}
           /\ row \in 1..rows
<1> USE DEF RelayInv
<1>1. row \in 1..rows /\ rows \in Nat /\ stream \in Seq(Nat \ {0})
  BY DEF RelayTypeOK
<1>2. /\ stream' \in Seq(Nat \ {0})
      /\ DOMAIN stream = 1..Len(stream)
      /\ DOMAIN stream' = 1..(Len(stream) + 1)
      /\ \A i \in 1..Len(stream) : stream'[i] = stream[i]
      /\ stream'[Len(stream) + 1] = row
      /\ InStream' = InStream \cup {row}
      /\ Len(stream) \in Nat
  BY <1>1, AppendedStream
<1>3. ASSUME NEW i \in DOMAIN stream', NEW ply \in 1..(stream'[i] - 1)
      PROVE  \E j \in 1..(i - 1) : stream'[j] = ply
  <2>1. CASE i \in 1..Len(stream)
    <3>1. ply \in 1..(stream[i] - 1)
      BY <2>1, <1>2
    <3>2. PICK j \in 1..(i - 1) : stream[j] = ply
      BY <3>1, <2>1, <1>2 DEF StreamInOrder
    <3>3. j \in 1..Len(stream)
      BY <2>1, <1>2
    <3> QED
      BY <3>2, <3>3, <1>2
  <2>2. CASE i = Len(stream) + 1
    <3>1. ply \in 1..(row - 1)
      BY <2>2, <1>2
    <3>2. ply \notin relay[r].todo
      BY <3>1, <1>1 DEF RelayTypeOK
    <3>3. ply \in InStream
      BY <3>1, <3>2 DEF NoHole
    <3>4. PICK j \in DOMAIN stream : stream[j] = ply
      BY <3>3 DEF InStream
    <3> QED
      BY <3>4, <2>2, <1>2
  <2> QED
    BY <2>1, <2>2, <1>2
<1> QED
  BY <1>1, <1>2, <1>3 DEF StreamInOrder

LEMMA AppendRelayInv ==
    ASSUME RelayInv, NEW r \in Relays, AppendNext(r)
    PROVE  RelayInv'
<1> USE DEF RelayInv
<1>1. PICK row \in relay[r].todo :
        /\ relay[r].at = "append"
        /\ \A other \in relay[r].todo : row <= other
        /\ \/ /\ stream' = Append(stream, row)
              /\ relay' = [relay EXCEPT ![r].todo = relay[r].todo \ {row},
                                        ![r].done = @ \cup {row},
                                        ![r].at = IF relay[r].todo \ {row} = {}
                                                  THEN "mark" ELSE "append"]
              /\ failed' = failed
           \/ /\ failed' = failed + 1
              /\ relay' = [relay EXCEPT ![r].at = "mark"]
              /\ stream' \in {stream, Append(stream, row)}
        /\ rows' = rows /\ published' = published
  BY DEF AppendNext
<1>2. /\ stream' \in Seq(Nat \ {0})
      /\ StreamInOrder'
      /\ InStream' \in {InStream, InStream \cup {row}}
      /\ row \in 1..rows
  <2>1. CASE stream' = Append(stream, row)
    BY <1>1, <2>1, AppendStreamInv
  <2>2. CASE stream' = stream
    BY <1>1, <2>2 DEF RelayTypeOK, StreamInOrder, InStream
  <2> QED
    BY <1>1, <2>1, <2>2
<1>3. InStream \subseteq InStream' /\ InStream' \subseteq 1..rows
  BY <1>2 DEF RelayTypeOK
<1>4. MarkedIsInStream'
  BY <1>1, <1>3 DEF MarkedIsInStream
<1>5. CASE /\ stream' = Append(stream, row)
           /\ relay' = [relay EXCEPT ![r].todo = relay[r].todo \ {row},
                                     ![r].done = @ \cup {row},
                                     ![r].at = IF relay[r].todo \ {row} = {}
                                               THEN "mark" ELSE "append"]
           /\ failed' = failed
  <2>1. row \in InStream'
    BY <1>1, <1>5, AppendStreamInv
  <2>2. /\ relay'[r].todo = relay[r].todo \ {row}
        /\ relay'[r].done = relay[r].done \cup {row}
        /\ \A s \in Relays \ {r} : relay'[s] = relay[s]
    BY <1>5 DEF RelayTypeOK
  <2>3. RelayTypeOK'
    <3>1. relay'[r] \in [at : {"idle", "append", "mark"},
                         todo : SUBSET (1..rows), done : SUBSET (1..rows)]
      BY <1>2, <1>5, ZenonT(30) DEF RelayTypeOK
    <3>2. relay' \in [Relays -> [at : {"idle", "append", "mark"},
                                 todo : SUBSET (1..rows), done : SUBSET (1..rows)]]
      BY <1>5, <2>2, <3>1 DEF RelayTypeOK
    <3> QED
      BY <1>1, <1>2, <1>3, <1>5, <3>2 DEF RelayTypeOK
  <2>4. DoneInStream'
    BY <1>3, <2>1, <2>2 DEF DoneInStream
  <2>5. NoHole'
    <3> SUFFICES ASSUME NEW s \in Relays, relay'[s].at = "append",
                        NEW t \in relay'[s].todo, NEW ply \in 1..(t - 1)
                 PROVE  ply \in relay'[s].todo \/ ply \in InStream'
      BY DEF NoHole
    <3>1. CASE s # r
      BY <3>1, <2>2, <1>3 DEF NoHole
    <3>2. CASE s = r
      BY <3>2, <2>1, <2>2, <1>1, <1>3 DEF NoHole
    <3> QED
      BY <3>1, <3>2
  <2> QED
    BY <1>2, <1>4, <2>3, <2>4, <2>5
<1>6. CASE failed' = failed + 1 /\ relay' = [relay EXCEPT ![r].at = "mark"]
  <2>1. /\ relay'[r].at = "mark"
        /\ \A s \in Relays \ {r} : relay'[s] = relay[s]
        /\ \A s \in Relays : relay'[s].done = relay[s].done
    BY <1>6 DEF RelayTypeOK
  <2>2. RelayTypeOK'
    <3>1. relay' \in [Relays -> [at : {"idle", "append", "mark"},
                                 todo : SUBSET (1..rows), done : SUBSET (1..rows)]]
      BY <1>6 DEF RelayTypeOK
    <3>2. rows' = rows /\ published' = published /\ failed' \in Nat
      BY <1>1, <1>6 DEF RelayTypeOK
    <3> QED
      BY <1>2, <1>3, <3>1, <3>2 DEF RelayTypeOK
  <2>3. DoneInStream'
    BY <1>3, <2>1 DEF DoneInStream
  <2>4. NoHole'
    BY <1>3, <2>1 DEF NoHole
  <2> QED
    BY <1>2, <1>4, <2>2, <2>3, <2>4
<1> QED
  BY <1>1, <1>5, <1>6

LEMMA MarkRelayInv ==
    ASSUME RelayInv, NEW r \in Relays, MarkPublished(r)
    PROVE  RelayInv'
<1> USE DEF RelayInv
<1>1. /\ relay' = [relay EXCEPT ![r] = Resting]
      /\ rows' = rows /\ stream' = stream
      /\ published' \in {published, published \cup relay[r].done}
      /\ failed' \in {failed, failed + 1}
  BY DEF MarkPublished
<1>2. RelayTypeOK'
  BY <1>1 DEF RelayTypeOK, Resting, InStream
<1>3. MarkedIsInStream'
  BY <1>1 DEF MarkedIsInStream, DoneInStream, InStream
<1>4. StreamInOrder'
  BY <1>1 DEF StreamInOrder
<1>5. DoneInStream' /\ NoHole'
  BY <1>1 DEF RelayTypeOK, DoneInStream, NoHole, InStream, Resting
<1> QED
  BY <1>2, <1>3, <1>4, <1>5

LEMMA CrashRelayInv ==
    ASSUME RelayInv, NEW r \in Relays, RelayCrash(r)
    PROVE  RelayInv'
<1> USE DEF RelayInv
<1>1. /\ relay' = [relay EXCEPT ![r] = Resting]
      /\ rows' = rows /\ stream' = stream /\ published' = published
      /\ failed' = failed + 1
  BY DEF RelayCrash
<1>2. RelayTypeOK'
  BY <1>1 DEF RelayTypeOK, Resting, InStream
<1>3. MarkedIsInStream' /\ StreamInOrder'
  BY <1>1 DEF MarkedIsInStream, StreamInOrder, InStream
<1>4. DoneInStream' /\ NoHole'
  BY <1>1 DEF RelayTypeOK, DoneInStream, NoHole, InStream, Resting
<1> QED
  BY <1>2, <1>3, <1>4

LEMMA RelayInvStep == RelayInv /\ [RelayNext]_relayVars => RelayInv'
<1> SUFFICES ASSUME RelayInv, [RelayNext]_relayVars PROVE RelayInv'
  OBVIOUS
<1>1. CASE Write
  BY <1>1, WriteRelayInv
<1>2. ASSUME NEW r \in Relays, FetchUnpublished(r) PROVE RelayInv'
  BY <1>2, FetchRelayInv
<1>3. ASSUME NEW r \in Relays, AppendNext(r) PROVE RelayInv'
  BY <1>3, AppendRelayInv
<1>4. ASSUME NEW r \in Relays, MarkPublished(r) PROVE RelayInv'
  BY <1>4, MarkRelayInv
<1>5. ASSUME NEW r \in Relays, RelayCrash(r) PROVE RelayInv'
  BY <1>5, CrashRelayInv
<1>6. CASE UNCHANGED relayVars
  BY <1>6 DEF relayVars, RelayInv, RelayTypeOK, StreamInOrder, MarkedIsInStream, DoneInStream,
              NoHole, InStream
<1> QED
  BY <1>1, <1>2, <1>3, <1>4, <1>5, <1>6 DEF RelayNext

-----------------------------------------------------------------------------
(* The theorems. *)

\* RelayInv holds in every reachable state.
THEOREM RelayInductive == RelaySpec => []RelayInv
  BY InitRelayInv, RelayInvStep, PTL DEF RelaySpec

\* The relays' state is well typed.
THEOREM RelayTypeCorrect == RelaySpec => []RelayTypeOK
<1>1. RelayInv => RelayTypeOK
  BY DEF RelayInv
<1> QED
  BY <1>1, RelayInductive, PTL

\* The stream tells a game's moves in order, first mention by first mention,
\* however many relays publish it.
THEOREM StreamIsInOrder == RelaySpec => []StreamInOrder
<1>1. RelayInv => StreamInOrder
  BY DEF RelayInv
<1> QED
  BY <1>1, RelayInductive, PTL

\* No row is marked published without being in the stream.
THEOREM MarkedWasStreamed == RelaySpec => []MarkedIsInStream
<1>1. RelayInv => MarkedIsInStream
  BY DEF RelayInv
<1> QED
  BY <1>1, RelayInductive, PTL

-----------------------------------------------------------------------------
(* How often a move is repeated. *)

\* The entries of a move, the relays that have appended it and not yet ended
\* their cycle, and the ones that are still to append it.
Entries(ply) == {i \in DOMAIN stream : stream[i] = ply}
Appended(ply) == {r \in Relays : ply \in relay[r].done}
Holding(ply) == {r \in Relays : relay[r].at = "append" /\ ply \in relay[r].todo}

\* A relay appends a row once in a cycle.
Apart ==
    \A r \in Relays : /\ relay[r].todo \cap relay[r].done = {}
                      /\ relay[r].at = "idle" => relay[r].done = {}

\* Until a move is marked, each of its entries belongs to a cycle that has not
\* ended or to a failure; once it is marked, only the relays that hold it add more.
Accounted(ply) ==
    IF ply \in published
    THEN Cardinality(Entries(ply)) + Cardinality(Holding(ply)) <= Cardinality(Relays) + failed
    ELSE Cardinality(Entries(ply)) <= Cardinality(Appended(ply)) + failed

RepeatInv ==
    /\ Apart
    /\ IsFiniteSet(DOMAIN stream)
    /\ \A ply \in Nat : Accounted(ply)

LEMMA RelaySets ==
    ASSUME NEW D \in SUBSET Relays, NEW H \in SUBSET Relays, D \cap H = {}
    PROVE  /\ IsFiniteSet(D) /\ IsFiniteSet(H)
           /\ Cardinality(D) \in Nat /\ Cardinality(H) \in Nat /\ Cardinality(Relays) \in Nat
           /\ Cardinality(D) + Cardinality(H) <= Cardinality(Relays)
<1>1. IsFiniteSet(Relays) /\ IsFiniteSet(D) /\ IsFiniteSet(H)
  BY RelayAssumption, FS_Subset
<1>2. Cardinality(D) \in Nat /\ Cardinality(H) \in Nat /\ Cardinality(Relays) \in Nat
  BY <1>1, FS_CardinalityType
<1>3. Cardinality(D \cup H) = Cardinality(D) + Cardinality(H) - Cardinality(D \cap H)
  BY <1>1, FS_Union
<1>4. Cardinality(D \cup H) <= Cardinality(Relays)
  <2>1. D \cup H \in SUBSET Relays
    OBVIOUS
  <2>2. QED
    BY <1>1, <2>1, FS_Subset
<1>5. Cardinality(D \cap H) = 0
  BY FS_EmptySet
<1>6. QED
  BY <1>1, <1>2, <1>3, <1>4, <1>5

\* A relay that ends its cycle takes one away at most.
LEMMA OneFewer ==
    ASSUME NEW D \in SUBSET Relays, NEW E \in SUBSET Relays, NEW r \in Relays, D \ {r} \subseteq E
    PROVE  Cardinality(D) <= Cardinality(E) + 1
<1>1. IsFiniteSet(D) /\ IsFiniteSet(E)
  BY RelayAssumption, FS_Subset
<1>2. Cardinality(D) \in Nat /\ Cardinality(E) \in Nat
  BY <1>1, FS_CardinalityType
<1>3. IsFiniteSet(E \cup {r}) /\ Cardinality(E \cup {r}) <= Cardinality(E) + 1
  <2>1. /\ IsFiniteSet(E \cup {r})
        /\ Cardinality(E \cup {r}) = IF r \in E THEN Cardinality(E) ELSE Cardinality(E) + 1
    BY <1>1, FS_AddElement
  <2>2. QED
    BY <1>2, <2>1
<1>4. D \subseteq E \cup {r} /\ Cardinality(D) <= Cardinality(E \cup {r})
  BY <1>3, FS_Subset
<1>5. Cardinality(E \cup {r}) \in Nat
  BY <1>3, FS_CardinalityType
<1>6. QED
  BY <1>2, <1>3, <1>4, <1>5

LEMMA EntriesCount ==
    ASSUME IsFiniteSet(DOMAIN stream), NEW ply
    PROVE  IsFiniteSet(Entries(ply)) /\ Cardinality(Entries(ply)) \in Nat
  BY FS_Subset, FS_CardinalityType DEF Entries

\* An entry is one more of its move and none of another.
LEMMA EntryAppended ==
    ASSUME stream \in Seq(Nat \ {0}), IsFiniteSet(DOMAIN stream), NEW row \in Nat \ {0},
           stream' = Append(stream, row)
    PROVE  /\ IsFiniteSet(DOMAIN stream')
           /\ \A ply \in Nat : Cardinality(Entries(ply)') =
                  Cardinality(Entries(ply)) + (IF ply = row THEN 1 ELSE 0)
<1>1. /\ DOMAIN stream = 1..Len(stream) /\ DOMAIN stream' = 1..(Len(stream) + 1)
      /\ \A i \in 1..Len(stream) : stream'[i] = stream[i]
      /\ stream'[Len(stream) + 1] = row /\ Len(stream) \in Nat
  BY AppendedStream
<1>2. IsFiniteSet(DOMAIN stream')
  BY <1>1, FS_Interval
<1>3. ASSUME NEW ply \in Nat
      PROVE  Cardinality(Entries(ply)') = Cardinality(Entries(ply)) + (IF ply = row THEN 1 ELSE 0)
  <2>1. IsFiniteSet(Entries(ply)) /\ Cardinality(Entries(ply)) \in Nat
    BY EntriesCount
  <2>2. CASE ply = row
    <3>1. Entries(ply)' = Entries(ply) \cup {Len(stream) + 1} /\ Len(stream) + 1 \notin Entries(ply)
      BY <1>1, <2>2 DEF Entries
    <3>2. QED
      BY <2>1, <2>2, <3>1, FS_AddElement
  <2>3. CASE ply # row
    <3>1. Entries(ply)' = Entries(ply)
      BY <1>1, <2>3 DEF Entries
    <3>2. QED
      BY <2>1, <2>3, <3>1
  <2>4. QED
    BY <2>2, <2>3
<1>4. QED
  BY <1>2, <1>3

LEMMA RelayCounts ==
    ASSUME Apart, NEW ply
    PROVE  /\ Appended(ply) \subseteq Relays /\ Holding(ply) \subseteq Relays
           /\ Cardinality(Appended(ply)) \in Nat /\ Cardinality(Holding(ply)) \in Nat
           /\ Cardinality(Relays) \in Nat
           /\ Cardinality(Appended(ply)) + Cardinality(Holding(ply)) <= Cardinality(Relays)
<1>1. /\ Appended(ply) \in SUBSET Relays /\ Holding(ply) \in SUBSET Relays
      /\ Appended(ply) \cap Holding(ply) = {}
  BY DEF Apart, Appended, Holding
<1>2. QED
  BY <1>1, RelaySets

\* The books balance after a step of relay r that adds no entry: it ends its cycle
\* with a failure, or leaves what it has appended to be marked.
LEMMA NothingAdded ==
    ASSUME RepeatInv, failed \in Nat, NEW ply \in Nat, NEW r \in Relays, Apart',
           Entries(ply)' = Entries(ply), ply \in published' <=> ply \in published,
           (ply \in published => Holding(ply)' \subseteq Holding(ply)),
           \/ failed' = failed /\ Appended(ply)' = Appended(ply)
           \/ failed' = failed + 1 /\ Appended(ply) \ {r} \subseteq Appended(ply)'
    PROVE  Accounted(ply)'
<1>1. Accounted(ply) /\ Cardinality(Entries(ply)) \in Nat
  BY EntriesCount DEF RepeatInv
<1>2. /\ Appended(ply) \in SUBSET Relays /\ Holding(ply) \in SUBSET Relays
      /\ Cardinality(Appended(ply)) \in Nat /\ Cardinality(Holding(ply)) \in Nat
      /\ Cardinality(Relays) \in Nat
  BY RelayCounts DEF RepeatInv
<1>3. PICK D \in SUBSET Relays : D = Appended(ply)'
  BY DEF Appended
<1>4. PICK H \in SUBSET Relays : H = Holding(ply)'
  BY DEF Holding
<1>5. Cardinality(D) \in Nat /\ Cardinality(H) \in Nat
  BY RelayAssumption, FS_Subset, FS_CardinalityType
<1>6. CASE ply \in published
  <2>1. Cardinality(H) <= Cardinality(Holding(ply))
    BY <1>2, <1>4, <1>6, RelayAssumption, FS_Subset
  <2>2. QED
    BY <1>1, <1>2, <1>4, <1>5, <1>6, <2>1 DEF Accounted
<1>7. CASE ply \notin published
  <2>1. \/ failed' = failed /\ D = Appended(ply)
        \/ failed' = failed + 1 /\ Cardinality(Appended(ply)) <= Cardinality(D) + 1
    BY <1>2, <1>3, OneFewer
  <2>2. QED
    BY <1>1, <1>2, <1>3, <1>5, <1>7, <2>1 DEF Accounted
<1>8. QED
  BY <1>6, <1>7

\* The books balance after relay r has added an entry and counts it as its own, or
\* has failed to hear of it.
LEMMA EntryAdded ==
    ASSUME RepeatInv, failed \in Nat, NEW ply \in Nat, NEW r \in Relays, Apart',
           Cardinality(Entries(ply)') = Cardinality(Entries(ply)) + 1,
           published' = published, r \in Holding(ply), Holding(ply)' \subseteq Holding(ply) \ {r},
           \/ failed' = failed /\ Appended(ply)' = Appended(ply) \cup {r} /\ r \notin Appended(ply)
           \/ failed' = failed + 1 /\ Appended(ply)' = Appended(ply)
    PROVE  Accounted(ply)'
<1>1. Accounted(ply) /\ Cardinality(Entries(ply)) \in Nat
  BY EntriesCount DEF RepeatInv
<1>2. /\ Appended(ply) \in SUBSET Relays /\ Holding(ply) \in SUBSET Relays
      /\ Cardinality(Appended(ply)) \in Nat /\ Cardinality(Holding(ply)) \in Nat
      /\ Cardinality(Relays) \in Nat
  BY RelayCounts DEF RepeatInv
<1>3. IsFiniteSet(Appended(ply)) /\ IsFiniteSet(Holding(ply))
  BY <1>2, RelayAssumption, FS_Subset
<1>4. CASE ply \in published
  <2>1. PICK H \in SUBSET Relays : H = Holding(ply)'
    BY DEF Holding
  <2>2. /\ IsFiniteSet(Holding(ply) \ {r})
        /\ Cardinality(Holding(ply) \ {r}) = Cardinality(Holding(ply)) - 1
    BY <1>3, FS_RemoveElement
  <2>3. Cardinality(H) <= Cardinality(Holding(ply)) - 1 /\ Cardinality(H) \in Nat
    BY <2>1, <2>2, RelayAssumption, FS_Subset, FS_CardinalityType
  <2>4. failed' = failed \/ failed' = failed + 1
    OBVIOUS
  <2>5. QED
    BY <1>1, <1>2, <1>4, <2>1, <2>3, <2>4 DEF Accounted
<1>5. CASE ply \notin published
  <2>1. \/ failed' = failed /\ Cardinality(Appended(ply)') = Cardinality(Appended(ply)) + 1
        \/ failed' = failed + 1 /\ Cardinality(Appended(ply)') = Cardinality(Appended(ply))
    <3>1. Cardinality(Appended(ply) \cup {r}) =
              IF r \in Appended(ply) THEN Cardinality(Appended(ply)) ELSE Cardinality(Appended(ply)) + 1
      BY <1>3, FS_AddElement
    <3>2. QED
      BY <3>1
  <2>2. QED
    BY <1>1, <1>2, <1>5, <2>1 DEF Accounted
<1>6. QED
  BY <1>4, <1>5

\* A relay that is at rest holds nothing and has appended nothing.
LEMMA RestingRelay ==
    ASSUME RelayTypeOK, Apart, NEW r \in Relays, relay' = [relay EXCEPT ![r] = Resting]
    PROVE  /\ Apart'
           /\ \A ply \in Nat : /\ Appended(ply)' = Appended(ply) \ {r}
                               /\ Holding(ply)' = Holding(ply) \ {r}
<1>1. /\ relay'[r].at = "idle" /\ relay'[r].todo = {} /\ relay'[r].done = {}
      /\ \A s \in Relays : s # r => relay'[s] = relay[s]
  BY DEF Resting, RelayTypeOK
<1>2. Apart'
  BY <1>1 DEF Apart
<1>3. \A ply \in Nat : Appended(ply)' = Appended(ply) \ {r} /\ Holding(ply)' = Holding(ply) \ {r}
  BY <1>1 DEF Appended, Holding
<1>4. QED
  BY <1>2, <1>3

LEMMA RepeatInit == RelayInit => RepeatInv
<1> HAVE RelayInit
<1>1. stream = <<>> /\ failed = 0 /\ published = {}
  BY DEF RelayInit
<1>2. \A r \in Relays : relay[r].todo = {} /\ relay[r].done = {} /\ relay[r].at = "idle"
  BY DEF RelayInit, Resting
<1>3. Apart /\ DOMAIN stream = {}
  BY <1>1, <1>2 DEF Apart
<1>4. \A ply \in Nat : Entries(ply) = {} /\ Appended(ply) = {}
  BY <1>2, <1>3 DEF Entries, Appended
<1>5. ASSUME NEW ply \in Nat PROVE Accounted(ply)
  <2>1. Cardinality(Entries(ply)) = 0 /\ Cardinality(Appended(ply)) = 0
    BY <1>4, FS_EmptySet
  <2>2. ply \notin published
    BY <1>1
  <2>3. QED
    BY <1>1, <2>1, <2>2 DEF Accounted
<1>6. QED
  BY <1>3, <1>5, FS_EmptySet DEF RepeatInv

LEMMA FetchRepeat ==
    ASSUME RelayInv, RepeatInv, NEW r \in Relays, FetchUnpublished(r)
    PROVE  RepeatInv'
<1> USE DEF RelayInv, RepeatInv
<1>1. /\ relay' = [relay EXCEPT ![r] = [at |-> "append", todo |-> Fetched, done |-> {}]]
      /\ UNCHANGED <<rows, published, stream, failed>> /\ relay[r].at = "idle"
  BY DEF FetchUnpublished
<1>2. /\ relay'[r].at = "append" /\ relay'[r].todo = Fetched /\ relay'[r].done = {}
      /\ \A s \in Relays : s # r => relay'[s] = relay[s]
  BY <1>1 DEF RelayTypeOK
<1>3. Apart'
  BY <1>2 DEF Apart
<1>4. ASSUME NEW ply \in Nat PROVE Accounted(ply)'
  <2>1. Entries(ply)' = Entries(ply)
    BY <1>1 DEF Entries
  <2>2. Appended(ply)' = Appended(ply)
    BY <1>1, <1>2 DEF Appended, Apart
  <2>3. ply \in published => ply \notin Fetched
    BY DEF Fetched, Unpublished
  <2>4. ply \in published => Holding(ply)' \subseteq Holding(ply)
    BY <1>2, <2>3 DEF Holding
  <2>5. failed \in Nat
    BY DEF RelayTypeOK
  <2>6. QED
    BY <1>1, <1>3, <2>1, <2>2, <2>4, <2>5, NothingAdded
<1>5. QED
  BY <1>1, <1>3, <1>4

LEMMA AppendRepeat ==
    ASSUME RelayInv, RepeatInv, NEW r \in Relays, AppendNext(r)
    PROVE  RepeatInv'
<1> USE DEF RelayInv, RepeatInv
<1>1. PICK row \in relay[r].todo :
        /\ relay[r].at = "append"
        /\ \/ /\ stream' = Append(stream, row)
              /\ relay' = [relay EXCEPT ![r].todo = relay[r].todo \ {row},
                                        ![r].done = @ \cup {row},
                                        ![r].at = IF relay[r].todo \ {row} = {}
                                                  THEN "mark" ELSE "append"]
              /\ failed' = failed
           \/ /\ failed' = failed + 1
              /\ relay' = [relay EXCEPT ![r].at = "mark"]
              /\ stream' \in {stream, Append(stream, row)}
        /\ published' = published
  BY DEF AppendNext
<1>2. row \in Nat \ {0} /\ stream \in Seq(Nat \ {0}) /\ failed \in Nat
  BY DEF RelayTypeOK
<1>3. row \notin relay[r].done
  BY DEF Apart
<1>4. stream' = Append(stream, row) =>
        /\ IsFiniteSet(DOMAIN stream')
        /\ \A ply \in Nat : Cardinality(Entries(ply)') =
               Cardinality(Entries(ply)) + (IF ply = row THEN 1 ELSE 0)
  BY <1>2, EntryAppended
<1>5. IsFiniteSet(DOMAIN stream')
  BY <1>1, <1>4
<1>6. ASSUME NEW ply \in Nat, ply # row PROVE Entries(ply)' = Entries(ply)
  <2>1. CASE stream' = stream
    BY <2>1 DEF Entries
  <2>2. CASE stream' = Append(stream, row)
    <3>1. /\ DOMAIN stream = 1..Len(stream) /\ DOMAIN stream' = 1..(Len(stream) + 1)
          /\ \A i \in 1..Len(stream) : stream'[i] = stream[i]
          /\ stream'[Len(stream) + 1] = row /\ Len(stream) \in Nat
      BY <1>2, <2>2, AppendedStream
    <3>2. QED
      BY <1>6, <3>1 DEF Entries
  <2>3. QED
    BY <1>1, <2>1, <2>2
<1>7. CASE /\ stream' = Append(stream, row)
           /\ relay' = [relay EXCEPT ![r].todo = relay[r].todo \ {row},
                                     ![r].done = @ \cup {row},
                                     ![r].at = IF relay[r].todo \ {row} = {}
                                               THEN "mark" ELSE "append"]
           /\ failed' = failed
  <2>1. /\ relay'[r].todo = relay[r].todo \ {row}
        /\ relay'[r].done = relay[r].done \cup {row}
        /\ relay'[r].at \in {"mark", "append"}
        /\ \A s \in Relays : s # r => relay'[s] = relay[s]
    BY <1>7 DEF RelayTypeOK
  <2>2. Apart'
    BY <2>1 DEF Apart
  <2>3. ASSUME NEW ply \in Nat PROVE Accounted(ply)'
    <3>1. CASE ply = row
      <4>1. Appended(ply)' = Appended(ply) \cup {r} /\ r \notin Appended(ply)
        BY <1>3, <2>1, <3>1 DEF Appended
      <4>2. r \in Holding(ply) /\ Holding(ply)' \subseteq Holding(ply) \ {r}
        BY <1>1, <2>1, <3>1 DEF Holding
      <4>3. Cardinality(Entries(ply)') = Cardinality(Entries(ply)) + 1
        BY <1>4, <1>7, <3>1
      <4>4. QED
        BY <1>1, <1>2, <1>7, <2>2, <4>1, <4>2, <4>3, EntryAdded
    <3>2. CASE ply # row
      <4>1. Appended(ply)' = Appended(ply)
        BY <2>1, <3>2 DEF Appended
      <4>2. Holding(ply)' \subseteq Holding(ply)
        BY <1>1, <2>1 DEF Holding
      <4>3. QED
        BY <1>1, <1>2, <1>6, <1>7, <2>2, <3>2, <4>1, <4>2, NothingAdded
    <3>3. QED
      BY <3>1, <3>2
  <2>4. QED
    BY <1>5, <2>2, <2>3
<1>8. CASE failed' = failed + 1 /\ relay' = [relay EXCEPT ![r].at = "mark"]
           /\ stream' \in {stream, Append(stream, row)}
  <2>1. /\ relay'[r].at = "mark" /\ relay'[r].todo = relay[r].todo /\ relay'[r].done = relay[r].done
        /\ \A s \in Relays : s # r => relay'[s] = relay[s]
    BY <1>8 DEF RelayTypeOK
  <2>2. Apart'
    BY <2>1 DEF Apart
  <2>3. ASSUME NEW ply \in Nat PROVE Accounted(ply)'
    <3>1. Appended(ply)' = Appended(ply)
      BY <2>1 DEF Appended
    <3>2. Holding(ply)' \subseteq Holding(ply) \ {r}
      BY <2>1 DEF Holding
    <3>3. CASE ply = row /\ stream' = Append(stream, row)
      <4>1. r \in Holding(ply)
        BY <1>1, <3>3 DEF Holding
      <4>2. Cardinality(Entries(ply)') = Cardinality(Entries(ply)) + 1
        BY <1>4, <3>3
      <4>3. QED
        BY <1>1, <1>2, <1>8, <2>2, <3>1, <3>2, <4>1, <4>2, EntryAdded
    <3>4. CASE Entries(ply)' = Entries(ply)
      BY <1>1, <1>2, <1>8, <2>2, <3>1, <3>2, <3>4, NothingAdded
    <3>5. QED
      BY <1>6, <1>8, <3>3, <3>4 DEF Entries
  <2>4. QED
    BY <1>5, <2>2, <2>3
<1>9. QED
  BY <1>1, <1>7, <1>8

\* A mark turns the cycles that have appended a move into entries that stay.
LEMMA MarkRepeat ==
    ASSUME RelayInv, RepeatInv, NEW r \in Relays, MarkPublished(r)
    PROVE  RepeatInv'
<1> USE DEF RelayInv, RepeatInv
<1>1. /\ relay[r].at = "mark" /\ relay' = [relay EXCEPT ![r] = Resting] /\ stream' = stream
      /\ \/ published' = published \cup relay[r].done /\ failed' = failed
         \/ failed' = failed + 1 /\ published' = published
  BY DEF MarkPublished
<1>2. /\ Apart'
      /\ \A ply \in Nat : Appended(ply)' = Appended(ply) \ {r} /\ Holding(ply)' = Holding(ply) \ {r}
  BY <1>1, RestingRelay
<1>3. failed \in Nat
  BY DEF RelayTypeOK
<1>4. ASSUME NEW ply \in Nat PROVE Accounted(ply)'
  <2>1. Entries(ply)' = Entries(ply) /\ Holding(ply)' = Holding(ply)
    BY <1>1, <1>2 DEF Entries, Holding
  <2>2. CASE ply \in published <=> ply \in published'
    <3>1. \/ failed' = failed + 1
          \/ failed' = failed /\ (ply \in published \/ Appended(ply)' = Appended(ply))
      BY <1>1, <1>2, <2>2 DEF Appended
    <3>2. CASE failed' = failed /\ ply \in published
      BY <2>1, <2>2, <3>2 DEF Accounted
    <3>3. QED
      BY <1>2, <1>3, <2>1, <2>2, <3>1, <3>2, NothingAdded
  <2>3. CASE ply \notin published /\ ply \in published'
    <3>1. failed' = failed
      BY <1>1, <2>3
    <3>2. Cardinality(Entries(ply)) <= Cardinality(Appended(ply)) + failed
          /\ Cardinality(Entries(ply)) \in Nat
      BY <2>3, EntriesCount DEF Accounted
    <3>3. /\ Cardinality(Appended(ply)) \in Nat /\ Cardinality(Holding(ply)) \in Nat
          /\ Cardinality(Relays) \in Nat
          /\ Cardinality(Appended(ply)) + Cardinality(Holding(ply)) <= Cardinality(Relays)
      BY RelayCounts
    <3>4. QED
      BY <1>3, <2>1, <2>3, <3>1, <3>2, <3>3 DEF Accounted
  <2>4. QED
    BY <1>1, <2>2, <2>3
<1>5. QED
  BY <1>1, <1>2, <1>4

LEMMA CrashRepeat ==
    ASSUME RelayInv, RepeatInv, NEW r \in Relays, RelayCrash(r)
    PROVE  RepeatInv'
<1> USE DEF RelayInv, RepeatInv
<1>1. /\ relay' = [relay EXCEPT ![r] = Resting] /\ failed' = failed + 1
      /\ stream' = stream /\ published' = published /\ failed \in Nat
  BY DEF RelayCrash, RelayTypeOK
<1>2. /\ Apart'
      /\ \A ply \in Nat : Appended(ply)' = Appended(ply) \ {r} /\ Holding(ply)' = Holding(ply) \ {r}
  BY <1>1, RestingRelay
<1>3. ASSUME NEW ply \in Nat PROVE Accounted(ply)'
  <2>1. Entries(ply)' = Entries(ply)
    BY <1>1 DEF Entries
  <2>2. QED
    BY <1>1, <1>2, <2>1, NothingAdded
<1>4. QED
  BY <1>1, <1>2, <1>3

LEMMA RepeatStep ==
    ASSUME RelayInv, RepeatInv, [RelayNext]_relayVars
    PROVE  RepeatInv'
<1>1. CASE UNCHANGED <<published, stream, relay, failed>>
  BY <1>1 DEF RepeatInv, Apart, Accounted, Entries, Appended, Holding
<1>2. QED
  BY <1>1, FetchRepeat, AppendRepeat, MarkRepeat, CrashRepeat DEF RelayNext, Write, relayVars

LEMMA RepeatBound ==
    ASSUME RelayInv, RepeatInv, NEW ply \in InStream
    PROVE  Cardinality(Entries(ply)) <= Cardinality(Relays) + failed
<1>1. ply \in Nat /\ failed \in Nat
  BY DEF RelayInv, RelayTypeOK
<1>2. Accounted(ply) /\ Cardinality(Entries(ply)) \in Nat
  BY <1>1, EntriesCount DEF RepeatInv
<1>3. /\ Cardinality(Appended(ply)) \in Nat /\ Cardinality(Holding(ply)) \in Nat
      /\ Cardinality(Relays) \in Nat
      /\ Cardinality(Appended(ply)) + Cardinality(Holding(ply)) <= Cardinality(Relays)
  BY RelayCounts DEF RepeatInv
<1>4. QED
  BY <1>1, <1>2, <1>3 DEF Accounted

\* A move is in the stream once for each replica at most, and once more for each
\* failure: a cycle that ended well has marked what it appended (MarkPublished), so
\* that no later cycle fetches it.
THEOREM RepeatsAreBounded == RelaySpec => []RepeatsBounded
<1>1. RelayInv /\ RepeatInv /\ [RelayNext]_relayVars => RepeatInv'
  BY RepeatStep
<1>2. RelayInv /\ RepeatInv => RepeatsBounded
  BY RepeatBound DEF RepeatsBounded, Entries
<1>3. QED
  BY <1>1, <1>2, RepeatInit, RelayInductive, PTL DEF RelaySpec

-----------------------------------------------------------------------------
(* The spectators. *)

Conns ==
    [viewer : Viewers, replica : Replicas, gen : Nat,
     at : {"open", "lookup", "detach", "teardown", "closed"},
     initial : Seq(Nat), ch : Seq(Nat), kicked : BOOLEAN]

FanoutTypeOK ==
    /\ hub \in [Replicas -> [up : BOOLEAN, gen : Nat, history : Seq(Nat), subs : SUBSET Nat]]
    /\ conns \in Seq(Conns)
    /\ viewer \in [Viewers -> [conn : Nat, lastId : Nat, seen : Seq(Nat), lagged : BOOLEAN]]

\* The entries of s are numbered on from a: s = <<a + 1, a + 2, ...>>.
CountsFrom(s, a) == \A k \in 1..Len(s) : s[k] = a + k

\* A hub's history is the stream up to some entry, and its subscribers are
\* connections to its replica.
HubInv ==
    \A rep \in Replicas :
        /\ CountsFrom(hub[rep].history, 0)
        /\ Len(hub[rep].history) <= Len(stream)
        /\ \A n \in hub[rep].subs : n \in 1..Len(conns) /\ conns[n].replica = rep

\* A spectator has been shown, before an entry, every entry before it; unless it
\* has lagged it has been shown each of them once.
ShownInv(v) ==
    LET seen == viewer[v].seen
    IN  /\ viewer[v].lastId = LastOf(seen)
        /\ \A i \in 1..Len(seen) :
             /\ seen[i] \in 1..Len(stream)
             /\ \A x \in 1..seen[i] : \E j \in 1..i : seen[j] = x
        /\ ~viewer[v].lagged => CountsFrom(seen, 0)

\* The entries connection c will have brought when all that is buffered in it is
\* delivered, if it starts after entry a.
End(c, a) == a + Len(c.initial) + Len(c.ch)

\* What is under way to viewer v goes on from an entry a up to which it has been
\* shown everything, without a hole, and while it is subscribed, up to the end of
\* the hub's history.
UnderWay(v, a) ==
    LET n == viewer[v].conn  c == conns[n]
    IN  /\ CountsFrom(c.initial, a)
        /\ CountsFrom(c.ch, a + Len(c.initial))
        /\ End(c, a) <= Len(stream)
        /\ \A x \in 1..a : \E j \in 1..Len(viewer[v].seen) : viewer[v].seen[j] = x
        /\ ~viewer[v].lagged => a = Len(viewer[v].seen)
        /\ \A rep \in Replicas : n \in hub[rep].subs => Len(hub[rep].history) = End(c, a)

ConnInv(v) ==
    LET n == viewer[v].conn
    IN  n # 0 => /\ n \in 1..Len(conns)
                 /\ conns[n].viewer = v /\ conns[n].at = "open"
                 /\ \E a \in Nat : UnderWay(v, a)

FanoutInv ==
    /\ RelayInv
    /\ FanoutTypeOK
    /\ HubInv
    /\ \A v \in Viewers : ShownInv(v) /\ ConnInv(v)

-----------------------------------------------------------------------------
(* Ids and the backlog. *)

\* In blocks of at most ten, numbers have the order of their block and place.
LEMMA BlockOrder ==
    ASSUME NEW B \in 1..10, NEW a \in Nat, NEW b \in Nat
    PROVE  /\ a \div B \in Nat /\ b \div B \in Nat
           /\ a % B \in 0..9 /\ b % B \in 0..9
           /\ (a \div B > b \div B \/ (a \div B = b \div B /\ a % B > b % B)) <=> a > b
<1>1. CASE B = 1  BY <1>1
<1>2. CASE B = 2  BY <1>2
<1>3. CASE B = 3  BY <1>3
<1>4. CASE B = 4  BY <1>4
<1>5. CASE B = 5  BY <1>5
<1>6. CASE B = 6  BY <1>6
<1>7. CASE B = 7  BY <1>7
<1>8. CASE B = 8  BY <1>8
<1>9. CASE B = 9  BY <1>9
<1>10. CASE B = 10  BY <1>10
<1> QED
  BY <1>1, <1>2, <1>3, <1>4, <1>5, <1>6, <1>7, <1>8, <1>9, <1>10

\* Digits have the order of strings.
LEMMA DigitOrder ==
    ASSUME NEW a \in 0..9, NEW b \in 0..9
    PROVE  StringAfter(a, b) <=> a > b
<1>1. Digits(a) = <<a>> /\ Digits(b) = <<b>>
  BY DEF Digits
<1>2. DOMAIN <<a>> = {1} /\ DOMAIN <<b>> = {1} /\ <<a>>[1] = a /\ <<b>>[1] = b
  OBVIOUS
<1>3. \A k \in {1} : \A i \in 1..(k - 1) : FALSE
  OBVIOUS
<1> QED
  BY <1>1, <1>2, <1>3 DEF StringAfter

\* As long as no more than ten entries are written in a millisecond, the comparison
\* of ids as strings is the order of the stream.
LEMMA IdOrder ==
    ASSUME Burst <= 10, NEW i \in Nat \ {0}, NEW j \in Nat \ {0}
    PROVE  NewerThan(i, j) <=> i > j
<1>1. Burst \in 1..10 /\ i - 1 \in Nat /\ j - 1 \in Nat
  BY FanoutAssumption
<1>2. /\ (i - 1) % Burst \in 0..9 /\ (j - 1) % Burst \in 0..9
      /\ ((i - 1) \div Burst > (j - 1) \div Burst
            \/ ((i - 1) \div Burst = (j - 1) \div Burst /\ (i - 1) % Burst > (j - 1) % Burst))
         <=> i - 1 > j - 1
  BY <1>1, BlockOrder
<1>3. StringAfter((i - 1) % Burst, (j - 1) % Burst) <=> (i - 1) % Burst > (j - 1) % Burst
  BY <1>2, DigitOrder
<1> QED
  BY <1>2, <1>3 DEF NewerThan, Ms

\* Selecting all positions after the first a returns the rest of the sequence.
LEMMA SelectedSuffix ==
    ASSUME NEW s \in Seq(Nat), NEW a \in 0..Len(s)
    PROVE  LET rest == Selected(s, (a + 1)..Len(s))
           IN  /\ rest \in Seq(Nat)
               /\ Len(rest) = Len(s) - a
               /\ \A k \in 1..Len(rest) : rest[k] = s[a + k]
<1> DEFINE at == (a + 1)..Len(s)
           rest == Selected(s, at)
           size == Len(s) - a
<1>1. Len(s) \in Nat /\ a \in Nat /\ size \in Nat
  OBVIOUS
<1>2. Cardinality(at) = size
  <2>1. PICK low \in Int, high \in Int : low = a + 1 /\ high = Len(s)
    BY <1>1
  <2>2. Cardinality(low..high) = IF low > high THEN 0 ELSE high - low + 1
    BY FS_Interval
  <2>3. at = low..high /\ size = IF low > high THEN 0 ELSE high - low + 1
    BY <1>1, <2>1
  <2> QED
    BY <2>2, <2>3
<1>3. ASSUME NEW k \in at
      PROVE  Cardinality({j \in at : j <= k}) = k - a
  <2>1. {j \in at : j <= k} = (a + 1)..k
    BY <1>1
  <2>2. Cardinality((a + 1)..k) = k - a
    BY <1>1, FS_Interval
  <2> QED
    BY <2>1, <2>2
<1>4. ASSUME NEW n \in 1..size
      PROVE  (CHOOSE k \in at : Cardinality({j \in at : j <= k}) = n) = a + n
  <2>1. a + n \in at
    BY <1>1
  <2>2. \A k \in at : Cardinality({j \in at : j <= k}) = n <=> k = a + n
    BY <1>1, <1>3
  <2> QED
    BY <2>1, <2>2
<1>5. rest = [n \in 1..size |-> s[CHOOSE k \in at : Cardinality({j \in at : j <= k}) = n]]
  BY <1>2 DEF Selected
<1>6. \A n \in 1..size : rest[n] = s[a + n]
  BY <1>4, <1>5
<1>7. \A n \in 1..size : s[a + n] \in Nat
  BY <1>1
<1>8. rest = [n \in 1..size |-> s[a + n]]
  BY <1>4, <1>5
<1> HIDE DEF rest, size
<1>9. rest \in Seq(Nat) /\ Len(rest) = size
  BY <1>1, <1>7, <1>8
<1> QED
  BY <1>1, <1>6, <1>9 DEF rest, size

\* What a viewer is sent first: the entries of the history after the last it saw.
LEMMA Backlog ==
    ASSUME Burst <= 10, NEW h \in Seq(Nat), CountsFrom(h, 0), NEW from \in Nat
    PROVE  \E a \in 0..Len(h) :
               /\ from <= Len(h) => a = from
               /\ from > Len(h) => a = Len(h)
               /\ FilterAfter(h, from) \in Seq(Nat)
               /\ Len(FilterAfter(h, from)) = Len(h) - a
               /\ CountsFrom(FilterAfter(h, from), a)
<1>1. PICK a \in 0..Len(h) : /\ from <= Len(h) => a = from
                             /\ from > Len(h) => a = Len(h)
  <2>1. CASE from <= Len(h)
    BY <2>1
  <2>2. CASE from > Len(h)
    BY <2>2
  <2> QED
    BY <2>1, <2>2
<1>2. DOMAIN h = 1..Len(h) /\ Len(h) \in Nat /\ \A k \in 1..Len(h) : h[k] = k
  BY DEF CountsFrom
<1>3. ASSUME NEW k \in 1..Len(h)
      PROVE  (from = 0 \/ NewerThan(h[k], from)) <=> k > a
  <2>1. CASE from = 0
    BY <1>1, <1>2, <2>1
  <2>2. CASE from # 0
    <3>1. NewerThan(k, from) <=> k > from
      BY <2>2, IdOrder
    <3>2. h[k] = k
      BY <1>2
    <3>3. NewerThan(h[k], from) <=> k > from
      BY <3>1, <3>2, Zenon
    <3>4. PICK L \in Nat : L = Len(h)
      BY <1>2
    <3>5. k \in 1..L /\ a \in 0..L /\ (from <= L => a = from) /\ (from > L => a = L)
      BY <1>1, <3>4
    <3>6. k > from <=> k > a
      BY <3>5
    <3> QED
      BY <2>2, <3>3, <3>6, Zenon
  <2> QED
    BY <2>1, <2>2
<1>4. {k \in DOMAIN h : from = 0 \/ NewerThan(h[k], from)} = (a + 1)..Len(h)
  <2>1. {k \in DOMAIN h : from = 0 \/ NewerThan(h[k], from)} = {k \in 1..Len(h) : k > a}
    BY <1>2, <1>3
  <2>2. {k \in 1..Len(h) : k > a} = (a + 1)..Len(h)
    BY <1>2
  <2> QED
    BY <2>1, <2>2
<1>5. FilterAfter(h, from) = Selected(h, (a + 1)..Len(h))
  BY <1>4 DEF FilterAfter
<1> DEFINE rest == Selected(h, (a + 1)..Len(h))
<1>6. rest \in Seq(Nat) /\ Len(rest) = Len(h) - a /\ \A k \in 1..Len(rest) : rest[k] = h[a + k]
  BY SelectedSuffix
<1> HIDE DEF rest
<1>7. CountsFrom(rest, a)
  <2> SUFFICES ASSUME NEW k \in 1..Len(rest)
               PROVE  rest[k] = a + k
    BY DEF CountsFrom
  <2>1. PICK L \in Nat : L = Len(h)
    BY <1>2
  <2>2. k \in 1..(L - a) /\ a \in 0..L
    BY <1>6, <2>1
  <2>3. a + k \in 1..L
    BY <2>2
  <2> QED
    BY <1>2, <1>6, <2>1, <2>3
<1> QED
  BY <1>1, <1>5, <1>6, <1>7 DEF rest

-----------------------------------------------------------------------------
(* What a step leaves alone. *)

\* The stream only grows.
Grows == Len(stream) \in Nat /\ Len(stream') \in Nat /\ Len(stream) <= Len(stream')

\* A viewer who is shown nothing keeps what it was promised.
LEMMA ShownKept ==
    ASSUME FanoutTypeOK, NEW v \in Viewers, ShownInv(v), Grows,
           viewer'[v].seen = viewer[v].seen, viewer'[v].lastId = viewer[v].lastId,
           ~viewer'[v].lagged => ~viewer[v].lagged
    PROVE  ShownInv(v)'
<1> DEFINE seen == viewer[v].seen
<1>1. seen \in Seq(Nat) /\ Len(seen) \in Nat
  BY DEF FanoutTypeOK
<1>2. \A i \in 1..Len(seen) : seen[i] \in 1..Len(stream) => seen[i] \in 1..Len(stream')
  BY DEF Grows
<1> QED
  BY <1>1, <1>2 DEF ShownInv

\* The fields of a connection.
LEMMA ConnFields ==
    ASSUME conns \in Seq(Conns), NEW n \in 1..Len(conns)
    PROVE  /\ conns[n] \in Conns
           /\ conns[n].viewer \in Viewers /\ conns[n].replica \in Replicas
           /\ conns[n].initial \in Seq(Nat) /\ conns[n].ch \in Seq(Nat)
           /\ Len(conns[n].initial) \in Nat /\ Len(conns[n].ch) \in Nat
<1>1. conns[n] \in Conns
  OBVIOUS
<1> QED
  BY <1>1 DEF Conns

LEMMA EndIsNat ==
    ASSUME conns \in Seq(Conns), NEW n \in 1..Len(conns), NEW a \in Nat
    PROVE  End(conns[n], a) \in Nat
<1>1. PICK i \in Nat, k \in Nat : i = Len(conns[n].initial) /\ k = Len(conns[n].ch)
  BY ConnFields
<1>2. End(conns[n], a) = a + i + k
  BY <1>1 DEF End
<1> QED
  BY <1>2

\* What is under way on a connection stays so while its buffers and its hub's
\* history are untouched.
LEMMA ConnKept ==
    ASSUME FanoutTypeOK, NEW v \in Viewers, ConnInv(v), Grows,
           viewer'[v] = viewer[v],
           NEW n, n = viewer[v].conn,
           n # 0 => /\ n \in 1..Len(conns')
                    /\ conns'[n].viewer = conns[n].viewer
                    /\ conns'[n].at = conns[n].at
                    /\ conns'[n].initial = conns[n].initial
                    /\ conns'[n].ch = conns[n].ch,
           \A rep \in Replicas : n \in hub'[rep].subs =>
               n \in hub[rep].subs /\ hub'[rep].history = hub[rep].history
    PROVE  ConnInv(v)'
<1>1. CASE n = 0
  BY <1>1 DEF ConnInv
<1>2. CASE n # 0
  <2>1. PICK a \in Nat : UnderWay(v, a)
    BY <1>2 DEF ConnInv
  <2>2. n \in 1..Len(conns)
    BY <1>2 DEF ConnInv
  <2>3. End(conns[n], a) \in Nat
    BY <2>2, EndIsNat DEF FanoutTypeOK
  <2>4. PICK e \in Nat : e = End(conns[n], a)
    BY <2>3
  <2>5. End(conns'[n], a) = e
    BY <1>2, <2>4 DEF End
  <2>6. e <= Len(stream')
    BY <2>1, <2>4 DEF UnderWay, Grows
  <2>7. /\ CountsFrom(conns'[n].initial, a)
        /\ CountsFrom(conns'[n].ch, a + Len(conns'[n].initial))
    BY <1>2, <2>1 DEF UnderWay
  <2>8. \A rep \in Replicas : n \in hub'[rep].subs => Len(hub'[rep].history) = e
    BY <2>1, <2>4 DEF UnderWay
  <2>9. /\ \A x \in 1..a : \E j \in 1..Len(viewer'[v].seen) : viewer'[v].seen[j] = x
        /\ ~viewer'[v].lagged => a = Len(viewer'[v].seen)
    BY <2>1 DEF UnderWay
  <2>10. UnderWay(v, a)'
    BY <2>5, <2>6, <2>7, <2>8, <2>9 DEF UnderWay
  <2> QED
    BY <1>2, <2>10 DEF ConnInv
<1> QED
  BY <1>1, <1>2

\* Replacing one connection by another of its type.
LEMMA ConnReplaced ==
    ASSUME conns \in Seq(Conns), NEW n \in 1..Len(conns), NEW c \in Conns,
           conns' = [conns EXCEPT ![n] = c]
    PROVE  /\ conns' \in Seq(Conns) /\ Len(conns') = Len(conns)
           /\ conns'[n] = c
           /\ \A m \in 1..Len(conns) : m # n => conns'[m] = conns[m]
  OBVIOUS

\* When all but the stream stays, so do the promises.
LEMMA StreamGrows ==
    ASSUME FanoutInv, Grows, UNCHANGED fanVars, RelayInv'
    PROVE  FanoutInv'
<1>1. FanoutTypeOK' /\ HubInv'
  BY DEF FanoutInv, FanoutTypeOK, HubInv, Grows, fanVars, CountsFrom, Conns
<1>2. ASSUME NEW v \in Viewers
      PROVE  ShownInv(v)' /\ ConnInv(v)'
  <2>1. ShownInv(v)'
    BY ShownKept DEF FanoutInv, fanVars
  <2>2. viewer[v].conn # 0 => viewer[v].conn \in 1..Len(conns)
    BY DEF FanoutInv, ConnInv
  <2>3. ConnInv(v)'
    BY <2>2, ConnKept DEF FanoutInv, fanVars
  <2> QED
    BY <2>1, <2>3
<1> QED
  BY <1>1, <1>2 DEF FanoutInv

LEMMA FanoutInit == Init => FanoutInv
<1> SUFFICES ASSUME Init PROVE FanoutInv
  OBVIOUS
<1>1. RelayInv
  BY InitRelayInv DEF Init
<1>2. FanoutTypeOK /\ HubInv
  BY DEF Init, FanoutTypeOK, HubInv, NoHub, CountsFrom, RelayInit
<1>3. \A v \in Viewers : ShownInv(v) /\ ConnInv(v)
  BY DEF Init, ShownInv, ConnInv, CountsFrom, LastOf
<1> QED
  BY <1>1, <1>2, <1>3 DEF FanoutInv

LEMMA RelayStepGrows ==
    ASSUME RelayInv, RelayNext
    PROVE  Grows
<1>1. stream \in Seq(Nat \ {0}) /\ Len(stream) \in Nat
  BY DEF RelayInv, RelayTypeOK
<1>2. stream' = stream \/ \E row : stream' = Append(stream, row)
  BY DEF RelayNext, Write, FetchUnpublished, AppendNext, MarkPublished, RelayCrash
<1>3. CASE stream' = stream
  BY <1>1, <1>3 DEF Grows
<1>4. ASSUME NEW row, stream' = Append(stream, row)
      PROVE  Grows
  <2>1. Len(Append(stream, row)) = Len(stream) + 1
    BY <1>1
  <2> QED
    BY <1>1, <1>4, <2>1 DEF Grows
<1> QED
  BY <1>2, <1>3, <1>4

LEMMA RelayFanout ==
    ASSUME FanoutInv, RelayNext, UNCHANGED fanVars
    PROVE  FanoutInv'
<1>1. RelayInv'
  BY RelayInvStep DEF FanoutInv
<1>2. Grows
  BY RelayStepGrows DEF FanoutInv
<1> QED
  BY <1>1, <1>2, StreamGrows

\* A handler whose client is gone disturbs no viewer, whatever it does to itself,
\* while hubs only lose subscribers or, with the last, everything.
LEMMA HandlerStep ==
    ASSUME FanoutInv, UNCHANGED <<relayVars, viewer>>,
           NEW n \in 1..Len(conns), conns[n].at # "open",
           NEW c \in Conns, c.replica = conns[n].replica,
           conns' = [conns EXCEPT ![n] = c],
           hub' \in [Replicas -> [up : BOOLEAN, gen : Nat, history : Seq(Nat),
                                  subs : SUBSET Nat]],
           \A rep \in Replicas :
               /\ hub'[rep].subs \subseteq hub[rep].subs
               /\ \/ hub'[rep].history = hub[rep].history
                  \/ hub'[rep].history = <<>> /\ hub'[rep].subs = {}
    PROVE  FanoutInv'
<1>1. /\ conns' \in Seq(Conns) /\ Len(conns') = Len(conns)
      /\ conns'[n] = c
      /\ \A m \in 1..Len(conns) : m # n => conns'[m] = conns[m]
  BY ConnReplaced DEF FanoutInv, FanoutTypeOK
<1>2. FanoutTypeOK'
  BY <1>1 DEF FanoutInv, FanoutTypeOK, Conns
<1>3. RelayInv'
  BY RelayInvStep DEF FanoutInv, relayVars
<1>4. Grows
  BY DEF FanoutInv, RelayInv, RelayTypeOK, relayVars, Grows
<1>5. HubInv'
  <2> SUFFICES ASSUME NEW rep \in Replicas
               PROVE  /\ CountsFrom(hub'[rep].history, 0)
                      /\ Len(hub'[rep].history) <= Len(stream')
                      /\ \A m \in hub'[rep].subs :
                            m \in 1..Len(conns') /\ conns'[m].replica = rep
    BY DEF HubInv, CountsFrom
  <2>1. /\ CountsFrom(hub[rep].history, 0)
        /\ Len(hub[rep].history) <= Len(stream)
        /\ \A m \in hub[rep].subs : m \in 1..Len(conns) /\ conns[m].replica = rep
    BY DEF FanoutInv, HubInv
  <2>2. CountsFrom(<<>>, 0) /\ Len(<<>>) = 0
    BY DEF CountsFrom
  <2>3. \A m \in hub'[rep].subs : m \in 1..Len(conns') /\ conns'[m].replica = rep
    BY <1>1, <2>1
  <2>4. stream' = stream /\ Len(stream) \in Nat
    BY <1>4 DEF relayVars, Grows
  <2> QED
    BY <2>1, <2>2, <2>3, <2>4
<1>6. ASSUME NEW v \in Viewers
      PROVE  ShownInv(v)' /\ ConnInv(v)'
  <2>1. ShownInv(v)'
    BY <1>4, ShownKept DEF FanoutInv
  <2>2. viewer[v].conn # 0 => viewer[v].conn \in 1..Len(conns) /\ viewer[v].conn # n
    BY DEF FanoutInv, ConnInv
  <2>3. viewer[v].conn # 0 => /\ viewer[v].conn \in 1..Len(conns')
                              /\ conns'[viewer[v].conn] = conns[viewer[v].conn]
    BY <1>1, <2>2
  <2>4. ConnInv(v)'
    BY <1>4, <2>3, ConnKept DEF FanoutInv
  <2> QED
    BY <2>1, <2>4
<1> QED
  BY <1>2, <1>3, <1>5, <1>6 DEF FanoutInv

Hubs == [up : BOOLEAN, gen : Nat, history : Seq(Nat), subs : SUBSET Nat]

\* What a handler makes of its connection on the way out.
LEMMA ConnSteps ==
    ASSUME NEW c \in Conns, NEW g \in Nat
    PROVE  /\ Returned(c) \in Conns /\ Returned(c).replica = c.replica
           /\ Closed(c) \in Conns /\ Closed(c).replica = c.replica
           /\ [c EXCEPT !.at = "detach", !.gen = g] \in Conns
           /\ [c EXCEPT !.at = "detach", !.gen = g].replica = c.replica
           /\ [c EXCEPT !.at = "teardown"] \in Conns
           /\ [c EXCEPT !.at = "teardown"].replica = c.replica
<1>1. <<>> \in Seq(Nat) /\ FALSE \in BOOLEAN /\ 0 \in Nat
  OBVIOUS
<1>2. Returned(c) \in Conns /\ Returned(c).replica = c.replica
  BY <1>1 DEF Conns, Returned
<1>3. \A d \in Conns : /\ [d EXCEPT !.at = "closed", !.gen = 0] \in Conns
                       /\ [d EXCEPT !.at = "closed", !.gen = 0].replica = d.replica
  BY <1>1 DEF Conns
<1>4. Closed(c) \in Conns /\ Closed(c).replica = c.replica
  BY <1>2, <1>3 DEF Closed
<1>5. /\ [c EXCEPT !.at = "detach", !.gen = g] \in Conns
      /\ [c EXCEPT !.at = "detach", !.gen = g].replica = c.replica
      /\ [c EXCEPT !.at = "teardown"] \in Conns
      /\ [c EXCEPT !.at = "teardown"].replica = c.replica
  BY DEF Conns
<1> QED
  BY <1>2, <1>4, <1>5

LEMMA LookupFanout ==
    ASSUME FanoutInv, NEW n \in DOMAIN conns, Lookup(n)
    PROVE  FanoutInv'
<1>1. n \in 1..Len(conns) /\ conns \in Seq(Conns) /\ hub \in [Replicas -> Hubs]
  BY DEF FanoutInv, FanoutTypeOK, Hubs
<1>2. conns[n] \in Conns /\ hub[conns[n].replica].gen \in Nat
  BY <1>1, ConnFields DEF Hubs
<1> DEFINE h == hub[conns[n].replica]
           c == IF h.up THEN [conns[n] EXCEPT !.at = "detach", !.gen = h.gen]
                ELSE Closed(conns[n])
<1>3. c \in Conns /\ c.replica = conns[n].replica
  BY <1>2, ConnSteps
<1>4. conns' = [conns EXCEPT ![n] = c] /\ conns[n].at = "lookup"
  BY DEF Lookup
<1>5. UNCHANGED <<relayVars, viewer>> /\ hub' = hub
  BY DEF Lookup
<1> HIDE DEF c
<1> QED
  BY <1>1, <1>3, <1>4, <1>5, HandlerStep DEF Hubs

LEMMA DetachFanout ==
    ASSUME FanoutInv, NEW n \in DOMAIN conns, Detach(n)
    PROVE  FanoutInv'
<1>1. n \in 1..Len(conns) /\ conns \in Seq(Conns) /\ hub \in [Replicas -> Hubs]
  BY DEF FanoutInv, FanoutTypeOK, Hubs
<1>2. conns[n] \in Conns /\ conns[n].replica \in Replicas /\ 0 \in Nat
  BY <1>1, ConnFields
<1> DEFINE h == hub[conns[n].replica]
           rest == IF h.gen = conns[n].gen THEN h.subs \ {n} ELSE {}
           c == IF rest = {} THEN [conns[n] EXCEPT !.at = "teardown"] ELSE Closed(conns[n])
<1>3. c \in Conns /\ c.replica = conns[n].replica
  BY <1>2, ConnSteps
<1>4. conns' = [conns EXCEPT ![n] = c] /\ conns[n].at = "detach"
  BY DEF Detach
<1>5. UNCHANGED <<relayVars, viewer>>
  BY DEF Detach
<1>6. PICK left : left = [h EXCEPT !.subs = h.subs \ {n}]
  OBVIOUS
<1>7. hub' = hub \/ hub' = [hub EXCEPT ![conns[n].replica] = left]
  BY <1>6 DEF Detach
<1>8. h \in Hubs
  BY <1>1, <1>2
<1>9. left \in Hubs /\ left.subs \subseteq h.subs /\ left.history = h.history
  BY <1>6, <1>8 DEF Hubs
<1>10. hub' \in [Replicas -> Hubs]
  BY <1>1, <1>2, <1>7, <1>9
<1>11. \A rep \in Replicas : /\ hub'[rep].subs \subseteq hub[rep].subs
                             /\ hub'[rep].history = hub[rep].history
  BY <1>1, <1>2, <1>7, <1>9
<1> HIDE DEF c
<1> QED
  BY <1>1, <1>3, <1>4, <1>5, <1>10, <1>11, HandlerStep DEF Hubs

LEMMA TeardownFanout ==
    ASSUME FanoutInv, NEW n \in DOMAIN conns, Teardown(n)
    PROVE  FanoutInv'
<1>1. n \in 1..Len(conns) /\ conns \in Seq(Conns) /\ hub \in [Replicas -> Hubs]
  BY DEF FanoutInv, FanoutTypeOK, Hubs
<1>2. conns[n] \in Conns /\ conns[n].replica \in Replicas /\ 0 \in Nat
  BY <1>1, ConnFields
<1> DEFINE rp == conns[n].replica
           c == Closed(conns[n])
<1>3. c \in Conns /\ c.replica = conns[n].replica
  BY <1>2, ConnSteps
<1>4. conns' = [conns EXCEPT ![n] = c] /\ conns[n].at = "teardown"
  BY DEF Teardown
<1>5. UNCHANGED <<relayVars, viewer>>
  BY DEF Teardown
<1>6. PICK closed : closed = [NoHub EXCEPT !.gen = hub[rp].gen]
  OBVIOUS
<1>7. hub' = hub \/ hub' = [hub EXCEPT ![rp] = closed]
  BY <1>6 DEF Teardown
<1>8. closed \in Hubs /\ closed.history = <<>> /\ closed.subs = {}
  <2>1. hub[rp].gen \in Nat
    BY <1>1, <1>2 DEF Hubs
  <2>2. closed = [up |-> FALSE, gen |-> hub[rp].gen, history |-> <<>>, subs |-> {}]
    BY <1>6 DEF NoHub
  <2>3. <<>> \in Seq(Nat) /\ {} \in SUBSET Nat /\ FALSE \in BOOLEAN
    OBVIOUS
  <2> QED
    BY <2>1, <2>2, <2>3 DEF Hubs
<1>9. hub' \in [Replicas -> Hubs]
  BY <1>1, <1>2, <1>7, <1>8
<1>10. \A rep \in Replicas :
          /\ hub'[rep].subs \subseteq hub[rep].subs
          /\ \/ hub'[rep].history = hub[rep].history
             \/ hub'[rep].history = <<>> /\ hub'[rep].subs = {}
  <2> SUFFICES ASSUME NEW rep \in Replicas
               PROVE  hub'[rep] = hub[rep] \/ hub'[rep] = closed
    BY <1>8
  <2> QED
    BY <1>1, <1>2, <1>7
<1> HIDE DEF c
<1> QED
  BY <1>1, <1>3, <1>4, <1>5, <1>9, <1>10, HandlerStep DEF Hubs

\* A client that is gone has nothing under way.
LEMMA LeaveFanout ==
    ASSUME FanoutInv, NEW w \in Viewers, Leave(w)
    PROVE  FanoutInv'
<1>1. /\ UNCHANGED <<relayVars, hub, conns>>
      /\ viewer' = [viewer EXCEPT ![w].conn = 0]
  BY DEF Leave
<1>2. FanoutTypeOK'
  <2>1. viewer' \in [Viewers -> [conn : Nat, lastId : Nat, seen : Seq(Nat), lagged : BOOLEAN]]
    BY <1>1 DEF FanoutInv, FanoutTypeOK
  <2> QED
    BY <1>1, <2>1 DEF FanoutInv, FanoutTypeOK, Conns
<1>3. HubInv'
  BY <1>1 DEF FanoutInv, HubInv, relayVars, CountsFrom
<1>4. RelayInv'
  BY <1>1, RelayInvStep DEF FanoutInv, relayVars
<1>5. Grows
  BY <1>1 DEF FanoutInv, RelayInv, RelayTypeOK, relayVars, Grows
<1>6. ASSUME NEW v \in Viewers
      PROVE  ShownInv(v)' /\ ConnInv(v)'
  <2>1. /\ viewer'[v].seen = viewer[v].seen /\ viewer'[v].lastId = viewer[v].lastId
        /\ viewer'[v].lagged = viewer[v].lagged
        /\ v = w => viewer'[v].conn = 0
        /\ v # w => viewer'[v] = viewer[v]
    BY <1>1 DEF FanoutInv, FanoutTypeOK
  <2>2. ShownInv(v)'
    BY <1>5, <2>1, ShownKept DEF FanoutInv
  <2>3. CASE v = w
    BY <2>1, <2>2, <2>3 DEF ConnInv
  <2>4. CASE v # w
    <3>1. viewer[v].conn # 0 => viewer[v].conn \in 1..Len(conns)
      BY DEF FanoutInv, ConnInv
    <3>2. ConnInv(v)'
      BY <1>1, <1>5, <2>1, <2>4, <3>1, ConnKept DEF FanoutInv
    <3> QED
      BY <2>2, <3>2
  <2> QED
    BY <2>3, <2>4
<1> QED
  BY <1>2, <1>3, <1>4, <1>6 DEF FanoutInv

\* A viewer with another connection does not notice what becomes of one.
LEMMA OtherViewer ==
    ASSUME FanoutInv, UNCHANGED <<relayVars, hub>>,
           NEW n \in 1..Len(conns), NEW c \in Conns,
           conns' = [conns EXCEPT ![n] = c],
           NEW v \in Viewers, viewer'[v] = viewer[v], viewer[v].conn # n
    PROVE  ShownInv(v)' /\ ConnInv(v)'
<1>1. Grows
  BY DEF FanoutInv, RelayInv, RelayTypeOK, relayVars, Grows
<1>2. ShownInv(v)'
  BY <1>1, ShownKept DEF FanoutInv
<1>3. /\ Len(conns') = Len(conns)
      /\ \A m \in 1..Len(conns) : m # n => conns'[m] = conns[m]
  BY ConnReplaced DEF FanoutInv, FanoutTypeOK
<1>4. viewer[v].conn # 0 => viewer[v].conn \in 1..Len(conns)
  BY DEF FanoutInv, ConnInv
<1>5. viewer[v].conn # 0 => /\ viewer[v].conn \in 1..Len(conns')
                            /\ conns'[viewer[v].conn] = conns[viewer[v].conn]
  BY <1>3, <1>4
<1>6. ConnInv(v)'
  BY <1>1, <1>5, ConnKept DEF FanoutInv
<1> QED
  BY <1>2, <1>6

\* One connection changed: the hubs and the relays are as they were.
LEMMA HubsKept ==
    ASSUME FanoutInv, UNCHANGED <<relayVars, hub>>,
           NEW n \in 1..Len(conns), NEW c \in Conns, c.replica = conns[n].replica,
           conns' = [conns EXCEPT ![n] = c],
           viewer' \in [Viewers -> [conn : Nat, lastId : Nat, seen : Seq(Nat),
                                    lagged : BOOLEAN]]
    PROVE  RelayInv' /\ FanoutTypeOK' /\ HubInv'
<1>1. /\ conns' \in Seq(Conns) /\ Len(conns') = Len(conns)
      /\ conns'[n] = c
      /\ \A m \in 1..Len(conns) : m # n => conns'[m] = conns[m]
  BY ConnReplaced DEF FanoutInv, FanoutTypeOK
<1>2. FanoutTypeOK'
  BY <1>1 DEF FanoutInv, FanoutTypeOK, Conns
<1>3. RelayInv'
  BY RelayInvStep DEF FanoutInv, relayVars
<1>4. HubInv'
  BY <1>1 DEF FanoutInv, HubInv, relayVars, CountsFrom
<1> QED
  BY <1>2, <1>3, <1>4

LEMMA ReturnFanout ==
    ASSUME FanoutInv, NEW n \in DOMAIN conns, Return(n)
    PROVE  FanoutInv'
<1>1. n \in 1..Len(conns) /\ conns \in Seq(Conns) /\ 0 \in Nat
  BY DEF FanoutInv, FanoutTypeOK
<1>2. PICK w \in Viewers : w = conns[n].viewer
  BY <1>1, ConnFields
<1>3. PICK c : c = Returned(conns[n])
  OBVIOUS
<1>4. c \in Conns /\ c.replica = conns[n].replica
  BY <1>1, <1>3, ConnFields, ConnSteps
<1>5. /\ UNCHANGED <<relayVars, hub>>
      /\ conns' = [conns EXCEPT ![n] = c]
      /\ viewer' = [viewer EXCEPT ![w].conn = IF @ = n THEN 0 ELSE @]
  BY <1>2, <1>3 DEF Return
<1>6. viewer' \in [Viewers -> [conn : Nat, lastId : Nat, seen : Seq(Nat), lagged : BOOLEAN]]
  BY <1>5 DEF FanoutInv, FanoutTypeOK
<1>7. ASSUME NEW v \in Viewers
      PROVE  ShownInv(v)' /\ ConnInv(v)'
  <2>1. CASE viewer[v].conn = n
    <3>1. n # 0 /\ v = w
      BY <1>1, <1>2, <2>1 DEF FanoutInv, ConnInv
    <3>2. /\ viewer'[v].seen = viewer[v].seen /\ viewer'[v].lastId = viewer[v].lastId
          /\ viewer'[v].lagged = viewer[v].lagged /\ viewer'[v].conn = 0
      BY <1>5, <2>1, <3>1 DEF FanoutInv, FanoutTypeOK
    <3>3. Grows
      BY <1>5 DEF FanoutInv, RelayInv, RelayTypeOK, relayVars, Grows
    <3>4. ShownInv(v)'
      BY <3>2, <3>3, ShownKept DEF FanoutInv
    <3> QED
      BY <3>2, <3>4 DEF ConnInv
  <2>2. CASE viewer[v].conn # n
    <3>1. viewer'[v] = viewer[v]
      BY <1>5, <2>2 DEF FanoutInv, FanoutTypeOK
    <3> QED
      BY <1>1, <1>4, <1>5, <2>2, <3>1, OtherViewer
  <2> QED
    BY <2>1, <2>2
<1>8. RelayInv' /\ FanoutTypeOK' /\ HubInv'
  BY <1>1, <1>4, <1>5, <1>6, HubsKept
<1> QED
  BY <1>7, <1>8 DEF FanoutInv

\* The head of a run of entries, and the run without it.
LEMMA TailCounts ==
    ASSUME NEW s \in Seq(Nat), s # <<>>, NEW a \in Nat, CountsFrom(s, a)
    PROVE  /\ Head(s) = a + 1
           /\ Tail(s) \in Seq(Nat) /\ Len(s) \in Nat \ {0} /\ Len(Tail(s)) = Len(s) - 1
           /\ CountsFrom(Tail(s), a + 1)
<1>1. Len(s) \in Nat \ {0} /\ Tail(s) \in Seq(Nat) /\ Len(Tail(s)) = Len(s) - 1
  OBVIOUS
<1>2. Head(s) = s[1] /\ s[1] = a + 1
  BY <1>1 DEF CountsFrom
<1>3. ASSUME NEW k \in 1..Len(Tail(s))
      PROVE  Tail(s)[k] = a + 1 + k
  <2>1. Tail(s)[k] = s[k + 1] /\ k + 1 \in 1..Len(s)
    BY <1>1
  <2>2. s[k + 1] = a + (k + 1)
    BY <2>1 DEF CountsFrom
  <2> QED
    BY <2>1, <2>2
<1> QED
  BY <1>1, <1>2, <1>3 DEF CountsFrom

\* The entry a connection brings next, and the connection without it.
NextOf(c) == IF c.initial # <<>> THEN Head(c.initial) ELSE Head(c.ch)
Taken(c) == IF c.initial # <<>> THEN [c EXCEPT !.initial = Tail(@)]
            ELSE [c EXCEPT !.ch = Tail(@)]

LEMMA Delivered ==
    ASSUME NEW c \in Conns, NEW a \in Nat, c.initial # <<>> \/ c.ch # <<>>,
           CountsFrom(c.initial, a), CountsFrom(c.ch, a + Len(c.initial)),
           NEW d, d = NextOf(c), NEW e, e = Taken(c)
    PROVE  /\ d = a + 1
           /\ e \in Conns /\ e.replica = c.replica /\ e.viewer = c.viewer /\ e.at = c.at
           /\ CountsFrom(e.initial, a + 1) /\ CountsFrom(e.ch, a + 1 + Len(e.initial))
           /\ End(e, a + 1) = End(c, a)
           /\ a + 1 <= End(c, a)
<1>1. /\ c.initial \in Seq(Nat) /\ Len(c.initial) \in Nat
      /\ c.ch \in Seq(Nat) /\ Len(c.ch) \in Nat
  BY DEF Conns
<1>2. PICK i \in Nat, k \in Nat : i = Len(c.initial) /\ k = Len(c.ch)
  BY <1>1
<1>3. CASE c.initial # <<>>
  <2>1. e = [c EXCEPT !.initial = Tail(c.initial)] /\ d = Head(c.initial)
    BY <1>3 DEF NextOf, Taken
  <2>2. /\ d = a + 1 /\ Tail(c.initial) \in Seq(Nat)
        /\ i # 0 /\ Len(Tail(c.initial)) = i - 1
        /\ CountsFrom(Tail(c.initial), a + 1)
    BY <1>1, <1>2, <1>3, <2>1, TailCounts
  <2>3. /\ e \in Conns /\ e.replica = c.replica /\ e.viewer = c.viewer /\ e.at = c.at
        /\ e.initial = Tail(c.initial) /\ e.ch = c.ch
    BY <2>1, <2>2 DEF Conns
  <2>4. a + 1 + (i - 1) = a + i /\ a + 1 + (i - 1) + k = a + i + k /\ a + 1 <= a + i + k
    <3>1. i # 0
      BY <2>2
    <3> QED
      BY <3>1
  <2>5. CountsFrom(e.ch, a + 1 + Len(e.initial))
    BY <1>2, <2>2, <2>3, <2>4
  <2>6. End(e, a + 1) = End(c, a) /\ a + 1 <= End(c, a)
    BY <1>2, <2>2, <2>3, <2>4 DEF End
  <2> QED
    BY <2>2, <2>3, <2>5, <2>6
<1>4. CASE c.initial = <<>>
  <2>1. e = [c EXCEPT !.ch = Tail(c.ch)] /\ d = Head(c.ch) /\ c.ch # <<>> /\ i = 0
    BY <1>2, <1>4 DEF NextOf, Taken
  <2>2. CountsFrom(c.ch, a)
    BY <1>2, <2>1
  <2>3. /\ d = a + 1 /\ Tail(c.ch) \in Seq(Nat)
        /\ k # 0 /\ Len(Tail(c.ch)) = k - 1
        /\ CountsFrom(Tail(c.ch), a + 1)
    BY <1>1, <1>2, <2>1, <2>2, TailCounts
  <2>4. /\ e \in Conns /\ e.replica = c.replica /\ e.viewer = c.viewer /\ e.at = c.at
        /\ e.initial = <<>> /\ e.ch = Tail(c.ch)
    BY <1>4, <2>1, <2>3 DEF Conns
  <2>5. Len(e.initial) = 0 /\ CountsFrom(e.initial, a + 1)
    <3>1. Len(<<>>) = 0 /\ CountsFrom(<<>>, a + 1)
      BY DEF CountsFrom
    <3> QED
      BY <2>4, <3>1
  <2>6. CountsFrom(e.ch, a + 1 + Len(e.initial))
    BY <2>3, <2>4, <2>5
  <2>7. a + 1 + 0 + (k - 1) = a + 0 + k /\ a + 1 <= a + 0 + k
    <3>1. k # 0
      BY <2>3
    <3> QED
      BY <3>1
  <2>8. End(e, a + 1) = End(c, a) /\ a + 1 <= End(c, a)
    BY <1>2, <2>1, <2>3, <2>4, <2>5, <2>7 DEF End
  <2> QED
    BY <2>3, <2>4, <2>5, <2>6, <2>8
<1> QED
  BY <1>3, <1>4

\* The next entry is shown after everything before it.
LEMMA ShownNext ==
    ASSUME FanoutTypeOK, NEW v \in Viewers, ShownInv(v), UNCHANGED stream,
           NEW a \in Nat, a + 1 \in 1..Len(stream),
           viewer'[v].lastId = a + 1, viewer'[v].lagged = viewer[v].lagged,
           viewer'[v].seen = Append(viewer[v].seen, a + 1),
           \A x \in 1..a : \E j \in 1..Len(viewer[v].seen) : viewer[v].seen[j] = x,
           ~viewer[v].lagged => a = Len(viewer[v].seen)
    PROVE  /\ ShownInv(v)'
           /\ \A x \in 1..(a + 1) :
                 \E j \in 1..Len(viewer'[v].seen) : viewer'[v].seen[j] = x
           /\ ~viewer'[v].lagged => a + 1 = Len(viewer'[v].seen)
<1>1. PICK seen \in Seq(Nat) : seen = viewer[v].seen
  BY DEF FanoutTypeOK
<1>2. PICK N \in Nat : N = Len(seen)
  BY <1>1
<1>3. PICK more : more = Append(seen, a + 1)
  OBVIOUS
<1>4. /\ more \in Seq(Nat) /\ Len(more) = N + 1 /\ more[N + 1] = a + 1
      /\ \A i \in 1..N : more[i] = seen[i]
  BY <1>1, <1>2, <1>3
<1>5. viewer'[v].seen = more
  BY <1>1, <1>3
<1>6. \A x \in 1..(a + 1) : \E j \in 1..(N + 1) : more[j] = x
  <2> SUFFICES ASSUME NEW x \in 1..(a + 1) PROVE \E j \in 1..(N + 1) : more[j] = x
    OBVIOUS
  <2>1. CASE x = a + 1
    BY <1>4, <2>1
  <2>2. CASE x # a + 1
    <3>1. x \in 1..a
      BY <2>2
    <3>2. PICK j \in 1..N : seen[j] = x
      BY <1>1, <1>2, <3>1
    <3> QED
      BY <1>4, <3>2
  <2> QED
    BY <2>1, <2>2
<1>7. \A i \in 1..(N + 1) : /\ more[i] \in 1..Len(stream)
                            /\ \A x \in 1..more[i] : \E j \in 1..i : more[j] = x
  <2> SUFFICES ASSUME NEW i \in 1..(N + 1)
               PROVE  /\ more[i] \in 1..Len(stream)
                      /\ \A x \in 1..more[i] : \E j \in 1..i : more[j] = x
    OBVIOUS
  <2>1. CASE i = N + 1
    BY <1>4, <1>6, <2>1
  <2>2. CASE i # N + 1
    <3>1. i \in 1..N /\ more[i] = seen[i]
      BY <1>4, <2>2
    <3>2. seen[i] \in 1..Len(stream) /\ \A x \in 1..seen[i] : \E j \in 1..i : seen[j] = x
      BY <1>1, <1>2, <3>1 DEF ShownInv
    <3>3. \A j \in 1..i : more[j] = seen[j]
      BY <1>4, <3>1
    <3> QED
      BY <3>1, <3>2, <3>3
  <2> QED
    BY <2>1, <2>2
<1>8. LastOf(more) = a + 1
  <2>1. more # <<>>
    BY <1>4
  <2> QED
    BY <1>4, <2>1 DEF LastOf
<1>9. ~viewer[v].lagged => CountsFrom(more, 0)
  <2> SUFFICES ASSUME ~viewer[v].lagged, NEW i \in 1..(N + 1) PROVE more[i] = i
    BY <1>4 DEF CountsFrom
  <2>1. CASE i = N + 1
    BY <1>1, <1>2, <1>4, <2>1
  <2>2. CASE i \in 1..N
    <3>1. seen[i] = i
      BY <1>1, <1>2, <2>2 DEF ShownInv, CountsFrom
    <3> QED
      BY <1>4, <2>2, <3>1
  <2> QED
    BY <2>1, <2>2
<1>10. ShownInv(v)'
  <2>1. viewer'[v].lastId = LastOf(viewer'[v].seen)
    BY <1>5, <1>8
  <2>2. \A i \in 1..Len(viewer'[v].seen) :
           /\ viewer'[v].seen[i] \in 1..Len(stream')
           /\ \A x \in 1..viewer'[v].seen[i] : \E j \in 1..i : viewer'[v].seen[j] = x
    BY <1>4, <1>5, <1>7
  <2>3. ~viewer'[v].lagged => CountsFrom(viewer'[v].seen, 0)
    BY <1>5, <1>9
  <2> QED
    BY <2>1, <2>2, <2>3 DEF ShownInv, LastOf, CountsFrom
<1> QED
  BY <1>1, <1>2, <1>4, <1>5, <1>6, <1>10

LEMMA DeliverFanout ==
    ASSUME FanoutInv, NEW n \in DOMAIN conns, Deliver(n)
    PROVE  FanoutInv'
<1>1. n \in 1..Len(conns) /\ conns \in Seq(Conns)
  BY DEF FanoutInv, FanoutTypeOK
<1>2. PICK c \in Conns : c = conns[n]
  BY <1>1, ConnFields
<1>3. PICK w \in Viewers : w = c.viewer
  BY <1>2 DEF Conns
<1>4. PICK d : d = NextOf(c)
  OBVIOUS
<1>5. PICK e : e = Taken(c)
  OBVIOUS
<1>6. /\ viewer[w].conn = n /\ (c.initial # <<>> \/ c.ch # <<>>)
      /\ conns' = [conns EXCEPT ![n] = e]
      /\ viewer' = [viewer EXCEPT ![w].lastId = d, ![w].seen = Append(@, d)]
      /\ UNCHANGED <<relayVars, hub>>
  BY <1>2, <1>3, <1>4, <1>5 DEF Deliver, NextOf, Taken
<1>7. PICK a \in Nat : UnderWay(w, a)
  BY <1>1, <1>6 DEF FanoutInv, ConnInv
<1>8. /\ CountsFrom(c.initial, a) /\ CountsFrom(c.ch, a + Len(c.initial))
      /\ End(c, a) <= Len(stream)
      /\ \A x \in 1..a : \E j \in 1..Len(viewer[w].seen) : viewer[w].seen[j] = x
      /\ ~viewer[w].lagged => a = Len(viewer[w].seen)
      /\ \A rep \in Replicas : n \in hub[rep].subs => Len(hub[rep].history) = End(c, a)
  BY <1>2, <1>6, <1>7 DEF UnderWay
<1>9. /\ d = a + 1
      /\ e \in Conns /\ e.replica = c.replica /\ e.viewer = c.viewer /\ e.at = c.at
      /\ CountsFrom(e.initial, a + 1) /\ CountsFrom(e.ch, a + 1 + Len(e.initial))
      /\ End(e, a + 1) = End(c, a)
      /\ a + 1 <= End(c, a)
  BY <1>4, <1>5, <1>6, <1>8, Delivered
<1>10. a + 1 \in 1..Len(stream)
  <2>1. Len(stream) \in Nat
    BY DEF FanoutInv, RelayInv, RelayTypeOK
  <2>2. End(conns[n], a) \in Nat
    BY <1>1, EndIsNat
  <2>3. PICK end \in Nat : end = End(c, a)
    BY <1>2, <2>2
  <2>4. end <= Len(stream) /\ a + 1 <= end
    BY <1>8, <1>9, <2>3
  <2> QED
    BY <2>1, <2>4
<1>11. viewer \in [Viewers -> [conn : Nat, lastId : Nat, seen : Seq(Nat), lagged : BOOLEAN]]
  BY DEF FanoutInv, FanoutTypeOK
<1>12. /\ viewer'[w].lastId = a + 1 /\ viewer'[w].seen = Append(viewer[w].seen, a + 1)
       /\ viewer'[w].lagged = viewer[w].lagged /\ viewer'[w].conn = n
       /\ \A v \in Viewers : v # w => viewer'[v] = viewer[v]
  BY <1>6, <1>9, <1>11
<1>13. viewer' \in [Viewers -> [conn : Nat, lastId : Nat, seen : Seq(Nat), lagged : BOOLEAN]]
  <2>1. d \in Nat /\ Append(viewer[w].seen, d) \in Seq(Nat)
    BY <1>9, <1>11
  <2> QED
    BY <1>6, <1>11, <2>1
<1>14. RelayInv' /\ FanoutTypeOK' /\ HubInv'
  BY <1>1, <1>2, <1>6, <1>9, <1>13, HubsKept
<1>15. /\ ShownInv(w)'
       /\ \A x \in 1..(a + 1) : \E j \in 1..Len(viewer'[w].seen) : viewer'[w].seen[j] = x
       /\ ~viewer'[w].lagged => a + 1 = Len(viewer'[w].seen)
  BY <1>6, <1>8, <1>10, <1>12, ShownNext DEF FanoutInv, relayVars
<1>16. ConnInv(w)'
  <2>1. conns'[n] = e /\ Len(conns') = Len(conns)
    BY <1>1, <1>6
  <2>2. conns'[n].viewer = w /\ conns'[n].at = "open"
    BY <1>1, <1>2, <1>3, <1>6, <1>9, <2>1 DEF FanoutInv, ConnInv
  <2>3. stream' = stream /\ hub' = hub
    BY <1>6 DEF relayVars
  <2>4. UnderWay(w, a + 1)'
    BY <1>8, <1>9, <1>12, <1>15, <2>1, <2>3 DEF UnderWay
  <2>5. a + 1 \in Nat
    OBVIOUS
  <2> QED
    BY <1>1, <1>12, <2>1, <2>2, <2>4, <2>5 DEF ConnInv
<1>17. ASSUME NEW v \in Viewers, v # w
       PROVE  ShownInv(v)' /\ ConnInv(v)'
  <2>1. viewer'[v] = viewer[v]
    BY <1>12, <1>17
  <2>2. viewer[v].conn # n
    BY <1>1, <1>2, <1>3, <1>17 DEF FanoutInv, ConnInv
  <2> QED
    BY <1>1, <1>6, <1>9, <2>1, <2>2, OtherViewer
<1> QED
  BY <1>14, <1>15, <1>16, <1>17 DEF FanoutInv

\* A run of entries with the next one appended.
LEMMA AppendCounts ==
    ASSUME NEW s \in Seq(Nat), NEW a \in Nat, CountsFrom(s, a),
           NEW d \in Nat, d = a + Len(s) + 1
    PROVE  /\ Append(s, d) \in Seq(Nat)
           /\ Len(Append(s, d)) = Len(s) + 1
           /\ CountsFrom(Append(s, d), a)
<1>1. PICK N \in Nat : N = Len(s)
  OBVIOUS
<1>2. /\ Append(s, d) \in Seq(Nat) /\ Len(Append(s, d)) = N + 1
      /\ Append(s, d)[N + 1] = d /\ \A k \in 1..N : Append(s, d)[k] = s[k]
  BY <1>1
<1>3. ASSUME NEW k \in 1..(N + 1)
      PROVE  Append(s, d)[k] = a + k
  <2>1. CASE k = N + 1
    <3>1. a + N + 1 = a + (N + 1)
      OBVIOUS
    <3> QED
      BY <1>1, <1>2, <2>1, <3>1
  <2>2. CASE k \in 1..N
    BY <1>1, <1>2, <2>2 DEF CountsFrom
  <2>3. k = N + 1 \/ k \in 1..N
    OBVIOUS
  <2> QED
    BY <2>1, <2>2, <2>3
<1> QED
  BY <1>1, <1>2, <1>3 DEF CountsFrom

\* The last entry of a hub's history is as many as it holds.
LEMMA LastCounts ==
    ASSUME NEW h \in Seq(Nat), CountsFrom(h, 0)
    PROVE  LastOf(h) = Len(h)
<1>1. CASE h = <<>>
  BY <1>1 DEF LastOf
<1>2. CASE h # <<>>
  <2>1. Len(h) \in 1..Len(h)
    BY <1>2
  <2> QED
    BY <1>2, <2>1 DEF LastOf, CountsFrom
<1> QED
  BY <1>1, <1>2

LEMMA BroadcastFanout ==
    ASSUME FanoutInv, NEW rep \in Replicas, Broadcast(rep)
    PROVE  FanoutInv'
<1>1. conns \in Seq(Conns) /\ hub \in [Replicas -> Hubs] /\ stream \in Seq(Nat \ {0})
  BY DEF FanoutInv, FanoutTypeOK, Hubs, RelayInv, RelayTypeOK
<1>2. PICK h \in Hubs : h = hub[rep]
  BY <1>1
<1>3. /\ h.history \in Seq(Nat) /\ Len(h.history) \in Nat /\ CountsFrom(h.history, 0)
      /\ \A m \in h.subs : m \in 1..Len(conns) /\ conns[m].replica = rep
  BY <1>2 DEF Hubs, FanoutInv, HubInv
<1>4. PICK next \in Nat : next = Len(h.history) + 1
  BY <1>3
<1>5. next = LastOf(h.history) + 1
  BY <1>3, <1>4, LastCounts
<1>6. PICK full : full = {n \in h.subs : Full(n)}
  OBVIOUS
<1>7. /\ next \in DOMAIN stream
      /\ hub' = [hub EXCEPT ![rep].history = Append(@, next), ![rep].subs = @ \ full]
      /\ conns' = [n \in DOMAIN conns |->
            IF n \in full THEN [conns[n] EXCEPT !.kicked = TRUE]
            ELSE IF n \in h.subs THEN [conns[n] EXCEPT !.ch = Append(@, next)]
            ELSE conns[n]]
      /\ UNCHANGED <<relayVars, viewer>>
  BY <1>2, <1>5, <1>6 DEF Broadcast
<1>8. /\ Append(h.history, next) \in Seq(Nat)
      /\ Len(Append(h.history, next)) = Len(h.history) + 1
      /\ CountsFrom(Append(h.history, next), 0)
  <2>1. next = 0 + Len(h.history) + 1
    BY <1>3, <1>4
  <2> QED
    BY <1>3, <2>1, AppendCounts
<1>9. PICK g \in Hubs : /\ g.history = Append(h.history, next) /\ g.subs = h.subs \ full
                        /\ hub' = [hub EXCEPT ![rep] = g]
  <2> DEFINE g == [h EXCEPT !.history = Append(@, next), !.subs = @ \ full]
  <2>1. g \in Hubs /\ g.history = Append(h.history, next) /\ g.subs = h.subs \ full
    BY <1>8 DEF Hubs
  <2>2. hub' = [hub EXCEPT ![rep] = g]
    BY <1>1, <1>2, <1>7 DEF Hubs
  <2> QED
    BY <2>1, <2>2
<1>10. /\ hub' \in [Replicas -> Hubs] /\ hub'[rep] = g
       /\ \A r \in Replicas : r # rep => hub'[r] = hub[r]
  BY <1>1, <1>9
<1>11. DOMAIN conns = 1..Len(conns) /\ Len(conns) \in Nat
  BY <1>1
<1>12. ASSUME NEW n \in 1..Len(conns)
       PROVE  /\ conns'[n] \in Conns
              /\ conns'[n].viewer = conns[n].viewer /\ conns'[n].at = conns[n].at
              /\ conns'[n].replica = conns[n].replica
              /\ conns'[n].initial = conns[n].initial
              /\ n \in h.subs \ full => conns'[n].ch = Append(conns[n].ch, next)
              /\ n \notin h.subs \ full => conns'[n].ch = conns[n].ch
  <2>1. conns[n] \in Conns /\ conns[n].ch \in Seq(Nat)
    BY <1>1, ConnFields
  <2>2. Append(conns[n].ch, next) \in Seq(Nat)
    BY <2>1
  <2>3. CASE n \in full
    BY <1>6, <1>7, <1>11, <2>1, <2>3 DEF Conns
  <2>4. CASE n \in h.subs \ full
    BY <1>7, <1>11, <2>1, <2>2, <2>4 DEF Conns
  <2>5. CASE n \notin h.subs /\ n \notin full
    BY <1>7, <1>11, <2>1, <2>5
  <2> QED
    BY <1>6, <2>3, <2>4, <2>5
<1>13. conns' \in Seq(Conns) /\ Len(conns') = Len(conns)
  <2>1. DOMAIN conns' = 1..Len(conns) /\ conns' = [n \in 1..Len(conns) |-> conns'[n]]
    BY <1>7, <1>11
  <2>2. \A n \in 1..Len(conns) : conns'[n] \in Conns
    BY <1>12
  <2>3. PICK s : s = conns'
    OBVIOUS
  <2>4. s = [n \in 1..Len(conns) |-> s[n]] /\ \A n \in 1..Len(conns) : s[n] \in Conns
    BY <2>1, <2>2, <2>3
  <2>5. s \in Seq(Conns) /\ Len(s) = Len(conns)
    BY <1>11, <2>4
  <2> QED
    BY <2>3, <2>5
<1>14. FanoutTypeOK'
  BY <1>7, <1>10, <1>13 DEF FanoutInv, FanoutTypeOK, Conns, Hubs
<1>15. RelayInv'
  BY <1>7, RelayInvStep DEF FanoutInv, relayVars
<1>16. stream' = stream /\ Len(stream) \in Nat /\ next \in 1..Len(stream)
  BY <1>1, <1>7 DEF relayVars
<1>17. Grows
  BY <1>16 DEF Grows
<1>18. HubInv'
  <2> SUFFICES ASSUME NEW r \in Replicas
               PROVE  /\ CountsFrom(hub'[r].history, 0)
                      /\ Len(hub'[r].history) <= Len(stream)
                      /\ \A m \in hub'[r].subs : m \in 1..Len(conns) /\ conns'[m].replica = r
    BY <1>13, <1>16 DEF HubInv, CountsFrom
  <2>1. /\ CountsFrom(hub[r].history, 0)
        /\ Len(hub[r].history) <= Len(stream)
        /\ \A m \in hub[r].subs : m \in 1..Len(conns) /\ conns[m].replica = r
    BY DEF FanoutInv, HubInv
  <2>2. CASE r = rep
    <3>1. hub'[r].history = Append(h.history, next) /\ hub'[r].subs \subseteq h.subs
      BY <1>9, <1>10, <2>2
    <3>2. Len(hub'[r].history) = next
      BY <1>4, <1>8, <3>1
    <3>3. \A m \in hub'[r].subs : m \in 1..Len(conns) /\ conns'[m].replica = r
      BY <1>3, <1>12, <2>2, <3>1
    <3> QED
      BY <1>8, <1>16, <3>1, <3>2, <3>3
  <2>3. CASE r # rep
    BY <1>10, <1>12, <2>1, <2>3
  <2> QED
    BY <2>2, <2>3
<1>19. ASSUME NEW v \in Viewers
       PROVE  ShownInv(v)' /\ ConnInv(v)'
  <2>1. viewer'[v] = viewer[v]
    BY <1>7
  <2>2. ShownInv(v)'
    BY <1>17, <2>1, ShownKept DEF FanoutInv
  <2>3. PICK n \in Nat : n = viewer[v].conn
    BY DEF FanoutInv, FanoutTypeOK
  <2>4. n # 0 => n \in 1..Len(conns)
    BY <2>3 DEF FanoutInv, ConnInv
  <2>5. CASE n \notin h.subs \ full
    <3>1. n # 0 => /\ n \in 1..Len(conns')
                   /\ conns'[n].viewer = conns[n].viewer
                   /\ conns'[n].at = conns[n].at
                   /\ conns'[n].initial = conns[n].initial
                   /\ conns'[n].ch = conns[n].ch
      BY <1>12, <1>13, <2>4, <2>5
    <3>2. \A r \in Replicas : n \in hub'[r].subs =>
               n \in hub[r].subs /\ hub'[r].history = hub[r].history
      BY <1>9, <1>10, <2>5
    <3>3. ConnInv(v)'
      BY <1>17, <2>1, <2>3, <3>1, <3>2, ConnKept DEF FanoutInv
    <3> QED
      BY <2>2, <3>3
  <2>6. CASE n \in h.subs \ full
    <3>1. n \in 1..Len(conns) /\ conns[n].replica = rep /\ n # 0
      BY <1>3, <2>6
    <3>2. PICK a \in Nat : UnderWay(v, a)
      BY <2>3, <3>1 DEF FanoutInv, ConnInv
    <3>3. PICK c \in Conns : c = conns[n]
      BY <1>1, <3>1, ConnFields
    <3>4. c.initial \in Seq(Nat) /\ c.ch \in Seq(Nat)
      BY <3>3 DEF Conns
    <3>5. PICK i \in Nat, k \in Nat : i = Len(c.initial) /\ k = Len(c.ch)
      <4>1. Len(c.initial) \in Nat /\ Len(c.ch) \in Nat
        BY <3>4
      <4> QED
        BY <4>1
    <3>6. /\ CountsFrom(c.initial, a) /\ CountsFrom(c.ch, a + i)
          /\ \A x \in 1..a : \E j \in 1..Len(viewer[v].seen) : viewer[v].seen[j] = x
          /\ ~viewer[v].lagged => a = Len(viewer[v].seen)
          /\ Len(h.history) = a + i + k
      BY <1>2, <2>3, <2>6, <3>2, <3>3, <3>5 DEF UnderWay, End
    <3>7. next = (a + i) + k + 1 /\ a + i \in Nat
      BY <1>4, <3>6
    <3>8. CountsFrom(Append(c.ch, next), a + i) /\ Len(Append(c.ch, next)) = k + 1
      BY <3>4, <3>5, <3>6, <3>7, AppendCounts
    <3>9. PICK e : e = conns'[n]
      OBVIOUS
    <3>10. /\ e.viewer = v /\ e.at = "open"
           /\ e.initial = c.initial /\ e.ch = Append(c.ch, next)
      BY <1>12, <2>3, <2>6, <3>1, <3>3, <3>9 DEF FanoutInv, ConnInv
    <3>11. End(e, a) = next
      <4>1. a + i + (k + 1) = next
        BY <3>7
      <4> QED
        BY <3>5, <3>8, <3>10, <4>1 DEF End
    <3>12. \A r \in Replicas : n \in hub'[r].subs => Len(hub'[r].history) = next
      <4> SUFFICES ASSUME NEW r \in Replicas, n \in hub'[r].subs
                   PROVE  Len(hub'[r].history) = next
        OBVIOUS
      <4>1. r = rep
        BY <1>10, <3>1 DEF FanoutInv, HubInv
      <4> QED
        BY <1>4, <1>8, <1>9, <1>10, <4>1
    <3>13. UnderWay(v, a)'
      <4>1. End(e, a) <= Len(stream')
        BY <1>16, <3>11
      <4>2. /\ CountsFrom(e.initial, a) /\ CountsFrom(e.ch, a + Len(e.initial))
        BY <3>5, <3>6, <3>8, <3>10
      <4>3. viewer'[v].conn = n /\ conns'[n] = e
        BY <2>1, <2>3, <3>9
      <4>4. /\ \A x \in 1..a : \E j \in 1..Len(viewer'[v].seen) : viewer'[v].seen[j] = x
            /\ ~viewer'[v].lagged => a = Len(viewer'[v].seen)
        BY <2>1, <3>6
      <4>5. \A r \in Replicas : n \in hub'[r].subs => Len(hub'[r].history) = End(e, a)
        BY <3>11, <3>12
      <4> QED
        BY <4>1, <4>2, <4>3, <4>4, <4>5 DEF UnderWay
    <3>14. ConnInv(v)'
      BY <1>13, <2>1, <2>3, <3>1, <3>9, <3>10, <3>13 DEF ConnInv
    <3> QED
      BY <2>2, <3>14
  <2> QED
    BY <2>5, <2>6
<1> QED
  BY <1>14, <1>15, <1>18, <1>19 DEF FanoutInv

\* The hub that a subscriber joins holds the stream up to some entry, whether it
\* was there, is loaded, or starts empty because the preload failed.
LEMMA OpenedHub ==
    ASSUME FanoutInv, NEW rep \in Replicas, NEW h \in Opened(hub[rep])
    PROVE  /\ h \in Hubs /\ CountsFrom(h.history, 0)
           /\ Len(h.history) \in Nat /\ Len(h.history) <= Len(stream)
           /\ h = hub[rep] \/ h.subs = {}
<1>1. hub[rep] \in Hubs /\ hub[rep].gen \in Nat /\ stream \in Seq(Nat \ {0})
  BY DEF FanoutInv, FanoutTypeOK, Hubs, RelayInv, RelayTypeOK
<1>2. CASE hub[rep].up
  <2>1. h = hub[rep]
    BY <1>2 DEF Opened
  <2> QED
    BY <1>1, <2>1 DEF FanoutInv, HubInv, Hubs
<1>3. CASE ~hub[rep].up
  <2>1. PICK past \in {[i \in DOMAIN stream |-> i], <<>>} :
             h = [up |-> TRUE, gen |-> hub[rep].gen + 1, history |-> past, subs |-> {}]
    BY <1>3 DEF Opened
  <2>2. PICK L \in Nat : L = Len(stream) /\ DOMAIN stream = 1..L
    BY <1>1
  <2>3. past \in Seq(Nat) /\ CountsFrom(past, 0) /\ Len(past) \in Nat /\ Len(past) <= L
    <3>1. CASE past = <<>>
      BY <3>1 DEF CountsFrom
    <3>2. CASE past = [i \in DOMAIN stream |-> i]
      <4>1. past = [i \in 1..L |-> i]
        BY <2>2, <3>2
      <4>2. past \in Seq(Nat) /\ Len(past) = L
        BY <4>1
      <4>3. \A k \in 1..L : past[k] = 0 + k
        BY <4>1
      <4> QED
        BY <4>2, <4>3 DEF CountsFrom
    <3> QED
      BY <2>1, <3>1, <3>2
  <2>4. hub[rep].gen + 1 \in Nat /\ TRUE \in BOOLEAN /\ {} \in SUBSET Nat
    BY <1>1
  <2>5. h \in Hubs /\ h.history = past /\ h.subs = {}
    BY <2>1, <2>3, <2>4 DEF Hubs
  <2> QED
    BY <2>2, <2>3, <2>5
<1> QED
  BY <1>2, <1>3

\* A new connection starts where the viewer left off, or where its hub is if that
\* is further back: it has been shown everything up to there.
LEMMA NewConnection ==
    ASSUME Burst <= 10, FanoutInv, NEW v \in Viewers,
           NEW h \in Hubs, CountsFrom(h.history, 0), Len(h.history) <= Len(stream)
    PROVE  LET initial == FilterAfter(h.history, viewer[v].lastId)
           IN  /\ initial \in Seq(Nat)
               /\ \E a \in Nat :
                    /\ CountsFrom(initial, a)
                    /\ a + Len(initial) = Len(h.history)
                    /\ \A x \in 1..a : \E j \in 1..Len(viewer[v].seen) : viewer[v].seen[j] = x
                    /\ ~viewer[v].lagged /\ ~(viewer[v].lastId > LastOf(h.history))
                       => a = Len(viewer[v].seen)
<1> DEFINE initial == FilterAfter(h.history, viewer[v].lastId)
<1>1. PICK last \in Nat : last = viewer[v].lastId
  BY DEF FanoutInv, FanoutTypeOK
<1>2. PICK seen \in Seq(Nat) : seen = viewer[v].seen
  BY DEF FanoutInv, FanoutTypeOK
<1>3. PICK N \in Nat : N = Len(seen)
  BY <1>2
<1>4. h.history \in Seq(Nat)
  BY DEF Hubs
<1>5. PICK L \in Nat : L = Len(h.history)
  BY <1>4
<1>6. PICK a \in 0..L :
          /\ last <= L => a = last
          /\ last > L => a = L
          /\ initial \in Seq(Nat) /\ Len(initial) = L - a /\ CountsFrom(initial, a)
  BY <1>1, <1>4, <1>5, Backlog
<1>7. a + Len(initial) = L /\ a \in Nat /\ a <= last
  BY <1>6
<1>8. LastOf(h.history) = L
  BY <1>4, <1>5, LastCounts
<1>9. ShownInv(v)
  BY DEF FanoutInv
<1>10. \A x \in 1..a : \E j \in 1..N : seen[j] = x
  <2> SUFFICES ASSUME NEW x \in 1..a PROVE \E j \in 1..N : seen[j] = x
    OBVIOUS
  <2>1. N # 0 /\ seen[N] = last
    <3>1. last # 0
      BY <1>7
    <3>2. last = LastOf(seen)
      BY <1>1, <1>2, <1>9 DEF ShownInv
    <3>3. seen # <<>>
      BY <3>1, <3>2 DEF LastOf
    <3> QED
      BY <1>3, <3>2, <3>3 DEF LastOf
  <2>2. x \in 1..seen[N] /\ N \in 1..N
    BY <1>7, <2>1
  <2> QED
    BY <1>2, <1>3, <1>9, <2>2 DEF ShownInv
<1>11. ~viewer[v].lagged /\ ~(last > L) => a = N
  <2> SUFFICES ASSUME ~viewer[v].lagged, ~(last > L) PROVE a = N
    OBVIOUS
  <2>1. a = last
    BY <1>6
  <2>2. CountsFrom(seen, 0) /\ last = LastOf(seen)
    BY <1>1, <1>2, <1>9 DEF ShownInv
  <2> QED
    BY <1>3, <2>1, <2>2, LastCounts
<1> HIDE DEF initial
<1>12. ~viewer[v].lagged /\ ~(viewer[v].lastId > LastOf(h.history)) => a = Len(viewer[v].seen)
  BY <1>1, <1>2, <1>3, <1>8, <1>11
<1>13. \A x \in 1..a : \E j \in 1..Len(viewer[v].seen) : viewer[v].seen[j] = x
  BY <1>2, <1>3, <1>10
<1>14. a \in Nat /\ CountsFrom(initial, a) /\ a + Len(initial) = Len(h.history)
  BY <1>5, <1>6, <1>7
<1>15. initial \in Seq(Nat)
  BY <1>6
<1> QED
  BY <1>12, <1>13, <1>14, <1>15 DEF initial

LEMMA SubscribeFanout ==
    ASSUME Burst <= 10, FanoutInv, NEW w \in Viewers, NEW rep \in Replicas,
           Subscribe(w, rep)
    PROVE  FanoutInv'
<1>1. conns \in Seq(Conns) /\ Len(conns) \in Nat /\ hub \in [Replicas -> Hubs]
  BY DEF FanoutInv, FanoutTypeOK, Hubs
<1>2. viewer \in [Viewers -> [conn : Nat, lastId : Nat, seen : Seq(Nat), lagged : BOOLEAN]]
  BY DEF FanoutInv, FanoutTypeOK
<1>3. PICK n \in Nat : n = Len(conns) + 1
  BY <1>1
<1>4. PICK h \in Opened(hub[rep]) :
        /\ viewer[w].conn = 0
        /\ hub' = [hub EXCEPT ![rep] = [h EXCEPT !.subs = @ \cup {n}]]
        /\ conns' = Append(conns,
               [viewer |-> w, replica |-> rep, gen |-> h.gen, at |-> "open",
                initial |-> FilterAfter(h.history, viewer[w].lastId),
                ch |-> <<>>, kicked |-> FALSE])
        /\ viewer' = [viewer EXCEPT ![w].conn = n,
               ![w].lagged = @ \/ viewer[w].lastId > LastOf(h.history)]
        /\ failed' = IF ~hub[rep].up /\ h.history = <<>> /\ stream # <<>>
                     THEN failed + 1 ELSE failed
        /\ UNCHANGED <<rows, published, stream, relay>>
  BY <1>3 DEF Subscribe
<1>5. /\ h \in Hubs /\ CountsFrom(h.history, 0)
      /\ Len(h.history) \in Nat /\ Len(h.history) <= Len(stream)
      /\ h = hub[rep] \/ h.subs = {}
  BY OpenedHub
<1>6. PICK initial \in Seq(Nat) : initial = FilterAfter(h.history, viewer[w].lastId)
  BY <1>5, NewConnection
<1>7. PICK a \in Nat :
        /\ CountsFrom(initial, a)
        /\ a + Len(initial) = Len(h.history)
        /\ \A x \in 1..a : \E j \in 1..Len(viewer[w].seen) : viewer[w].seen[j] = x
        /\ ~viewer[w].lagged /\ ~(viewer[w].lastId > LastOf(h.history))
           => a = Len(viewer[w].seen)
  BY <1>5, <1>6, NewConnection
<1>8. PICK c : c = [viewer |-> w, replica |-> rep, gen |-> h.gen, at |-> "open",
                    initial |-> initial, ch |-> <<>>, kicked |-> FALSE]
  OBVIOUS
<1>9. /\ c \in Conns /\ c.viewer = w /\ c.replica = rep /\ c.at = "open"
      /\ c.initial = initial /\ c.ch = <<>>
  <2>1. h.gen \in Nat /\ <<>> \in Seq(Nat) /\ FALSE \in BOOLEAN
    BY <1>5 DEF Hubs
  <2> QED
    BY <1>8, <2>1 DEF Conns
<1>10. conns' = Append(conns, c)
  BY <1>4, <1>6, <1>8
<1>11. /\ conns' \in Seq(Conns) /\ Len(conns') = n /\ conns'[n] = c
       /\ \A m \in 1..Len(conns) : conns'[m] = conns[m]
  BY <1>1, <1>3, <1>9, <1>10
<1>12. PICK g \in Hubs : /\ g.history = h.history /\ g.subs = h.subs \cup {n}
                         /\ hub' = [hub EXCEPT ![rep] = g]
  <2> DEFINE g == [h EXCEPT !.subs = @ \cup {n}]
  <2>1. g \in Hubs /\ g.history = h.history /\ g.subs = h.subs \cup {n}
    BY <1>5 DEF Hubs
  <2> QED
    BY <1>4, <2>1
<1>13. /\ hub' \in [Replicas -> Hubs] /\ hub'[rep] = g
       /\ \A r \in Replicas : r # rep => hub'[r] = hub[r]
  BY <1>1, <1>12
<1>14. PICK last : last = LastOf(h.history)
  OBVIOUS
<1>15. /\ viewer'[w].seen = viewer[w].seen /\ viewer'[w].lastId = viewer[w].lastId
       /\ viewer'[w].conn = n
       /\ ~viewer'[w].lagged => ~viewer[w].lagged /\ ~(viewer[w].lastId > last)
       /\ \A v \in Viewers : v # w => viewer'[v] = viewer[v]
  BY <1>2, <1>4, <1>14
<1>16. viewer' \in [Viewers -> [conn : Nat, lastId : Nat, seen : Seq(Nat), lagged : BOOLEAN]]
  BY <1>2, <1>4
<1>17. FanoutTypeOK'
  BY <1>11, <1>13, <1>16 DEF FanoutTypeOK, Conns, Hubs
<1>18. RelayInv'
  <2>1. failed' \in Nat
    BY <1>4 DEF FanoutInv, RelayInv, RelayTypeOK
  <2>2. InStream' = InStream
    BY <1>4 DEF InStream
  <2> QED
    BY <1>4, <2>1, <2>2 DEF FanoutInv, RelayInv, RelayTypeOK, StreamInOrder,
         MarkedIsInStream, DoneInStream, NoHole
<1>19. Grows /\ stream' = stream
  BY <1>4 DEF FanoutInv, RelayInv, RelayTypeOK, Grows
<1>20. HubInv'
  <2> SUFFICES ASSUME NEW r \in Replicas
               PROVE  /\ CountsFrom(hub'[r].history, 0)
                      /\ Len(hub'[r].history) <= Len(stream)
                      /\ \A m \in hub'[r].subs : m \in 1..n /\ conns'[m].replica = r
    BY <1>11, <1>19 DEF HubInv, CountsFrom
  <2>1. /\ CountsFrom(hub[r].history, 0)
        /\ Len(hub[r].history) <= Len(stream)
        /\ \A m \in hub[r].subs : m \in 1..Len(conns) /\ conns[m].replica = r
    BY DEF FanoutInv, HubInv
  <2>2. \A m \in hub[r].subs : m \in 1..n /\ conns'[m].replica = r
    <3>1. \A m \in 1..Len(conns) : m \in 1..n
      BY <1>1, <1>3
    <3> QED
      BY <1>11, <2>1, <3>1
  <2>3. CASE r = rep
    <3>1. \A m \in h.subs : m \in 1..n /\ conns'[m].replica = r
      BY <1>5, <2>2, <2>3
    <3>2. n \in 1..n /\ conns'[n].replica = r
      BY <1>3, <1>1, <1>9, <1>11, <2>3
    <3> QED
      BY <1>5, <1>12, <1>13, <2>3, <3>1, <3>2
  <2>4. CASE r # rep
    BY <1>13, <2>1, <2>2, <2>4
  <2> QED
    BY <2>3, <2>4
<1>21. ShownInv(w)'
  BY <1>15, <1>19, ShownKept DEF FanoutInv
<1>22. ConnInv(w)'
  <2>1. Len(<<>>) = 0 /\ CountsFrom(<<>>, a + Len(initial))
    BY DEF CountsFrom
  <2>2. End(c, a) = Len(h.history)
    <3>1. PICK i \in Nat : i = Len(initial)
      BY <1>6
    <3>2. a + i + 0 = Len(h.history)
      BY <1>7, <3>1
    <3> QED
      BY <1>9, <2>1, <3>1, <3>2 DEF End
  <2>3. \A r \in Replicas : n \in hub'[r].subs => Len(hub'[r].history) = End(c, a)
    <3> SUFFICES ASSUME NEW r \in Replicas, n \in hub'[r].subs
                 PROVE  Len(hub'[r].history) = End(c, a)
      OBVIOUS
    <3>1. r = rep
      BY <1>9, <1>11, <1>20 DEF HubInv
    <3> QED
      BY <1>12, <1>13, <2>2, <3>1
  <2>4. ~viewer'[w].lagged => a = Len(viewer'[w].seen)
    BY <1>7, <1>14, <1>15
  <2>5. \A x \in 1..a : \E j \in 1..Len(viewer'[w].seen) : viewer'[w].seen[j] = x
    BY <1>7, <1>15
  <2>6. End(c, a) <= Len(stream')
    BY <1>5, <1>19, <2>2
  <2>7. CountsFrom(c.initial, a) /\ CountsFrom(c.ch, a + Len(c.initial))
    BY <1>7, <1>9, <2>1
  <2>8. UnderWay(w, a)'
    BY <1>11, <1>15, <2>3, <2>4, <2>5, <2>6, <2>7 DEF UnderWay
  <2>9. n \in 1..Len(conns')
    BY <1>1, <1>3, <1>11
  <2> QED
    BY <1>9, <1>11, <1>15, <2>8, <2>9 DEF ConnInv
<1>23. ASSUME NEW v \in Viewers, v # w
       PROVE  ShownInv(v)' /\ ConnInv(v)'
  <2>1. viewer'[v] = viewer[v]
    BY <1>15, <1>23
  <2>2. ShownInv(v)'
    BY <1>19, <2>1, ShownKept DEF FanoutInv
  <2>3. PICK m \in Nat : m = viewer[v].conn
    BY <1>2
  <2>4. m # n
    BY <1>1, <1>3, <2>3 DEF FanoutInv, ConnInv
  <2>5. m # 0 => /\ m \in 1..Len(conns') /\ conns'[m] = conns[m]
    BY <1>1, <1>3, <1>11, <2>3 DEF FanoutInv, ConnInv
  <2>6. \A r \in Replicas : m \in hub'[r].subs =>
             m \in hub[r].subs /\ hub'[r].history = hub[r].history
    BY <1>5, <1>12, <1>13, <2>4
  <2>7. ConnInv(v)'
    BY <1>19, <2>1, <2>3, <2>5, <2>6, ConnKept DEF FanoutInv
  <2> QED
    BY <2>2, <2>7
<1> QED
  BY <1>17, <1>18, <1>20, <1>21, <1>22, <1>23 DEF FanoutInv

-----------------------------------------------------------------------------
(* What a spectator is promised. *)

LEMMA FanoutStep ==
    ASSUME Burst <= 10, FanoutInv, [Next]_vars
    PROVE  FanoutInv'
<1>1. CASE UNCHANGED vars
  <2>1. RelayInv'
    BY <1>1, RelayInvStep DEF FanoutInv, vars
  <2>2. Grows
    BY <1>1 DEF FanoutInv, RelayInv, RelayTypeOK, relayVars, vars, Grows
  <2> QED
    BY <1>1, <2>1, <2>2, StreamGrows DEF vars
<1>2. CASE RelayNext /\ UNCHANGED fanVars
  BY <1>2, RelayFanout
<1>3. ASSUME NEW v \in Viewers, Connect(v) \/ Leave(v)
      PROVE  FanoutInv'
  BY <1>3, SubscribeFanout, LeaveFanout DEF Connect
<1>4. ASSUME NEW rep \in Replicas, Broadcast(rep)
      PROVE  FanoutInv'
  BY <1>4, BroadcastFanout
<1>5. ASSUME NEW n \in DOMAIN conns, Deliver(n) \/ Return(n) \/ Unsubscribe(n)
      PROVE  FanoutInv'
  BY <1>5, DeliverFanout, ReturnFanout, LookupFanout, DetachFanout, TeardownFanout
     DEF Unsubscribe
<1> QED
  BY <1>1, <1>2, <1>3, <1>4, <1>5 DEF Next

\* What every spectator has been shown, what is under way to it and what its hub
\* holds fit together without a hole, in every state of any number of replicas,
\* viewers and relays.  Of the ids the proof needs that at most ten entries of one
\* game carry the same millisecond: filterAfter compares them as strings.
THEOREM FanoutInductive ==
    ASSUME Burst <= 10
    PROVE  Spec => []FanoutInv
<1>1. FanoutInv /\ [Next]_vars => FanoutInv'
  BY FanoutStep
<1> QED
  BY <1>1, FanoutInit, PTL DEF Spec

\* A spectator misses no move (attach, broadcast, drop, filterAfter and the page's
\* reconnection), whatever is kicked, lost, torn down or answered by another replica.
THEOREM NothingIsMissed ==
    ASSUME Burst <= 10
    PROVE  Spec => []NothingMissed
<1>1. FanoutInv => NothingMissed
  <2> SUFFICES ASSUME FanoutInv, NEW v \in Viewers, NEW i \in DOMAIN viewer[v].seen,
                      viewer[v].seen[i] > 1
               PROVE  \E j \in 1..(i - 1) : viewer[v].seen[j] = viewer[v].seen[i] - 1
    BY DEF NothingMissed
  <2>1. PICK seen \in Seq(Nat) : seen = viewer[v].seen
    BY DEF FanoutInv, FanoutTypeOK
  <2>2. i \in 1..Len(seen) /\ seen[i] \in Nat /\ seen[i] > 1 /\ i \in Nat
    BY <2>1
  <2>3. \A x \in 1..seen[i] : \E j \in 1..i : seen[j] = x
    BY <2>1, <2>2 DEF FanoutInv, ShownInv
  <2>4. PICK j \in 1..i : seen[j] = seen[i] - 1
    <3>1. seen[i] - 1 \in 1..seen[i]
      BY <2>2
    <3> QED
      BY <2>3, <3>1
  <2>5. j # i
    BY <2>2, <2>4
  <2>6. j \in 1..(i - 1)
    BY <2>2, <2>4, <2>5
  <2> QED
    BY <2>1, <2>4, <2>6
<1> QED
  BY <1>1, FanoutInductive, PTL

\* A spectator who has never joined a hub that was behind it is shown no entry
\* twice, however often it reconnects ("never sent twice", hub.go:116).
THEOREM DoublesOnlyByLag ==
    ASSUME Burst <= 10
    PROVE  Spec => []DoubledOnlyByLag
<1>1. FanoutInv => DoubledOnlyByLag
  <2> SUFFICES ASSUME FanoutInv, NEW v \in Viewers, ~viewer[v].lagged,
                      NEW i \in 1..(Len(viewer[v].seen) - 1)
               PROVE  viewer[v].seen[i] < viewer[v].seen[i + 1]
    BY DEF DoubledOnlyByLag, Increasing
  <2>1. PICK seen \in Seq(Nat) : seen = viewer[v].seen
    BY DEF FanoutInv, FanoutTypeOK
  <2>2. PICK N \in Nat : N = Len(seen)
    BY <2>1
  <2>3. i \in 1..N /\ i + 1 \in 1..N
    BY <2>1, <2>2
  <2>4. seen[i] = i /\ seen[i + 1] = i + 1
    <3>1. CountsFrom(seen, 0)
      BY <2>1 DEF FanoutInv, ShownInv
    <3>2. seen[i] = 0 + i /\ seen[i + 1] = 0 + (i + 1)
      BY <2>2, <2>3, <3>1 DEF CountsFrom
    <3> QED
      BY <2>3, <3>2
  <2> QED
    BY <2>1, <2>3, <2>4
<1> QED
  BY <1>1, FanoutInductive, PTL

\* Before a spectator is shown a move it has been shown every move before it: what
\* the relays promise of the stream (drainOnce) and the hubs of its entries
\* (attach, broadcast) add up.
MovesShownInOrder ==
    \A v \in Viewers : LET seen == viewer[v].seen IN
        \A i \in DOMAIN seen : \A ply \in 1..(stream[seen[i]] - 1) :
            \E j \in 1..(i - 1) : stream[seen[j]] = ply

\* From the outbox of the game-service to the page, no move overtakes another.
THEOREM MovesAreShownInOrder ==
    ASSUME Burst <= 10
    PROVE  Spec => []MovesShownInOrder
<1>1. FanoutInv => MovesShownInOrder
  <2> SUFFICES ASSUME FanoutInv, NEW v \in Viewers, NEW i \in DOMAIN viewer[v].seen,
                      NEW ply \in 1..(stream[viewer[v].seen[i]] - 1)
               PROVE  \E j \in 1..(i - 1) : stream[viewer[v].seen[j]] = ply
    BY DEF MovesShownInOrder
  <2>1. PICK seen \in Seq(Nat) : seen = viewer[v].seen
    BY DEF FanoutInv, FanoutTypeOK
  <2>2. i \in 1..Len(seen) /\ i \in Nat
    BY <2>1
  <2>3. PICK e \in Nat : e = seen[i] /\ e \in 1..Len(stream)
    BY <2>1, <2>2 DEF FanoutInv, ShownInv
  <2>4. e \in DOMAIN stream
    BY <2>3 DEF FanoutInv, RelayInv, RelayTypeOK
  <2>5. PICK x \in 1..(e - 1) : stream[x] = ply
    BY <2>1, <2>3, <2>4 DEF FanoutInv, RelayInv, StreamInOrder
  <2>6. PICK j \in 1..i : seen[j] = x
    <3>1. \A y \in 1..seen[i] : \E j \in 1..i : seen[j] = y
      BY <2>1, <2>2 DEF FanoutInv, ShownInv
    <3>2. x \in 1..seen[i]
      BY <2>3, <2>5
    <3> QED
      BY <3>1, <3>2
  <2>7. j # i
    BY <2>3, <2>5, <2>6
  <2>8. j \in 1..(i - 1)
    BY <2>2, <2>6, <2>7
  <2> QED
    BY <2>1, <2>5, <2>6, <2>8
<1> QED
  BY <1>1, FanoutInductive, PTL

\* A spectator who has never lagged is shown a move at most once for each relay and
\* once for each failure: hubs, kicks and reconnections add no copy of their own.
ShownBounded ==
    \A v \in Viewers : ~viewer[v].lagged =>
        \A ply \in InStream :
            Cardinality({i \in DOMAIN viewer[v].seen : stream[viewer[v].seen[i]] = ply})
                <= Cardinality(Relays) + failed

\* A failed preload counts as a failure too.
LEMMA SubscribeRepeat ==
    ASSUME RelayInv, RepeatInv, NEW v \in Viewers, NEW rep \in Replicas, Subscribe(v, rep)
    PROVE  RepeatInv'
<1>1. /\ failed' \in {failed, failed + 1} /\ failed \in Nat
      /\ UNCHANGED <<published, stream, relay>>
  BY DEF Subscribe, RelayInv, RelayTypeOK
<1>2. Apart' /\ IsFiniteSet(DOMAIN stream')
  BY <1>1 DEF RepeatInv, Apart
<1>3. ASSUME NEW ply \in Nat PROVE Accounted(ply)'
  <2>1. /\ Entries(ply)' = Entries(ply) /\ Appended(ply)' = Appended(ply)
        /\ Holding(ply)' = Holding(ply)
    BY <1>1 DEF Entries, Appended, Holding
  <2>2. Accounted(ply) /\ Cardinality(Entries(ply)) \in Nat
    BY EntriesCount DEF RepeatInv
  <2>3. /\ Cardinality(Appended(ply)) \in Nat /\ Cardinality(Holding(ply)) \in Nat
        /\ Cardinality(Relays) \in Nat
    BY RelayCounts DEF RepeatInv
  <2> QED
    BY <1>1, <2>1, <2>2, <2>3 DEF Accounted
<1> QED
  BY <1>2, <1>3 DEF RepeatInv

\* The copies of a move that a spectator sees are those the relays made (Append of
\* stream.go is retried after a failure); attach and filterAfter repeat none.
THEOREM CopiesShownAreBounded ==
    ASSUME Burst <= 10
    PROVE  Spec => []ShownBounded
<1>1. FanoutInv /\ RepeatInv /\ [Next]_vars => RepeatInv'
  <2> SUFFICES ASSUME FanoutInv, RepeatInv, [Next]_vars PROVE RepeatInv'
    OBVIOUS
  <2>1. [RelayNext]_relayVars \/ \E v \in Viewers, rep \in Replicas : Subscribe(v, rep)
    BY DEF Next, vars, Connect, Leave, Broadcast, Deliver, Return, Unsubscribe,
           Lookup, Detach, Teardown
  <2> QED
    BY <2>1, RepeatStep, SubscribeRepeat DEF FanoutInv
<1>2. FanoutInv /\ RepeatInv => ShownBounded
  <2> SUFFICES ASSUME FanoutInv, RepeatInv, NEW v \in Viewers, ~viewer[v].lagged,
                      NEW ply \in InStream
               PROVE  Cardinality({i \in DOMAIN viewer[v].seen :
                                      stream[viewer[v].seen[i]] = ply})
                          <= Cardinality(Relays) + failed
    BY DEF ShownBounded
  <2>1. PICK seen \in Seq(Nat) : seen = viewer[v].seen
    BY DEF FanoutInv, FanoutTypeOK
  <2>2. \A i \in DOMAIN seen : seen[i] = i /\ i \in DOMAIN stream
    <3>1. DOMAIN seen = 1..Len(seen) /\ DOMAIN stream = 1..Len(stream)
      BY DEF FanoutInv, RelayInv, RelayTypeOK
    <3>2. \A i \in 1..Len(seen) : seen[i] \in 1..Len(stream)
      BY <2>1 DEF FanoutInv, ShownInv
    <3>3. CountsFrom(seen, 0)
      BY <2>1 DEF FanoutInv, ShownInv
    <3>4. \A i \in 1..Len(seen) : seen[i] = i
      BY <3>3 DEF CountsFrom
    <3> QED
      BY <3>1, <3>2, <3>4
  <2>3. PICK copies : copies = {i \in DOMAIN seen : stream[seen[i]] = ply}
    OBVIOUS
  <2>4. copies \subseteq Entries(ply)
    BY <2>2, <2>3 DEF Entries
  <2>5. ply \in Nat /\ IsFiniteSet(Entries(ply))
    BY EntriesCount DEF FanoutInv, RepeatInv, RelayInv, RelayTypeOK
  <2>6. Cardinality(copies) <= Cardinality(Entries(ply)) /\ IsFiniteSet(copies)
    BY <2>4, <2>5, FS_Subset
  <2>7. Cardinality(Entries(ply)) <= Cardinality(Relays) + failed
    BY RepeatBound DEF FanoutInv
  <2>8. /\ Cardinality(copies) \in Nat /\ Cardinality(Entries(ply)) \in Nat
        /\ Cardinality(Relays) \in Nat /\ failed \in Nat
    BY <2>5, <2>6, FS_CardinalityType, RelayAssumption DEF FanoutInv, RelayInv, RelayTypeOK
  <2>9. Cardinality(copies) <= Cardinality(Relays) + failed
    BY <2>6, <2>7, <2>8
  <2> QED
    BY <2>1, <2>3, <2>9
<1>3. Init => RepeatInv
  BY RepeatInit DEF Init
<1> QED
  BY <1>1, <1>2, <1>3, FanoutInductive, PTL DEF Spec

-----------------------------------------------------------------------------
(* The live board. *)

Frames == [type : {"subscribe", "complete", "next", "error"}, id : Nat,
           game : Games \cup {None}, moves : Nat]

Subscriptions == [game : Games \cup {None}, at : {"none", "joined", "fetched", "relaying"},
                  current : Nat, buf : Seq(Nat)]

HttpRequests == [at : {"none", "opening", "stored", "answered"}, game : Games \cup {None},
                 moves : Nat, mine : BOOLEAN]

BoardTypeOK ==
    /\ stored \in [Games -> Nat] /\ lastPublished \in [Games -> Nat]
    /\ request \in [Requests -> HttpRequests]
    /\ opens \in Nat
    /\ shown \in [game : Games \cup {None}, moves : Nat, from : {"none", "call", "push"}]
    /\ active \in [id : Nat, game : Games \cup {None}]
    /\ nextId \in Nat \ {0}
    /\ up \in Seq(Frames) /\ down \in Seq(Frames)
    /\ subs \in [1..MaxOpens -> Subscriptions]

\* No answer and no update is ahead of what is stored.
NoneAhead ==
    /\ \A g \in Games : lastPublished[g] <= stored[g]
    /\ \A r \in Requests : request[r] # NoRequest =>
          /\ request[r].at # "none"
          /\ request[r].game \in Games
          /\ request[r].moves <= stored[request[r].game]

\* Every game that is opened takes one subscription id.
Opening == {r \in Requests : request[r].at = "opening"}
IdsLeft == Cardinality(Opening) + nextId <= opens + 1 /\ opens <= MaxOpens

\* An id is not used again, and what carries the wanted one is about the wanted game.
Update(frame) == frame.type = "next" /\ frame.id = active.id

IdsInv ==
    /\ active.id < nextId
    /\ active.id # 0 => active.game \in Games
    /\ \A k \in 1..Len(up) :
          /\ up[k].id < nextId
          /\ up[k].type = "subscribe" =>
                up[k].game \in Games /\ (up[k].id = active.id => up[k].game = active.game)
    /\ \A k \in 1..Len(down) :
          /\ down[k].id < nextId
          /\ Update(down[k]) => down[k].game = active.game
    /\ \A i \in 1..MaxOpens : subs[i].at # "none" =>
          /\ i < nextId
          /\ subs[i].game \in Games
          /\ i = active.id => subs[i].game = active.game

\* The newest of what the frames to the page and the board tell of the wanted game
\* is n moves.
Tells(n) ==
    \/ \E k \in 1..Len(down) :
          /\ Update(down[k]) /\ down[k].moves = n
          /\ \A j \in (k + 1)..Len(down) : ~Update(down[j])
    \/ /\ \A k \in 1..Len(down) : ~Update(down[k])
       /\ shown.from = "call" \/ (shown.game = active.game /\ shown.moves = n)

\* The newest update on its way to the board is the one published last; and if that
\* is the game as stored, a subscription that has nothing more to send has sent it.
NewestInv ==
    active.id # 0 =>
        LET s == subs[active.id]  g == active.game
        IN  s.at # "none" /\ ~missed =>
              /\ s.buf # <<>> => s.buf[Len(s.buf)] = lastPublished[g]
              /\ s.buf = <<>> /\ lastPublished[g] = stored[g] =>
                    /\ s.at = "fetched" => s.current = stored[g]
                    /\ s.at = "relaying" => Tells(stored[g])

BoardInv ==
    /\ BoardTypeOK
    /\ NoneAhead
    /\ IdsLeft
    /\ IdsInv
    /\ NewestInv

-----------------------------------------------------------------------------
(* What a step leaves alone. *)

LEMMA RequestsFinite ==
    /\ IsFiniteSet(Opening) /\ Cardinality(Opening) \in Nat
<1>1. MaxInFlight \in Int /\ 1 \in Int
  BY LiveBoardAssumption
<1>2. IsFiniteSet(Requests)
  BY <1>1, FS_Interval DEF Requests
<1>3. Opening \subseteq Requests
  BY DEF Opening
<1> QED
  BY <1>2, <1>3, FS_Subset, FS_CardinalityType

\* A request that begins or changes without opening a game.
LEMMA NotOpening ==
    ASSUME request \in [Requests -> HttpRequests], IdsLeft, NEW r \in Requests,
           NEW new, request' = [request EXCEPT ![r] = new],
           request[r].at # "opening", new.at # "opening",
           UNCHANGED <<opens, nextId>>
    PROVE  IdsLeft'
<1>1. Opening' = Opening
  BY DEF Opening
<1> QED
  BY <1>1 DEF IdsLeft

\* While the subscription, its frames and the board are untouched, the frames tell
\* what they told.
LEMMA TellsKept ==
    ASSUME NEW n, Tells(n), UNCHANGED <<active, down, shown>>
    PROVE  Tells(n)'
  BY DEF Tells, Update

\* The wanted subscription, its frames and the board are untouched, and the game is
\* as it was stored and published.
LEMMA NewestKept ==
    ASSUME NewestInv, UNCHANGED <<active, down, shown>>,
           active.id # 0 => /\ subs'[active.id] = subs[active.id]
                            /\ lastPublished'[active.game] = lastPublished[active.game]
                            /\ stored'[active.game] = stored[active.game],
           ~missed' => ~missed
    PROVE  NewestInv'
<1> SUFFICES ASSUME active.id # 0, subs[active.id].at # "none", ~missed
             PROVE  LET s == subs[active.id]  g == active.game
                    IN  /\ s.buf # <<>> => s.buf[Len(s.buf)] = lastPublished[g]
                        /\ s.buf = <<>> /\ lastPublished[g] = stored[g] =>
                              /\ s.at = "fetched" => s.current = stored[g]
                              /\ s.at = "relaying" => Tells(stored[g])'
  BY DEF NewestInv
<1>1. LET s == subs[active.id]  g == active.game
      IN  /\ s.buf # <<>> => s.buf[Len(s.buf)] = lastPublished[g]
          /\ s.buf = <<>> /\ lastPublished[g] = stored[g] =>
                /\ s.at = "fetched" => s.current = stored[g]
                /\ s.at = "relaying" => Tells(stored[g])
  BY DEF NewestInv
<1>2. Tells(stored[active.game]) => Tells(stored[active.game])'
  BY TellsKept
<1> QED
  BY <1>1, <1>2

LEMMA IdsKept ==
    ASSUME IdsInv, UNCHANGED <<active, nextId, up, down, subs>>
    PROVE  IdsInv'
  BY DEF IdsInv, Update

-----------------------------------------------------------------------------
(* The requests. *)

LEMMA BoardStart == BoardInit => BoardInv
<1> SUFFICES ASSUME BoardInit PROVE BoardInv
  OBVIOUS
<1>1. First \in Games /\ MaxOpens \in Nat \ {0} /\ MaxInFlight \in Nat \ {0}
  BY LiveBoardAssumption
<1>2. <<>> \in Seq(Frames) /\ <<>> \in Seq(Nat)
  OBVIOUS
<1>3. NoRequest \in HttpRequests /\ NoServed \in Subscriptions
  BY <1>2 DEF NoRequest, NoServed, HttpRequests, Subscriptions
<1>4. [NoRequest EXCEPT !.at = "opening", !.game = First, !.mine = TRUE] \in HttpRequests
  BY <1>1, <1>3 DEF HttpRequests
<1>5. BoardTypeOK
  BY <1>1, <1>2, <1>3, <1>4 DEF BoardInit, BoardTypeOK, NoSub, NoSubs, Snapshot
<1>6. NoneAhead
  BY <1>1 DEF BoardInit, NoneAhead, NoRequest
<1>7. IdsLeft
  <2>1. 1 \in Requests
    BY <1>1 DEF Requests
  <2>2. Opening = {1}
    BY <2>1 DEF BoardInit, Opening, NoRequest
  <2>3. Cardinality({1}) = 1
    BY FS_Singleton
  <2> QED
    BY <1>1, <2>2, <2>3 DEF BoardInit, IdsLeft
<1>8. IdsInv /\ NewestInv
  BY DEF BoardInit, IdsInv, NewestInv, NoSub, NoSubs, NoServed
<1> QED
  BY <1>5, <1>6, <1>7, <1>8 DEF BoardInv

LEMMA OpenBoard ==
    ASSUME BoardInv, NEW g \in Games, Open(g)
    PROVE  BoardInv'
<1>1. PICK new : new = [at |-> "opening", game |-> g, moves |-> stored[g], mine |-> TRUE]
  OBVIOUS
<1>2. PICK r \in Requests : request[r] = NoRequest /\ request' = [request EXCEPT ![r] = new]
  BY <1>1 DEF Open, Issue
<1>3. /\ opens < MaxOpens /\ opens' = opens + 1
      /\ UNCHANGED <<stored, shown, subscriber, gateway, history>>
  BY DEF Open
<1>4. stored[g] \in Nat /\ opens \in Nat /\ nextId \in Nat /\ MaxOpens \in Nat
  BY LiveBoardAssumption DEF BoardInv, BoardTypeOK
<1>5. /\ new \in HttpRequests /\ new.at = "opening" /\ new.game = g
      /\ new.moves = stored[g] /\ new # NoRequest
  BY <1>1, <1>4 DEF HttpRequests, NoRequest
<1>6. request \in [Requests -> HttpRequests]
  BY DEF BoardInv, BoardTypeOK
<1>7. request' \in [Requests -> HttpRequests] /\ request'[r] = new
      /\ \A q \in Requests : q # r => request'[q] = request[q]
  BY <1>2, <1>5, <1>6
<1>8. BoardTypeOK'
  BY <1>3, <1>4, <1>7 DEF BoardInv, BoardTypeOK, subscriber, gateway, history
<1>9. NoneAhead'
  BY <1>3, <1>4, <1>5, <1>7 DEF BoardInv, NoneAhead, history
<1>10. IdsLeft'
  <2>1. Opening' \subseteq Opening \cup {r}
    BY <1>7 DEF Opening
  <2>2. PICK old, now : old = Opening /\ now = Opening'
    OBVIOUS
  <2>3. IsFiniteSet(old) /\ Cardinality(old) \in Nat
    BY <2>2, RequestsFinite
  <2>4. IsFiniteSet(old \cup {r}) /\ Cardinality(old \cup {r}) <= Cardinality(old) + 1
        /\ Cardinality(old \cup {r}) \in Nat
    <3>1. /\ IsFiniteSet(old \cup {r})
          /\ Cardinality(old \cup {r}) = IF r \in old THEN Cardinality(old)
                                         ELSE Cardinality(old) + 1
      BY <2>3, FS_AddElement
    <3> QED
      BY <2>3, <3>1
  <2>5. Cardinality(now) <= Cardinality(old \cup {r}) /\ Cardinality(now) \in Nat
    BY <2>1, <2>2, <2>4, FS_Subset, FS_CardinalityType
  <2>6. Cardinality(old) + nextId <= opens + 1
    BY <2>2 DEF BoardInv, IdsLeft
  <2>7. Cardinality(now) + nextId <= opens + 1 + 1
    BY <1>4, <2>3, <2>4, <2>5, <2>6
  <2> QED
    BY <1>3, <1>4, <2>2, <2>7 DEF IdsLeft, subscriber
<1>11. IdsInv' /\ NewestInv'
  BY <1>3, IdsKept, NewestKept DEF BoardInv, subscriber, gateway, history
<1> QED
  BY <1>8, <1>9, <1>10, <1>11 DEF BoardInv

LEMMA MoveBoard ==
    ASSUME BoardInv, NEW g \in Games, NEW mine \in BOOLEAN, Move(g, mine)
    PROVE  BoardInv'
<1>1. PICK n \in Nat : n = stored[g] + 1
  BY DEF BoardInv, BoardTypeOK
<1>2. PICK new : new = [at |-> "stored", game |-> g, moves |-> n, mine |-> mine]
  OBVIOUS
<1>3. /\ stored' = [stored EXCEPT ![g] = n]
      /\ UNCHANGED <<shown, opens, subscriber, gateway, history>>
  BY <1>1 DEF Move
<1>4. stored \in [Games -> Nat] /\ lastPublished \in [Games -> Nat]
  BY DEF BoardInv, BoardTypeOK
<1>5. /\ stored' \in [Games -> Nat] /\ stored'[g] = n
      /\ \A x \in Games : x # g => stored'[x] = stored[x]
  BY <1>3, <1>4
<1>6. PICK r \in Requests : request[r] = NoRequest /\ request' = [request EXCEPT ![r] = new]
  BY <1>2, <1>5 DEF Move, Issue
<1>7. /\ new \in HttpRequests /\ new.at = "stored" /\ new.game = g
      /\ new.moves = n /\ new # NoRequest
  BY <1>2 DEF HttpRequests, NoRequest
<1>8. request \in [Requests -> HttpRequests]
  BY DEF BoardInv, BoardTypeOK
<1>9. request' \in [Requests -> HttpRequests] /\ request'[r] = new
      /\ \A q \in Requests : q # r => request'[q] = request[q]
  BY <1>6, <1>7, <1>8
<1>10. BoardTypeOK'
  BY <1>3, <1>5, <1>9 DEF BoardInv, BoardTypeOK, subscriber, gateway, history
<1>11. \A x \in Games : stored[x] <= stored'[x]
  BY <1>1, <1>4, <1>5
<1>12. NoneAhead'
  <2>1. \A x \in Games : lastPublished'[x] <= stored'[x]
    <3> SUFFICES ASSUME NEW x \in Games PROVE lastPublished[x] <= stored'[x]
      BY <1>3 DEF history
    <3>1. lastPublished[x] <= stored[x]
      BY DEF BoardInv, NoneAhead
    <3> QED
      BY <1>4, <1>5, <1>11, <3>1
  <2>2. ASSUME NEW q \in Requests, request'[q] # NoRequest
        PROVE  /\ request'[q].at # "none"
               /\ request'[q].game \in Games
               /\ request'[q].moves <= stored'[request'[q].game]
    <3>1. CASE q = r
      BY <1>5, <1>7, <1>9, <3>1
    <3>2. CASE q # r
      <4>1. PICK old \in HttpRequests : old = request[q] /\ request'[q] = old
        BY <1>8, <1>9, <3>2
      <4>2. old.at # "none" /\ old.game \in Games /\ old.moves <= stored[old.game]
        BY <2>2, <4>1 DEF BoardInv, NoneAhead
      <4>3. old.moves \in Nat /\ stored[old.game] \in Nat /\ stored'[old.game] \in Nat
        BY <1>4, <1>5, <4>2 DEF HttpRequests
      <4> QED
        BY <1>11, <4>1, <4>2, <4>3
    <3> QED
      BY <3>1, <3>2
  <2> QED
    BY <2>1, <2>2 DEF NoneAhead
<1>13. IdsLeft'
  <2>1. request[r].at # "opening" /\ new.at # "opening"
    BY <1>6, <1>7 DEF NoRequest
  <2>2. UNCHANGED <<opens, nextId>> /\ IdsLeft
    BY <1>3 DEF BoardInv, subscriber
  <2> QED
    BY <1>6, <1>8, <2>1, <2>2, NotOpening
<1>14. IdsInv'
  BY <1>3, IdsKept DEF BoardInv, subscriber, gateway
<1>15. NewestInv'
  <2>1. CASE active.game # g
    <3>1. active.id # 0 => stored'[active.game] = stored[active.game]
      BY <1>5, <2>1 DEF BoardInv, IdsInv
    <3> QED
      BY <1>3, <3>1, NewestKept DEF BoardInv, subscriber, gateway, history
  <2>2. CASE active.game = g
    <3>1. lastPublished[g] # stored'[g]
      <4>1. lastPublished[g] <= stored[g]
        BY DEF BoardInv, NoneAhead
      <4> QED
        BY <1>1, <1>4, <1>5, <4>1
    <3> QED
      BY <1>3, <2>2, <3>1 DEF BoardInv, NewestInv, subscriber, gateway, history
  <2> QED
    BY <2>1, <2>2
<1> QED
  BY <1>10, <1>12, <1>13, <1>14, <1>15 DEF BoardInv

\* What a request is answered with is not ahead of the game.
LEMMA ReadingsBehind ==
    ASSUME BoardInv, NEW r \in Requests, request[r] # NoRequest, NEW n \in Readings(r)
    PROVE  /\ n \in Nat /\ request[r].game \in Games
           /\ n <= stored[request[r].game] /\ request[r] \in HttpRequests
<1>1. /\ request[r] \in HttpRequests /\ request[r].game \in Games
      /\ stored \in [Games -> Nat]
  BY DEF BoardInv, BoardTypeOK, NoneAhead
<1>2. request[r].moves \in Nat /\ stored[request[r].game] \in Nat
  BY <1>1 DEF HttpRequests
<1> QED
  BY <1>1, <1>2 DEF Readings

\* A request that ends, or whose answer is on its way.
LEMMA RequestStep ==
    ASSUME BoardInv, NEW r \in Requests, request[r] # NoRequest, NEW n \in Readings(r),
           NEW new, request' = [request EXCEPT ![r] = new],
           new = NoRequest \/ new = [request[r] EXCEPT !.at = "answered", !.moves = n],
           UNCHANGED stored
    PROVE  /\ request' \in [Requests -> HttpRequests]
           /\ \A q \in Requests : request'[q] # NoRequest =>
                  /\ request'[q].at # "none"
                  /\ request'[q].game \in Games
                  /\ request'[q].moves <= stored'[request'[q].game]
           /\ new.at # "opening"
<1>1. /\ n \in Nat /\ request[r].game \in Games
      /\ n <= stored[request[r].game] /\ request[r] \in HttpRequests
  BY ReadingsBehind
<1>2. NoRequest \in HttpRequests /\ NoRequest.at = "none"
  BY DEF NoRequest, HttpRequests
<1>3. PICK ans : ans = [request[r] EXCEPT !.at = "answered", !.moves = n]
  OBVIOUS
<1>4. ans \in HttpRequests /\ ans.at = "answered" /\ ans.game = request[r].game /\ ans.moves = n
  BY <1>1, <1>3 DEF HttpRequests
<1>5. new \in HttpRequests /\ (new = NoRequest \/ new = ans)
  BY <1>2, <1>3, <1>4
<1>6. request \in [Requests -> HttpRequests]
  BY DEF BoardInv, BoardTypeOK
<1>7. /\ request' \in [Requests -> HttpRequests] /\ request'[r] = new
      /\ \A q \in Requests : q # r => request'[q] = request[q]
  BY <1>5, <1>6
<1>8. ASSUME NEW q \in Requests, request'[q] # NoRequest
      PROVE  /\ request'[q].at # "none"
             /\ request'[q].game \in Games
             /\ request'[q].moves <= stored'[request'[q].game]
  <2>1. CASE q = r
    BY <1>1, <1>4, <1>5, <1>7, <1>8, <2>1
  <2>2. CASE q # r
    BY <1>7, <1>8, <2>2 DEF BoardInv, NoneAhead
  <2> QED
    BY <2>1, <2>2
<1>9. new.at # "opening"
  BY <1>2, <1>4, <1>5
<1> QED
  BY <1>7, <1>8, <1>9

\* The wanted subscription has one of the ids that a game can take.
LEMMA ActiveInRange ==
    ASSUME BoardInv, active.id # 0
    PROVE  active.id \in 1..MaxOpens /\ subs[active.id] \in Subscriptions
<1>1. active.id \in Nat /\ nextId \in Nat /\ opens \in Nat /\ MaxOpens \in Nat
  BY LiveBoardAssumption DEF BoardInv, BoardTypeOK
<1>2. PICK c \in Nat : c + nextId <= opens + 1 /\ opens <= MaxOpens
  BY RequestsFinite DEF BoardInv, IdsLeft
<1>3. active.id < nextId
  BY DEF BoardInv, IdsInv
<1>4. active.id \in 1..MaxOpens
  BY <1>1, <1>2, <1>3
<1> QED
  BY <1>4 DEF BoardInv, BoardTypeOK

LEMMA PublishFailsBoard ==
    ASSUME BoardInv, NEW r \in Requests, request[r] # NoRequest, NEW n \in Readings(r),
           PublishFails(r, n)
    PROVE  BoardInv'
<1>1. UNCHANGED <<stored, shown, opens, subscriber, gateway, history>>
  BY DEF PublishFails
<1>2. PICK new : /\ request' = [request EXCEPT ![r] = new]
                 /\ \/ new = NoRequest
                    \/ new = [request[r] EXCEPT !.at = "answered", !.moves = n]
  BY DEF PublishFails, Answer
<1>3. /\ request' \in [Requests -> HttpRequests]
      /\ \A q \in Requests : request'[q] # NoRequest =>
             /\ request'[q].at # "none"
             /\ request'[q].game \in Games
             /\ request'[q].moves <= stored'[request'[q].game]
      /\ new.at # "opening"
  BY <1>1, <1>2, RequestStep
<1>4. BoardTypeOK'
  BY <1>1, <1>3 DEF BoardInv, BoardTypeOK, subscriber, gateway, history
<1>5. NoneAhead'
  BY <1>1, <1>3 DEF BoardInv, NoneAhead, history
<1>6. IdsLeft'
  <2>1. request[r].at # "opening" /\ request \in [Requests -> HttpRequests]
    BY DEF PublishFails, BoardInv, BoardTypeOK
  <2>2. UNCHANGED <<opens, nextId>> /\ IdsLeft
    BY <1>1 DEF BoardInv, subscriber
  <2> QED
    BY <1>2, <1>3, <2>1, <2>2, NotOpening
<1>7. IdsInv' /\ NewestInv'
  BY <1>1, IdsKept, NewestKept DEF BoardInv, subscriber, gateway, history
<1> QED
  BY <1>4, <1>5, <1>6, <1>7 DEF BoardInv

\* An update is appended to every buffer of its game that has room; if the page's
\* has none, that is remembered.
LEMMA PublishBoard ==
    ASSUME BoardInv, NEW r \in Requests, request[r] # NoRequest, NEW n \in Readings(r),
           Publish(r, n)
    PROVE  BoardInv'
<1>1. PICK g \in Games : g = request[r].game
  BY ReadingsBehind
<1>2. n \in Nat /\ n <= stored[g]
  BY <1>1, ReadingsBehind
<1>3. PICK hears : hears = {i \in DOMAIN subs : Joined(subs[i]) /\ subs[i].game = g}
  OBVIOUS
<1>4. PICK full : full = {i \in hears : Len(subs[i].buf) = Buffer}
  OBVIOUS
<1>5. /\ request[r].at = "stored"
      /\ subs' = [i \in DOMAIN subs |->
                     IF i \in hears \ full THEN [subs[i] EXCEPT !.buf = Append(@, n)]
                     ELSE subs[i]]
      /\ missed' = (active.id \in full \/ (missed /\ active.id \notin hears))
      /\ lastPublished' = [lastPublished EXCEPT ![g] = n]
      /\ UNCHANGED <<stored, shown, opens, subscriber, up, down>>
  BY <1>1, <1>3, <1>4 DEF Publish
<1>6. PICK new : /\ request' = [request EXCEPT ![r] = new]
                 /\ \/ new = NoRequest
                    \/ new = [request[r] EXCEPT !.at = "answered", !.moves = n]
  BY DEF Publish, Answer
<1>7. /\ request' \in [Requests -> HttpRequests]
      /\ \A q \in Requests : request'[q] # NoRequest =>
             /\ request'[q].at # "none"
             /\ request'[q].game \in Games
             /\ request'[q].moves <= stored'[request'[q].game]
      /\ new.at # "opening"
  BY <1>5, <1>6, RequestStep
<1>8. /\ lastPublished \in [Games -> Nat] /\ lastPublished' \in [Games -> Nat]
      /\ lastPublished'[g] = n
      /\ \A x \in Games : x # g => lastPublished'[x] = lastPublished[x]
  BY <1>2, <1>5 DEF BoardInv, BoardTypeOK
<1>9. subs \in [1..MaxOpens -> Subscriptions] /\ DOMAIN subs = 1..MaxOpens
  BY DEF BoardInv, BoardTypeOK
<1>10. ASSUME NEW i \in 1..MaxOpens
       PROVE  /\ subs'[i] \in Subscriptions
              /\ subs'[i].at = subs[i].at /\ subs'[i].game = subs[i].game
              /\ i \notin hears \ full => subs'[i] = subs[i]
              /\ i \in hears \ full => subs'[i].buf = Append(subs[i].buf, n)
  <2>1. subs[i] \in Subscriptions /\ subs[i].buf \in Seq(Nat)
    BY <1>9 DEF Subscriptions
  <2>2. Append(subs[i].buf, n) \in Seq(Nat)
    BY <1>2, <2>1
  <2>3. CASE i \in hears \ full
    <3>1. subs'[i] = [subs[i] EXCEPT !.buf = Append(subs[i].buf, n)]
      BY <1>5, <1>9, <2>3
    <3> QED
      BY <2>1, <2>2, <2>3, <3>1 DEF Subscriptions
  <2>4. CASE i \notin hears \ full
    BY <1>5, <1>9, <2>1, <2>4
  <2> QED
    BY <2>3, <2>4
<1>11. subs' \in [1..MaxOpens -> Subscriptions]
  BY <1>5, <1>9, <1>10
<1>12. BoardTypeOK'
  BY <1>5, <1>7, <1>8, <1>11 DEF BoardInv, BoardTypeOK, subscriber
<1>13. NoneAhead'
  <2>1. \A x \in Games : lastPublished'[x] <= stored'[x]
    BY <1>2, <1>5, <1>8 DEF BoardInv, NoneAhead
  <2> QED
    BY <1>7, <2>1 DEF NoneAhead
<1>14. IdsLeft'
  <2>1. request[r].at # "opening" /\ request \in [Requests -> HttpRequests]
    BY <1>5 DEF BoardInv, BoardTypeOK
  <2>2. UNCHANGED <<opens, nextId>> /\ IdsLeft
    BY <1>5 DEF BoardInv, subscriber
  <2> QED
    BY <1>6, <1>7, <2>1, <2>2, NotOpening
<1>15. IdsInv'
  BY <1>5, <1>10 DEF BoardInv, IdsInv, Update, subscriber
<1>16. NewestInv'
  <2> SUFFICES ASSUME active.id # 0 PROVE NewestInv'
    BY <1>5 DEF NewestInv, subscriber
  <2>1. PICK id \in 1..MaxOpens : id = active.id
    BY ActiveInRange
  <2>2. active' = active /\ shown' = shown /\ down' = down
    BY <1>5 DEF subscriber
  <2>3. CASE id \in hears
    <3>1. CASE id \in full
      BY <1>5, <2>1, <2>2, <3>1 DEF NewestInv
    <3>2. CASE id \notin full
      <4>1. PICK buf \in Seq(Nat) : buf = subs[id].buf
        BY <1>9 DEF Subscriptions
      <4>2. subs'[id].buf = Append(buf, n)
        BY <1>10, <2>3, <3>2, <4>1
      <4>3. Append(buf, n) # <<>> /\ Append(buf, n)[Len(Append(buf, n))] = n
        BY <1>2, <4>1
      <4>4. active.game = g
        BY <1>3, <2>1, <2>3 DEF BoardInv, IdsInv, Joined
      <4> QED
        BY <1>8, <2>1, <2>2, <4>2, <4>3, <4>4 DEF NewestInv
    <3> QED
      BY <3>1, <3>2
  <2>4. CASE id \notin hears
    <3>1. subs'[id] = subs[id] /\ (~missed' => ~missed)
      BY <1>4, <1>5, <1>10, <2>1, <2>4
    <3>2. CASE subs[id].at = "none"
      BY <2>1, <2>2, <3>1, <3>2 DEF NewestInv
    <3>3. CASE subs[id].at # "none"
      <4>1. active.game \in Games /\ active.game # g
        BY <1>3, <1>9, <2>1, <2>4, <3>3 DEF BoardInv, IdsInv, Joined
      <4>2. /\ lastPublished'[active.game] = lastPublished[active.game]
            /\ stored'[active.game] = stored[active.game]
        BY <1>5, <1>8, <4>1
      <4> QED
        BY <2>1, <2>2, <3>1, <4>2, NewestKept DEF BoardInv
    <3> QED
      BY <3>2, <3>3
  <2> QED
    BY <2>3, <2>4
<1> QED
  BY <1>12, <1>13, <1>14, <1>15, <1>16 DEF BoardInv

-----------------------------------------------------------------------------
(* The socket. *)

LEMMA NoSubsServeNothing ==
    /\ NoSubs \in [1..MaxOpens -> Subscriptions]
    /\ \A i \in 1..MaxOpens : NoSubs[i].at = "none"
<1>1. <<>> \in Seq(Nat)
  OBVIOUS
<1>2. NoServed \in Subscriptions /\ NoServed.at = "none"
  BY <1>1 DEF NoServed, Subscriptions
<1> QED
  BY <1>2 DEF NoSubs

\* A subscription that is not served owes the page nothing.
LEMMA NotServed ==
    ASSUME active'.id # 0 => subs'[active'.id].at = "none"
    PROVE  NewestInv'
  BY DEF NewestInv

\* The requests and the ids are the page's: a step of the socket leaves them alone.
LEMMA SocketTypes ==
    ASSUME BoardInv, UNCHANGED <<stored, request, opens, lastPublished, active, nextId>>,
           shown' \in [game : Games \cup {None}, moves : Nat, from : {"none", "call", "push"}],
           up' \in Seq(Frames), down' \in Seq(Frames),
           subs' \in [1..MaxOpens -> Subscriptions]
    PROVE  BoardTypeOK' /\ NoneAhead' /\ IdsLeft'
<1>1. BoardTypeOK'
  BY DEF BoardInv, BoardTypeOK
<1>2. NoneAhead'
  BY DEF BoardInv, NoneAhead
<1>3. Opening' = Opening
  BY DEF Opening
<1>4. IdsLeft'
  BY <1>3 DEF BoardInv, IdsLeft
<1> QED
  BY <1>1, <1>2, <1>4

\* Nothing is under way on a socket that is new or gone.
LEMMA EmptySocket ==
    ASSUME BoardInv, UNCHANGED <<stored, request, opens, lastPublished, active, nextId, shown>>,
           up' = <<>>, down' = <<>>, subs' = NoSubs
    PROVE  BoardInv'
<1>1. up' \in Seq(Frames) /\ down' \in Seq(Frames)
  OBVIOUS
<1>2. subs' \in [1..MaxOpens -> Subscriptions] /\ \A i \in 1..MaxOpens : subs'[i].at = "none"
  BY NoSubsServeNothing
<1>3. shown' \in [game : Games \cup {None}, moves : Nat, from : {"none", "call", "push"}]
  BY DEF BoardInv, BoardTypeOK
<1>4. BoardTypeOK' /\ NoneAhead' /\ IdsLeft'
  BY <1>1, <1>2, <1>3, SocketTypes
<1>5. IdsInv'
  BY <1>2 DEF BoardInv, IdsInv
<1>6. NewestInv'
  BY <1>2, ActiveInRange, NotServed
<1> QED
  BY <1>4, <1>5, <1>6 DEF BoardInv

LEMMA OpensBoard ==
    ASSUME BoardInv, SocketOpens
    PROVE  BoardInv'
<1>1. /\ UNCHANGED <<stored, page, active, nextId, down, subs, lastPublished, missed>>
      /\ up' = Resume
  BY DEF SocketOpens
<1>2. CASE active.id = 0
  <2>1. up' = <<>>
    BY <1>1, <1>2 DEF Resume
  <2>2. BoardTypeOK' /\ NoneAhead' /\ IdsLeft'
    BY <1>1, <2>1, SocketTypes DEF BoardInv, BoardTypeOK, page
  <2>3. IdsInv'
    BY <1>1, <2>1 DEF BoardInv, IdsInv, Update
  <2> QED
    BY <1>1, <1>2, <2>2, <2>3, NewestKept DEF BoardInv, page
<1>3. CASE active.id # 0
  <2>1. PICK start : start = Frame("subscribe", active.id, active.game, 0)
    OBVIOUS
  <2>2. active.id \in Nat /\ active.game \in Games
    BY <1>3 DEF BoardInv, BoardTypeOK, IdsInv
  <2>3. /\ start \in Frames /\ start.type = "subscribe"
        /\ start.id = active.id /\ start.game = active.game
    BY <2>1, <2>2 DEF Frame, Frames
  <2>4. up' = <<start>>
    BY <1>1, <1>3, <2>1 DEF Resume, Start
  <2>5. up' \in Seq(Frames) /\ Len(up') = 1 /\ up'[1] = start
    BY <2>3, <2>4
  <2>6. BoardTypeOK' /\ NoneAhead' /\ IdsLeft'
    BY <1>1, <2>5, SocketTypes DEF BoardInv, BoardTypeOK, page
  <2>7. \A k \in 1..Len(up') : k = 1
    BY <2>5
  <2>8. IdsInv'
    BY <1>1, <2>2, <2>3, <2>5, <2>7 DEF BoardInv, IdsInv, Update
  <2> QED
    BY <1>1, <2>6, <2>8, NewestKept DEF BoardInv, page
<1> QED
  BY <1>2, <1>3

LEMMA DropBoard ==
    ASSUME BoardInv, Drop
    PROVE  BoardInv'
  BY EmptySocket DEF Drop, page, history

LEMMA CloseBoard ==
    ASSUME BoardInv, OnClose
    PROVE  BoardInv'
<1>1. UNCHANGED <<stored, page, active, nextId, gateway, history>>
  BY DEF OnClose
<1>2. BoardTypeOK' /\ NoneAhead' /\ IdsLeft'
  BY <1>1, SocketTypes DEF BoardInv, BoardTypeOK, page, gateway, history
<1> QED
  BY <1>1, <1>2, IdsKept, NewestKept DEF BoardInv, page, gateway, history

LEMMA ReconnectBoard ==
    ASSUME BoardInv, Reconnect
    PROVE  BoardInv'
  BY EmptySocket DEF Reconnect, ConnectSocket, page, history

-----------------------------------------------------------------------------
(* Frames to the page. *)

\* A frame that is not an update for the page changes nothing of what it is told.
LEMMA TellsBeside ==
    ASSUME NEW n, Tells(n), down \in Seq(Frames), NEW f \in Frames, ~Update(f),
           down' = Append(down, f), UNCHANGED <<active, shown>>
    PROVE  Tells(n)'
<1>1. PICK m \in Nat : m = Len(down)
  OBVIOUS
<1>2. Len(down') = m + 1 /\ down'[m + 1] = f /\ \A k \in 1..m : down'[k] = down[k]
  BY <1>1
<1>3. \A k \in 1..(m + 1) : k \in 1..m \/ k = m + 1
  BY <1>1
<1>4. \A k \in 1..(m + 1) : Update(down[k])' => k \in 1..m /\ Update(down[k])
  BY <1>2, <1>3 DEF Update
<1>5. CASE \A k \in 1..m : ~Update(down[k])
  <2>1. shown.from = "call" \/ (shown.game = active.game /\ shown.moves = n)
    BY <1>1, <1>5 DEF Tells
  <2> QED
    BY <1>2, <1>4, <1>5, <2>1 DEF Tells
<1>6. CASE ~ \A k \in 1..m : ~Update(down[k])
  <2>1. PICK k \in 1..m : /\ Update(down[k]) /\ down[k].moves = n
                          /\ \A j \in (k + 1)..m : ~Update(down[j])
    BY <1>1, <1>6 DEF Tells
  <2>2. k \in 1..(m + 1) /\ Update(down[k])' /\ down'[k].moves = n
    BY <1>1, <1>2, <2>1 DEF Update
  <2>3. \A j \in (k + 1)..(m + 1) : ~Update(down[j])'
    <3> SUFFICES ASSUME NEW j \in (k + 1)..(m + 1), Update(down[j])' PROVE FALSE
      OBVIOUS
    <3>1. j \in 1..(m + 1)
      BY <1>1, <2>1
    <3>2. j \in 1..m /\ Update(down[j])
      BY <1>4, <3>1
    <3>3. j \in (k + 1)..m
      BY <1>1, <2>1, <3>2
    <3> QED
      BY <2>1, <3>2, <3>3
  <2> QED
    BY <1>2, <2>2, <2>3 DEF Tells
<1> QED
  BY <1>5, <1>6

\* The update that is appended is the newest.
LEMMA TellsNewest ==
    ASSUME down \in Seq(Frames), NEW f \in Frames, Update(f),
           down' = Append(down, f), UNCHANGED <<active, shown>>
    PROVE  Tells(f.moves)'
<1>1. PICK m \in Nat : m = Len(down)
  OBVIOUS
<1>2. Len(down') = m + 1 /\ down'[m + 1] = f
  BY <1>1
<1>3. m + 1 \in 1..(m + 1) /\ \A j \in (m + 1 + 1)..(m + 1) : FALSE
  BY <1>1
<1>4. Update(down[m + 1])'
  BY <1>2 DEF Update
<1> QED
  BY <1>2, <1>3, <1>4 DEF Tells

\* An update that is shown was the next in the order in which it came.
LEMMA MessageBoard ==
    ASSUME BoardInv, OnMessage
    PROVE  BoardInv'
<1>1. PICK f : f = Head(down)
  OBVIOUS
<1>2. /\ down # <<>> /\ down' = Tail(down)
      /\ UNCHANGED <<stored, request, opens, subscriber, up, subs, lastPublished, missed>>
  BY DEF OnMessage
<1>3. /\ Update(f) => shown' = Snapshot(f.game, f.moves, "push")
      /\ ~Update(f) => shown' = shown
  BY <1>1 DEF OnMessage, Update, Wanted
<1>4. active' = active /\ nextId' = nextId
  BY <1>2 DEF subscriber
<1>5. down \in Seq(Frames)
  BY DEF BoardInv, BoardTypeOK
<1>6. PICK m \in Nat : m = Len(down) /\ m > 0
  BY <1>2, <1>5
<1>7. f \in Frames /\ down[1] = f
  BY <1>1, <1>2, <1>5
<1>8. /\ down' \in Seq(Frames) /\ Len(down') = m - 1
      /\ \A k \in 1..(m - 1) : down'[k] = down[k + 1]
  BY <1>2, <1>5, <1>6
<1>9. shown' \in [game : Games \cup {None}, moves : Nat, from : {"none", "call", "push"}]
  <2>1. f.game \in Games \cup {None} /\ f.moves \in Nat
    BY <1>7 DEF Frames
  <2> QED
    BY <1>3, <2>1 DEF BoardInv, BoardTypeOK, Snapshot
<1>10. BoardTypeOK' /\ NoneAhead' /\ IdsLeft'
  <2>1. up' \in Seq(Frames) /\ subs' \in [1..MaxOpens -> Subscriptions]
    BY <1>2 DEF BoardInv, BoardTypeOK
  <2> QED
    BY <1>2, <1>4, <1>8, <1>9, <2>1, SocketTypes
<1>11. \A k \in 1..(m - 1) : k + 1 \in 1..m
  BY <1>6
<1>12. IdsInv'
  <2>1. ASSUME NEW k \in 1..Len(down')
        PROVE  down'[k].id < nextId' /\ (Update(down[k])' => down'[k].game = active'.game)
    <3>1. k + 1 \in 1..Len(down) /\ down'[k] = down[k + 1]
      BY <1>6, <1>8, <1>11
    <3> QED
      BY <1>4, <3>1 DEF BoardInv, IdsInv, Update
  <2> QED
    BY <1>2, <1>4, <2>1 DEF BoardInv, IdsInv
<1>13. ASSUME NEW n, Tells(n)
       PROVE  Tells(n)'
  <2>1. \A k \in 1..(m - 1) : Update(down[k])' <=> Update(down[k + 1])
    BY <1>4, <1>8 DEF Update
  <2>2. CASE \A k \in 1..m : ~Update(down[k])
    <3>1. 1 \in 1..m
      BY <1>6
    <3>2. shown' = shown
      BY <1>3, <1>7, <2>2, <3>1
    <3>3. shown.from = "call" \/ (shown.game = active.game /\ shown.moves = n)
      BY <1>6, <1>13, <2>2 DEF Tells
    <3>4. \A k \in 1..(m - 1) : ~Update(down[k])'
      BY <1>11, <2>1, <2>2
    <3> QED
      BY <1>4, <1>8, <3>2, <3>3, <3>4 DEF Tells
  <2>3. CASE ~ \A k \in 1..m : ~Update(down[k])
    <3>1. PICK k \in 1..m : /\ Update(down[k]) /\ down[k].moves = n
                            /\ \A j \in (k + 1)..m : ~Update(down[j])
      BY <1>6, <1>13, <2>3 DEF Tells
    <3>2. CASE k = 1
      <4>1. \A j \in 1..(m - 1) : j + 1 \in (1 + 1)..m
        BY <1>6
      <4>2. \A j \in 1..(m - 1) : ~Update(down[j])'
        BY <2>1, <3>1, <3>2, <4>1
      <4>3. Update(f) /\ f.moves = n
        BY <1>7, <3>1, <3>2
      <4>4. f.game = active.game
        <5>1. 1 \in 1..Len(down)
          BY <1>6
        <5> QED
          BY <1>7, <4>3, <5>1 DEF BoardInv, IdsInv
      <4>5. shown'.game = active'.game /\ shown'.moves = n
        BY <1>3, <1>4, <4>3, <4>4 DEF Snapshot
      <4> QED
        BY <1>8, <4>2, <4>5 DEF Tells
    <3>3. CASE k # 1
      <4>1. PICK h \in 1..(m - 1) : k = h + 1
        <5>1. k - 1 \in 1..(m - 1) /\ k = (k - 1) + 1
          BY <1>6, <3>1, <3>3
        <5> QED
          BY <5>1
      <4>2. Update(down[h])' /\ down'[h].moves = n
        BY <1>8, <2>1, <3>1, <4>1
      <4>3. \A j \in (h + 1)..(m - 1) : j \in 1..(m - 1) /\ j + 1 \in (k + 1)..m
        BY <1>6, <4>1
      <4>4. \A j \in (h + 1)..(m - 1) : ~Update(down[j])'
        BY <2>1, <3>1, <4>3
      <4> QED
        BY <1>8, <4>2, <4>4 DEF Tells
    <3> QED
      BY <3>2, <3>3
  <2> QED
    BY <2>2, <2>3
<1>14. NewestInv'
  <2> SUFFICES ASSUME active.id # 0, subs[active.id].at # "none", ~missed
               PROVE  LET s == subs[active.id]  g == active.game
                      IN  /\ s.buf # <<>> => s.buf[Len(s.buf)] = lastPublished[g]
                          /\ s.buf = <<>> /\ lastPublished[g] = stored[g] =>
                                /\ s.at = "fetched" => s.current = stored[g]
                                /\ s.at = "relaying" => Tells(stored[g])'
    BY <1>2, <1>4 DEF NewestInv
  <2>1. LET s == subs[active.id]  g == active.game
        IN  /\ s.buf # <<>> => s.buf[Len(s.buf)] = lastPublished[g]
            /\ s.buf = <<>> /\ lastPublished[g] = stored[g] =>
                  /\ s.at = "fetched" => s.current = stored[g]
                  /\ s.at = "relaying" => Tells(stored[g])
    BY DEF BoardInv, NewestInv
  <2>2. PICK n : n = stored[active.game]
    OBVIOUS
  <2>3. Tells(n) => Tells(n)'
    BY <1>13
  <2>4. n = stored'[active'.game]
    BY <1>2, <1>4, <2>2
  <2> QED
    BY <1>2, <1>4, <2>1, <2>2, <2>3, <2>4
<1> QED
  BY <1>10, <1>12, <1>14 DEF BoardInv

-----------------------------------------------------------------------------
(* The gateway's end. *)

LEMMA ReadBoard ==
    ASSUME BoardInv, ReadFrame
    PROVE  BoardInv'
<1>1. PICK f : f = Head(up)
  OBVIOUS
<1>2. PICK s : s = IF f.type = "subscribe"
                   THEN [NoServed EXCEPT !.game = f.game, !.at = "joined"] ELSE NoServed
  OBVIOUS
<1>3. /\ up # <<>> /\ up' = Tail(up) /\ subs' = [subs EXCEPT ![f.id] = s]
      /\ UNCHANGED <<stored, page, subscriber, down, history>>
  BY <1>1, <1>2 DEF ReadFrame
<1>4. active' = active /\ nextId' = nextId /\ shown' = shown /\ request' = request
      /\ opens' = opens /\ lastPublished' = lastPublished /\ missed' = missed
  BY <1>3 DEF subscriber, page, history
<1>5. up \in Seq(Frames) /\ subs \in [1..MaxOpens -> Subscriptions]
  BY DEF BoardInv, BoardTypeOK
<1>6. PICK m \in Nat : m = Len(up) /\ m > 0
  BY <1>3, <1>5
<1>7. f \in Frames /\ up[1] = f /\ 1 \in 1..Len(up)
  BY <1>1, <1>3, <1>5, <1>6
<1>8. /\ up' \in Seq(Frames) /\ Len(up') = m - 1
      /\ \A k \in 1..(m - 1) : up'[k] = up[k + 1]
  BY <1>3, <1>5, <1>6
<1>9. <<>> \in Seq(Nat) /\ f.game \in Games \cup {None}
  BY <1>7 DEF Frames
<1>10. /\ s \in Subscriptions /\ s.buf = <<>>
       /\ s.at = IF f.type = "subscribe" THEN "joined" ELSE "none"
       /\ f.type = "subscribe" => s.game = f.game
  BY <1>2, <1>9 DEF NoServed, Subscriptions
<1>11. /\ subs' \in [1..MaxOpens -> Subscriptions]
       /\ \A i \in 1..MaxOpens : subs'[i] = IF i = f.id THEN s ELSE subs[i]
  BY <1>3, <1>5, <1>10
<1>12. BoardTypeOK' /\ NoneAhead' /\ IdsLeft'
  <2>1. /\ shown' \in [game : Games \cup {None}, moves : Nat, from : {"none", "call", "push"}]
        /\ down' \in Seq(Frames)
    BY <1>3, <1>4 DEF BoardInv, BoardTypeOK
  <2> QED
    BY <1>3, <1>4, <1>8, <1>11, <2>1, SocketTypes
<1>13. f.id < nextId /\ (f.type = "subscribe" =>
          f.game \in Games /\ (f.id = active.id => f.game = active.game))
  BY <1>7 DEF BoardInv, IdsInv
<1>14. IdsInv'
  <2>1. ASSUME NEW k \in 1..Len(up')
        PROVE  /\ up'[k].id < nextId'
               /\ up'[k].type = "subscribe" =>
                     /\ up'[k].game \in Games
                     /\ up'[k].id = active'.id => up'[k].game = active'.game
    <3>1. k + 1 \in 1..Len(up) /\ up'[k] = up[k + 1]
      BY <1>6, <1>8
    <3> QED
      BY <1>4, <3>1 DEF BoardInv, IdsInv
  <2>2. ASSUME NEW i \in 1..MaxOpens, subs'[i].at # "none"
        PROVE  /\ i < nextId'
               /\ subs'[i].game \in Games
               /\ i = active'.id => subs'[i].game = active'.game
    <3>1. CASE i = f.id
      BY <1>4, <1>10, <1>11, <1>13, <2>2, <3>1
    <3>2. CASE i # f.id
      BY <1>4, <1>11, <2>2, <3>2 DEF BoardInv, IdsInv
    <3> QED
      BY <3>1, <3>2
  <2>3. \A k \in 1..Len(down') :
          down'[k].id < nextId' /\ (Update(down[k])' => down'[k].game = active'.game)
    BY <1>3, <1>4 DEF BoardInv, IdsInv, Update
  <2>4. active'.id < nextId' /\ (active'.id # 0 => active'.game \in Games)
    BY <1>4 DEF BoardInv, IdsInv
  <2> QED
    BY <2>1, <2>2, <2>3, <2>4 DEF IdsInv
<1>15. NewestInv'
  <2>1. CASE active.id = f.id
    <3>1. active.id # 0 => subs'[active.id] = s
      BY <1>11, <2>1, ActiveInRange
    <3> QED
      BY <1>4, <1>10, <3>1 DEF NewestInv
  <2>2. CASE active.id # f.id
    <3>1. active.id # 0 => subs'[active.id] = subs[active.id]
      BY <1>11, <2>2, ActiveInRange
    <3> QED
      BY <1>3, <1>4, <3>1, NewestKept DEF BoardInv
  <2> QED
    BY <2>1, <2>2
<1> QED
  BY <1>12, <1>14, <1>15 DEF BoardInv

\* A subscription that is served sends frames of its own id and game.
LEMMA SubscriptionStep ==
    ASSUME BoardInv, NEW i \in 1..MaxOpens, subs[i].at # "none",
           NEW s \in Subscriptions, subs' = [subs EXCEPT ![i] = s],
           s.at # "none" => s.game = subs[i].game,
           UNCHANGED <<stored, request, opens, lastPublished, active, nextId, shown, up>>,
           \/ down' = down
           \/ \E f \in Frames : /\ down' = Append(down, f) /\ f.id = i
                                /\ f.type = "next" => f.game = subs[i].game
    PROVE  BoardTypeOK' /\ NoneAhead' /\ IdsLeft' /\ IdsInv'
<1>1. subs \in [1..MaxOpens -> Subscriptions] /\ down \in Seq(Frames) /\ up' \in Seq(Frames)
  BY DEF BoardInv, BoardTypeOK
<1>2. /\ subs' \in [1..MaxOpens -> Subscriptions]
      /\ \A j \in 1..MaxOpens : subs'[j] = IF j = i THEN s ELSE subs[j]
  BY <1>1
<1>3. i < nextId /\ subs[i].game \in Games /\ (i = active.id => subs[i].game = active.game)
  BY DEF BoardInv, IdsInv
<1>4. /\ down' \in Seq(Frames)
      /\ \A k \in 1..Len(down') :
            down'[k].id < nextId' /\ (Update(down[k])' => down'[k].game = active'.game)
  <2>1. \A k \in 1..Len(down) :
            down[k].id < nextId /\ (Update(down[k]) => down[k].game = active.game)
    BY DEF BoardInv, IdsInv
  <2>2. CASE down' = down
    BY <1>1, <2>1, <2>2 DEF Update
  <2>3. CASE down' # down
    <3>1. PICK f \in Frames : /\ down' = Append(down, f) /\ f.id = i
                              /\ f.type = "next" => f.game = subs[i].game
      BY <2>3
    <3>2. PICK m \in Nat : m = Len(down)
      BY <1>1
    <3>3. /\ down' \in Seq(Frames) /\ Len(down') = m + 1
          /\ down'[m + 1] = f /\ \A k \in 1..m : down'[k] = down[k]
      BY <1>1, <3>1, <3>2
    <3>4. ASSUME NEW k \in 1..(m + 1)
          PROVE  down'[k].id < nextId' /\ (Update(down[k])' => down'[k].game = active'.game)
      <4>1. CASE k = m + 1
        BY <1>3, <3>1, <3>3, <4>1 DEF Update
      <4>2. CASE k # m + 1
        <5>1. k \in 1..m
          BY <3>2, <4>2
        <5> QED
          BY <2>1, <3>2, <3>3, <5>1 DEF Update
      <4> QED
        BY <4>1, <4>2
    <3> QED
      BY <3>3, <3>4
  <2> QED
    BY <2>2, <2>3
<1>5. BoardTypeOK' /\ NoneAhead' /\ IdsLeft'
  <2>1. shown' \in [game : Games \cup {None}, moves : Nat, from : {"none", "call", "push"}]
    BY DEF BoardInv, BoardTypeOK
  <2> QED
    BY <1>1, <1>2, <1>4, <2>1, SocketTypes
<1>6. ASSUME NEW j \in 1..MaxOpens, subs'[j].at # "none"
      PROVE  /\ j < nextId'
             /\ subs'[j].game \in Games
             /\ j = active'.id => subs'[j].game = active'.game
  <2>1. CASE j = i
    BY <1>2, <1>3, <1>6, <2>1
  <2>2. CASE j # i
    BY <1>2, <1>6, <2>2 DEF BoardInv, IdsInv
  <2> QED
    BY <2>1, <2>2
<1>7. /\ active'.id < nextId' /\ (active'.id # 0 => active'.game \in Games)
      /\ \A k \in 1..Len(up') :
            /\ up'[k].id < nextId'
            /\ up'[k].type = "subscribe" =>
                  /\ up'[k].game \in Games
                  /\ up'[k].id = active'.id => up'[k].game = active'.game
  BY DEF BoardInv, IdsInv
<1>8. IdsInv'
  BY <1>4, <1>6, <1>7 DEF IdsInv
<1> QED
  BY <1>5, <1>8

\* Another subscription than the wanted one makes a step.
LEMMA NewestBeside ==
    ASSUME BoardInv, NEW i \in 1..MaxOpens, i # active.id,
           NEW s, subs' = [subs EXCEPT ![i] = s],
           UNCHANGED <<stored, lastPublished, active, shown>>,
           ~missed' => ~missed,
           down' = down \/ \E f \in Frames : down' = Append(down, f) /\ f.id = i
    PROVE  NewestInv'
<1>1. active.id # 0 => subs'[active.id] = subs[active.id]
  BY ActiveInRange DEF BoardInv, BoardTypeOK
<1>2. CASE down' = down
  BY <1>1, <1>2, NewestKept DEF BoardInv
<1>3. CASE down' # down
  <2> SUFFICES ASSUME active.id # 0, subs[active.id].at # "none", ~missed
               PROVE  LET t == subs[active.id]  g == active.game
                      IN  /\ t.buf # <<>> => t.buf[Len(t.buf)] = lastPublished[g]
                          /\ t.buf = <<>> /\ lastPublished[g] = stored[g] =>
                                /\ t.at = "fetched" => t.current = stored[g]
                                /\ t.at = "relaying" => Tells(stored[g])'
    BY <1>1 DEF NewestInv
  <2>1. LET t == subs[active.id]  g == active.game
        IN  /\ t.buf # <<>> => t.buf[Len(t.buf)] = lastPublished[g]
            /\ t.buf = <<>> /\ lastPublished[g] = stored[g] =>
                  /\ t.at = "fetched" => t.current = stored[g]
                  /\ t.at = "relaying" => Tells(stored[g])
    BY DEF BoardInv, NewestInv
  <2>2. PICK n : n = stored[active.game] /\ n = stored'[active'.game]
    OBVIOUS
  <2>3. PICK f \in Frames : down' = Append(down, f) /\ f.id = i
    BY <1>3
  <2>4. ~Update(f) /\ down \in Seq(Frames)
    BY <2>3 DEF Update, BoardInv, BoardTypeOK
  <2>5. Tells(n) => Tells(n)'
    BY <2>3, <2>4, TellsBeside
  <2> QED
    BY <2>1, <2>2, <2>5
<1> QED
  BY <1>2, <1>3

LEMMA FetchBoard ==
    ASSUME BoardInv, NEW i \in 1..MaxOpens, Fetch(i)
    PROVE  BoardInv'
<1>1. /\ subs[i].at = "joined"
      /\ UNCHANGED <<stored, page, subscriber, up, lastPublished>>
  BY DEF Fetch
<1>2. /\ subs[i] \in Subscriptions /\ subs \in [1..MaxOpens -> Subscriptions]
      /\ subs[i].game \in Games /\ stored \in [Games -> Nat]
      /\ i = active.id => subs[i].game = active.game
  BY <1>1 DEF BoardInv, BoardTypeOK, IdsInv
<1>3. /\ active' = active /\ nextId' = nextId /\ shown' = shown /\ request' = request
      /\ opens' = opens
  BY <1>1 DEF page, subscriber
<1>4. CASE /\ subs' = [subs EXCEPT ![i].at = "fetched", ![i].current = stored[subs[i].game]]
           /\ missed' = (missed /\ (i # active.id \/ subs[i].buf # <<>>))
           /\ down' = down
  <2>1. PICK s : s = [subs[i] EXCEPT !.at = "fetched", !.current = stored[subs[i].game]]
    OBVIOUS
  <2>2. /\ s \in Subscriptions /\ s.game = subs[i].game /\ s.buf = subs[i].buf
        /\ s.at = "fetched" /\ s.current = stored[subs[i].game]
    BY <1>2, <2>1 DEF Subscriptions
  <2>3. subs' = [subs EXCEPT ![i] = s]
    BY <1>2, <1>4, <2>1
  <2>4. BoardTypeOK' /\ NoneAhead' /\ IdsLeft' /\ IdsInv'
    BY <1>1, <1>3, <1>4, <2>2, <2>3, SubscriptionStep
  <2>5. CASE i # active.id
    <3>1. NewestInv'
      BY <1>1, <1>3, <1>4, <2>3, <2>5, NewestBeside
    <3> QED
      BY <2>4, <3>1 DEF BoardInv
  <2>6. CASE i = active.id
    <3>1. subs'[i] = s
      BY <1>2, <2>3
    <3>2. ~missed /\ s.buf # <<>> => s.buf[Len(s.buf)] = lastPublished[active.game]
      BY <1>1, <2>2, <2>6 DEF BoardInv, NewestInv
    <3>3. ~missed' /\ s.buf # <<>> => ~missed
      BY <1>4, <2>2, <2>6
    <3>4. NewestInv'
      BY <1>1, <1>2, <1>3, <2>2, <2>6, <3>1, <3>2, <3>3 DEF NewestInv
    <3> QED
      BY <2>4, <3>4 DEF BoardInv
  <2> QED
    BY <2>5, <2>6
<1>5. CASE /\ subs' = [subs EXCEPT ![i] = NoServed]
           /\ down' = Append(down, Frame("error", i, None, 0))
           /\ missed' = missed
  <2>1. PICK f : f = Frame("error", i, None, 0)
    OBVIOUS
  <2>2. f \in Frames /\ f.id = i /\ f.type = "error"
    BY <2>1 DEF Frame, Frames
  <2>3. <<>> \in Seq(Nat)
    OBVIOUS
  <2>4. NoServed \in Subscriptions /\ NoServed.at = "none"
    BY <2>3 DEF NoServed, Subscriptions
  <2>5. \E x \in Frames : /\ down' = Append(down, x) /\ x.id = i
                          /\ x.type = "next" => x.game = subs[i].game
    BY <1>5, <2>1, <2>2
  <2>6. BoardTypeOK' /\ NoneAhead' /\ IdsLeft' /\ IdsInv'
    BY <1>1, <1>3, <1>5, <2>4, <2>5, SubscriptionStep
  <2>7. CASE i # active.id
    <3>1. NewestInv'
      BY <1>1, <1>3, <1>5, <2>5, <2>7, NewestBeside
    <3> QED
      BY <2>6, <3>1 DEF BoardInv
  <2>8. CASE i = active.id
    <3>1. subs'[active'.id].at = "none"
      BY <1>2, <1>3, <1>5, <2>4, <2>8
    <3>2. NewestInv'
      BY <3>1, NotServed
    <3> QED
      BY <2>6, <3>2 DEF BoardInv
  <2> QED
    BY <2>7, <2>8
<1> QED
  BY <1>4, <1>5 DEF Fetch

LEMMA SendBoard ==
    ASSUME BoardInv, NEW i \in 1..MaxOpens, SendCurrent(i)
    PROVE  BoardInv'
<1>1. PICK f : f = Frame("next", i, subs[i].game, subs[i].current)
  OBVIOUS
<1>2. /\ subs[i].at = "fetched" /\ down' = Append(down, f)
      /\ subs' = [subs EXCEPT ![i].at = "relaying", ![i].current = 0]
      /\ UNCHANGED <<stored, page, subscriber, up, history>>
  BY <1>1 DEF SendCurrent
<1>3. /\ subs[i] \in Subscriptions /\ subs \in [1..MaxOpens -> Subscriptions]
      /\ down \in Seq(Frames)
      /\ i = active.id => subs[i].game = active.game
  BY <1>2 DEF BoardInv, BoardTypeOK, IdsInv
<1>4. /\ active' = active /\ nextId' = nextId /\ shown' = shown /\ request' = request
      /\ opens' = opens /\ lastPublished' = lastPublished /\ missed' = missed
  BY <1>2 DEF page, subscriber, history
<1>5. /\ f \in Frames /\ f.id = i /\ f.type = "next" /\ f.game = subs[i].game
      /\ f.moves = subs[i].current
  BY <1>1, <1>3 DEF Frame, Frames, Subscriptions
<1>6. PICK s : s = [subs[i] EXCEPT !.at = "relaying", !.current = 0]
  OBVIOUS
<1>7. /\ s \in Subscriptions /\ s.game = subs[i].game /\ s.buf = subs[i].buf
      /\ s.at = "relaying"
  BY <1>3, <1>6 DEF Subscriptions
<1>8. subs' = [subs EXCEPT ![i] = s]
  BY <1>2, <1>3, <1>6
<1>9. \E x \in Frames : /\ down' = Append(down, x) /\ x.id = i
                        /\ x.type = "next" => x.game = subs[i].game
  BY <1>2, <1>5
<1>10. BoardTypeOK' /\ NoneAhead' /\ IdsLeft' /\ IdsInv'
  BY <1>2, <1>4, <1>7, <1>8, <1>9, SubscriptionStep
<1>11. NewestInv'
  <2>1. CASE i # active.id
    BY <1>2, <1>4, <1>8, <1>9, <2>1, NewestBeside
  <2>2. CASE i = active.id
    <3>1. subs'[i] = s
      BY <1>3, <1>8
    <3>2. ~missed => /\ s.buf # <<>> => s.buf[Len(s.buf)] = lastPublished[active.game]
                     /\ s.buf = <<>> /\ lastPublished[active.game] = stored[active.game] =>
                           f.moves = stored[active.game]
      BY <1>2, <1>5, <1>7, <2>2 DEF BoardInv, NewestInv
    <3>3. PICK n : n = f.moves
      OBVIOUS
    <3>4. Update(f)
      BY <1>5, <2>2 DEF Update
    <3>5. Tells(n)'
      BY <1>2, <1>3, <1>4, <1>5, <3>3, <3>4, TellsNewest
    <3> QED
      BY <1>2, <1>4, <1>7, <2>2, <3>1, <3>2, <3>3, <3>5 DEF NewestInv
  <2> QED
    BY <2>1, <2>2
<1> QED
  BY <1>10, <1>11 DEF BoardInv

LEMMA ForwardBoard ==
    ASSUME BoardInv, NEW i \in 1..MaxOpens, Forward(i)
    PROVE  BoardInv'
<1>1. PICK buf : buf = subs[i].buf
  OBVIOUS
<1>2. PICK f : f = Frame("next", i, subs[i].game, Head(buf))
  OBVIOUS
<1>3. /\ subs[i].at = "relaying" /\ buf # <<>> /\ down' = Append(down, f)
      /\ subs' = [subs EXCEPT ![i].buf = Tail(@)]
      /\ UNCHANGED <<stored, page, subscriber, up, history>>
  BY <1>1, <1>2 DEF Forward
<1>4. /\ subs[i] \in Subscriptions /\ subs \in [1..MaxOpens -> Subscriptions]
      /\ down \in Seq(Frames)
      /\ i = active.id => subs[i].game = active.game
  BY <1>3 DEF BoardInv, BoardTypeOK, IdsInv
<1>5. /\ active' = active /\ nextId' = nextId /\ shown' = shown /\ request' = request
      /\ opens' = opens /\ lastPublished' = lastPublished /\ missed' = missed
  BY <1>3 DEF page, subscriber, history
<1>6. buf \in Seq(Nat) /\ subs[i].game \in Games \cup {None}
  BY <1>1, <1>4 DEF Subscriptions
<1>7. Head(buf) \in Nat /\ Tail(buf) \in Seq(Nat)
  BY <1>3, <1>6
<1>8. /\ f \in Frames /\ f.id = i /\ f.type = "next" /\ f.game = subs[i].game
      /\ f.moves = Head(buf)
  BY <1>2, <1>6, <1>7 DEF Frame, Frames
<1>9. PICK s : s = [subs[i] EXCEPT !.buf = Tail(buf)]
  OBVIOUS
<1>10. /\ s \in Subscriptions /\ s.game = subs[i].game /\ s.buf = Tail(buf)
       /\ s.at = "relaying"
  BY <1>3, <1>4, <1>7, <1>9 DEF Subscriptions
<1>11. subs' = [subs EXCEPT ![i] = s]
  BY <1>1, <1>3, <1>4, <1>9
<1>12. \E x \in Frames : /\ down' = Append(down, x) /\ x.id = i
                         /\ x.type = "next" => x.game = subs[i].game
  BY <1>3, <1>8
<1>13. BoardTypeOK' /\ NoneAhead' /\ IdsLeft' /\ IdsInv'
  BY <1>3, <1>5, <1>10, <1>11, <1>12, SubscriptionStep
<1>14. NewestInv'
  <2>1. CASE i # active.id
    BY <1>3, <1>5, <1>11, <1>12, <2>1, NewestBeside
  <2>2. CASE i = active.id
    <3>1. subs'[i] = s
      BY <1>4, <1>11
    <3>2. ~missed => buf[Len(buf)] = lastPublished[active.game]
      BY <1>1, <1>3, <2>2 DEF BoardInv, NewestInv
    <3>3. /\ Tail(buf) # <<>> => Tail(buf)[Len(Tail(buf))] = buf[Len(buf)]
          /\ Tail(buf) = <<>> => Head(buf) = buf[Len(buf)]
      <4>1. PICK m \in Nat : m = Len(buf) /\ m > 0
        BY <1>3, <1>6
      <4>2. /\ Len(Tail(buf)) = m - 1
            /\ \A k \in 1..(m - 1) : Tail(buf)[k] = buf[k + 1]
        BY <1>3, <1>6, <4>1
      <4>3. Head(buf) = buf[1]
        BY <1>3, <1>6
      <4>4. CASE m = 1
        <5>1. Tail(buf) = <<>>
          <6>1. PICK t \in Seq(Nat) : t = Tail(buf)
            BY <1>7
          <6>2. Len(t) = 0
            BY <4>2, <4>4, <6>1
          <6>3. t = <<>>
            BY <6>2
          <6> QED
            BY <6>1, <6>3
        <5> QED
          BY <4>1, <4>3, <4>4, <5>1
      <4>5. CASE m # 1
        <5>1. m - 1 \in 1..(m - 1) /\ (m - 1) + 1 = m /\ m - 1 # 0
          BY <4>1, <4>5
        <5>2. Tail(buf)[m - 1] = buf[m]
          BY <4>2, <5>1
        <5>3. Tail(buf) # <<>>
          BY <4>2, <5>1
        <5> QED
          BY <4>1, <4>2, <5>2, <5>3
      <4> QED
        BY <4>4, <4>5
    <3>4. PICK n : n = f.moves
      OBVIOUS
    <3>5. Update(f)
      BY <1>8, <2>2 DEF Update
    <3>6. Tells(n)'
      BY <1>3, <1>4, <1>5, <1>8, <3>4, <3>5, TellsNewest
    <3>7. ~missed => /\ s.buf # <<>> => s.buf[Len(s.buf)] = lastPublished[active.game]
                     /\ s.buf = <<>> => n = lastPublished[active.game]
      BY <1>8, <1>10, <3>2, <3>3, <3>4
    <3> QED
      BY <1>3, <1>5, <1>10, <2>2, <3>1, <3>6, <3>7 DEF NewestInv
  <2> QED
    BY <2>1, <2>2
<1> QED
  BY <1>13, <1>14 DEF BoardInv

-----------------------------------------------------------------------------
(* The answers. *)

\* The answer of a move is shown, whatever is on the board: the subscription and
\* its frames are as they were.
LEMMA AnsweredBoard ==
    ASSUME BoardInv, NEW r \in Requests, request[r] # NoRequest, NEW n \in Readings(r),
           Apply(r, n), request[r].at # "opening"
    PROVE  BoardInv'
<1>1. /\ request' = [request EXCEPT ![r] = NoRequest]
      /\ shown' = Snapshot(request[r].game, n, "call")
      /\ UNCHANGED <<stored, opens, lastPublished, subscriber, gateway, missed>>
  BY DEF Apply
<1>2. n \in Nat /\ request[r].game \in Games
  BY ReadingsBehind
<1>3. /\ request' \in [Requests -> HttpRequests]
      /\ \A q \in Requests : request'[q] # NoRequest =>
             /\ request'[q].at # "none"
             /\ request'[q].game \in Games
             /\ request'[q].moves <= stored'[request'[q].game]
      /\ NoRequest.at # "opening"
  <2>1. PICK new : new = NoRequest
    OBVIOUS
  <2>2. request' = [request EXCEPT ![r] = new] /\ stored' = stored
    BY <1>1, <2>1
  <2> QED
    BY <2>1, <2>2, RequestStep
<1>4. /\ shown' \in [game : Games \cup {None}, moves : Nat, from : {"none", "call", "push"}]
      /\ shown'.from = "call"
  BY <1>1, <1>2 DEF Snapshot
<1>5. BoardTypeOK'
  BY <1>1, <1>3, <1>4 DEF BoardInv, BoardTypeOK, subscriber, gateway
<1>6. NoneAhead'
  BY <1>1, <1>3 DEF BoardInv, NoneAhead
<1>7. IdsLeft'
  <2>1. request \in [Requests -> HttpRequests] /\ IdsLeft
    BY DEF BoardInv, BoardTypeOK
  <2>2. UNCHANGED <<opens, nextId>>
    BY <1>1 DEF subscriber
  <2> QED
    BY <1>1, <1>3, <2>1, <2>2, NotOpening
<1>8. IdsInv'
  BY <1>1, IdsKept DEF BoardInv, subscriber, gateway
<1>9. ASSUME NEW x, Tells(x)
      PROVE  Tells(x)'
  BY <1>1, <1>4, <1>9 DEF Tells, Update, subscriber, gateway
<1>10. NewestInv'
  <2>1. active' = active /\ subs' = subs
    BY <1>1 DEF subscriber, gateway
  <2> SUFFICES ASSUME active.id # 0, subs[active.id].at # "none", ~missed
               PROVE  LET s == subs[active.id]  g == active.game
                      IN  /\ s.buf # <<>> => s.buf[Len(s.buf)] = lastPublished[g]
                          /\ s.buf = <<>> /\ lastPublished[g] = stored[g] =>
                                /\ s.at = "fetched" => s.current = stored[g]
                                /\ s.at = "relaying" => Tells(stored[g])'
    BY <1>1, <2>1 DEF NewestInv
  <2>2. LET s == subs[active.id]  g == active.game
        IN  /\ s.buf # <<>> => s.buf[Len(s.buf)] = lastPublished[g]
            /\ s.buf = <<>> /\ lastPublished[g] = stored[g] =>
                  /\ s.at = "fetched" => s.current = stored[g]
                  /\ s.at = "relaying" => Tells(stored[g])
    BY DEF BoardInv, NewestInv
  <2>3. PICK x : x = stored[active.game] /\ x = stored'[active'.game]
    BY <1>1, <2>1
  <2>4. Tells(x) => Tells(x)'
    BY <1>9
  <2> QED
    BY <2>2, <2>3, <2>4
<1> QED
  BY <1>5, <1>6, <1>7, <1>8, <1>10 DEF BoardInv

\* A game that is opened takes a new id, which nothing under way carries.
LEMMA OpenedBoard ==
    ASSUME BoardInv, NEW r \in Requests, request[r] # NoRequest, NEW n \in Readings(r),
           Apply(r, n), request[r].at = "opening"
    PROVE  BoardInv'
<1>1. PICK g \in Games : g = request[r].game
  BY ReadingsBehind
<1>2. n \in Nat
  BY ReadingsBehind
<1>3. /\ request' = [request EXCEPT ![r] = NoRequest]
      /\ shown' = Snapshot(g, n, "call")
      /\ SubscribeGame(g)
      /\ UNCHANGED <<stored, opens, lastPublished>>
  BY <1>1 DEF Apply
<1>4. PICK want : want = [id |-> nextId, game |-> g]
  OBVIOUS
<1>5. nextId \in Nat \ {0} /\ opens \in Nat /\ MaxOpens \in Nat
  BY LiveBoardAssumption DEF BoardInv, BoardTypeOK
<1>6. /\ active' = want /\ want.id = nextId /\ want.game = g
      /\ nextId' = nextId + 1
  BY <1>3, <1>4 DEF SubscribeGame
<1>7. /\ up \in Seq(Frames) /\ down \in Seq(Frames)
      /\ subs \in [1..MaxOpens -> Subscriptions] /\ active.id \in Nat
  BY DEF BoardInv, BoardTypeOK
<1>8. /\ request' \in [Requests -> HttpRequests]
      /\ \A q \in Requests : request'[q] # NoRequest =>
             /\ request'[q].at # "none"
             /\ request'[q].game \in Games
             /\ request'[q].moves <= stored'[request'[q].game]
      /\ NoRequest.at # "opening"
  <2>1. PICK new : new = NoRequest
    OBVIOUS
  <2>2. request' = [request EXCEPT ![r] = new] /\ stored' = stored
    BY <1>3, <2>1
  <2> QED
    BY <2>1, <2>2, RequestStep
<1>9. shown' \in [game : Games \cup {None}, moves : Nat, from : {"none", "call", "push"}]
  BY <1>2, <1>3 DEF Snapshot
<1>10. IdsLeft' /\ nextId \in 1..MaxOpens
  <2>1. request \in [Requests -> HttpRequests]
    BY DEF BoardInv, BoardTypeOK
  <2>2. Opening' = Opening \ {r} /\ r \in Opening
    BY <1>3, <1>8, <2>1 DEF Opening
  <2>3. PICK old : old = Opening
    OBVIOUS
  <2>4. IsFiniteSet(old) /\ Cardinality(old) \in Nat
    BY <2>3, RequestsFinite
  <2>5. /\ IsFiniteSet(old \ {r})
        /\ Cardinality(old \ {r}) = IF r \in old THEN Cardinality(old) - 1
                                    ELSE Cardinality(old)
    BY <2>4, FS_RemoveElement
  <2>6. Cardinality(old \ {r}) \in Nat
    BY <2>5, FS_CardinalityType
  <2>7. PICK a \in Nat, b \in Nat : /\ a = Cardinality(old) /\ b = Cardinality(old \ {r})
                                    /\ b = a - 1
    BY <2>2, <2>3, <2>4, <2>5, <2>6
  <2>8. a + nextId <= opens + 1 /\ opens <= MaxOpens
    BY <2>3, <2>7 DEF BoardInv, IdsLeft
  <2>9. b + (nextId + 1) <= opens + 1 /\ nextId \in 1..MaxOpens
    BY <1>5, <2>7, <2>8
  <2>10. Cardinality(Opening') = b
    BY <2>2, <2>3, <2>7
  <2> QED
    BY <1>3, <1>6, <2>8, <2>9, <2>10 DEF IdsLeft
<1>11. PICK start, stop : /\ start = Frame("subscribe", nextId, g, 0)
                          /\ stop = Frame("complete", active.id, None, 0)
  OBVIOUS
<1>12. /\ start \in Frames /\ start.id = nextId /\ start.type = "subscribe" /\ start.game = g
       /\ stop \in Frames /\ stop.id = active.id /\ stop.type = "complete"
  BY <1>5, <1>7, <1>11 DEF Frame, Frames
<1>13. CASE acked
  <2>1. down' = down /\ subs' = subs
    BY <1>3, <1>13 DEF SubscribeGame
  <2>2. /\ up' \in Seq(Frames)
        /\ \A k \in 1..Len(up') : \/ k \in 1..Len(up) /\ up'[k] = up[k]
                                  \/ up'[k] = stop \/ up'[k] = start
    <3>1. CASE socket # "open"
      BY <1>3, <1>7, <1>13, <3>1 DEF SubscribeGame
    <3>2. CASE socket = "open" /\ active.id = 0
      <4>1. up' = up \o <<>> \o <<start>>
        BY <1>3, <1>4, <1>6, <1>11, <1>13, <3>2 DEF SubscribeGame, Start
      <4>2. up' = Append(up, start)
        BY <1>7, <1>12, <4>1
      <4> QED
        BY <1>7, <1>12, <4>2
    <3>3. CASE socket = "open" /\ active.id # 0
      <4>1. up' = up \o <<stop>> \o <<start>>
        BY <1>3, <1>4, <1>6, <1>11, <1>13, <3>3 DEF SubscribeGame, Start
      <4>2. PICK mid : mid = up \o <<stop>>
        OBVIOUS
      <4>3. /\ mid \in Seq(Frames)
            /\ \A k \in 1..Len(mid) : (k \in 1..Len(up) /\ mid[k] = up[k]) \/ mid[k] = stop
        BY <1>7, <1>12, <4>2
      <4>4. /\ up' \in Seq(Frames)
            /\ \A k \in 1..Len(up') : (k \in 1..Len(mid) /\ up'[k] = mid[k]) \/ up'[k] = start
        <5>1. up' = mid \o <<start>>
          BY <4>1, <4>2
        <5> QED
          BY <1>12, <4>3, <5>1
      <4> QED
        BY <4>3, <4>4
    <3> QED
      BY <3>1, <3>2, <3>3
  <2>3. BoardTypeOK'
    <3>1. /\ stored' \in [Games -> Nat] /\ lastPublished' \in [Games -> Nat]
          /\ opens' \in Nat
      BY <1>3 DEF BoardInv, BoardTypeOK
    <3>2. active' \in [id : Nat, game : Games \cup {None}] /\ nextId' \in Nat \ {0}
      BY <1>4, <1>5, <1>6
    <3> QED
      BY <1>7, <1>8, <1>9, <2>1, <2>2, <3>1, <3>2 DEF BoardTypeOK
  <2>4. NoneAhead'
    BY <1>3, <1>8 DEF BoardInv, NoneAhead
  <2>5. IdsInv'
    <3>1. ASSUME NEW k \in 1..Len(up')
          PROVE  /\ up'[k].id < nextId'
                 /\ up'[k].type = "subscribe" =>
                       /\ up'[k].game \in Games
                       /\ up'[k].id = active'.id => up'[k].game = active'.game
      <4>1. CASE k \in 1..Len(up) /\ up'[k] = up[k]
        <5>1. /\ up[k].id < nextId
              /\ up[k].type = "subscribe" => up[k].game \in Games
          BY <4>1 DEF BoardInv, IdsInv
        <5>2. up[k].id \in Nat
          <6>1. up[k] \in Frames
            BY <1>7, <4>1
          <6> QED
            BY <6>1 DEF Frames
        <5>3. up[k].id < nextId + 1 /\ up[k].id # nextId
          BY <1>5, <5>1, <5>2
        <5> QED
          BY <1>6, <4>1, <5>1, <5>3
      <4>2. CASE up'[k] = start
        BY <1>5, <1>6, <1>12, <4>2
      <4>3. CASE up'[k] = stop
        <5>1. active.id < nextId
          BY DEF BoardInv, IdsInv
        <5>2. active.id < nextId + 1
          BY <1>5, <1>7, <5>1
        <5> QED
          BY <1>6, <1>12, <4>3, <5>2
      <4> QED
        BY <2>2, <4>1, <4>2, <4>3
    <3>2. ASSUME NEW k \in 1..Len(down')
          PROVE  down'[k].id < nextId' /\ (Update(down[k])' => down'[k].game = active'.game)
      <4>1. down[k].id < nextId /\ down[k].id \in Nat
        <5>1. down[k] \in Frames
          BY <1>7, <2>1
        <5>2. down[k].id \in Nat
          BY <5>1 DEF Frames
        <5> QED
          BY <2>1, <5>2 DEF BoardInv, IdsInv
      <4>2. down[k].id < nextId + 1 /\ down[k].id # nextId
        BY <1>5, <4>1
      <4> QED
        BY <1>6, <2>1, <4>2 DEF Update
    <3>3. ASSUME NEW i \in 1..MaxOpens, subs'[i].at # "none"
          PROVE  /\ i < nextId'
                 /\ subs'[i].game \in Games
                 /\ i = active'.id => subs'[i].game = active'.game
      <4>1. i < nextId /\ subs[i].game \in Games
        BY <2>1, <3>3 DEF BoardInv, IdsInv
      <4>2. i < nextId + 1 /\ i # nextId
        BY <1>5, <4>1
      <4> QED
        BY <1>6, <2>1, <4>1, <4>2
    <3>4. active'.id < nextId' /\ active'.game \in Games
      BY <1>5, <1>6
    <3> QED
      BY <3>1, <3>2, <3>3, <3>4 DEF IdsInv
  <2>6. NewestInv'
    <3>1. subs[nextId].at = "none"
      <4>1. ~(nextId < nextId)
        BY <1>5
      <4> QED
        BY <1>10, <4>1 DEF BoardInv, IdsInv
    <3> QED
      BY <1>6, <2>1, <3>1, NotServed
  <2> QED
    BY <1>10, <2>3, <2>4, <2>5, <2>6 DEF BoardInv
<1>14. CASE ~acked
  <2>1. up' = <<>> /\ down' = <<>> /\ subs' = NoSubs
    BY <1>3, <1>14 DEF SubscribeGame, ConnectSocket
  <2>2. subs' \in [1..MaxOpens -> Subscriptions] /\ \A i \in 1..MaxOpens : subs'[i].at = "none"
    BY <2>1, NoSubsServeNothing
  <2>3. up' \in Seq(Frames) /\ down' \in Seq(Frames) /\ Len(up') = 0 /\ Len(down') = 0
    BY <2>1
  <2>4. BoardTypeOK'
    <3>1. /\ stored' \in [Games -> Nat] /\ lastPublished' \in [Games -> Nat]
          /\ opens' \in Nat
      BY <1>3 DEF BoardInv, BoardTypeOK
    <3>2. active' \in [id : Nat, game : Games \cup {None}] /\ nextId' \in Nat \ {0}
      BY <1>4, <1>5, <1>6
    <3> QED
      BY <1>8, <1>9, <2>2, <2>3, <3>1, <3>2 DEF BoardTypeOK
  <2>5. NoneAhead'
    BY <1>3, <1>8 DEF BoardInv, NoneAhead
  <2>6. active'.id < nextId' /\ active'.game \in Games
    BY <1>5, <1>6
  <2>7. IdsInv'
    BY <2>2, <2>3, <2>6 DEF IdsInv
  <2>8. NewestInv'
    BY <1>6, <1>10, <2>2, NotServed
  <2> QED
    BY <1>10, <2>4, <2>5, <2>7, <2>8 DEF BoardInv
<1> QED
  BY <1>13, <1>14

LEMMA ApplyBoard ==
    ASSUME BoardInv, NEW r \in Requests, request[r] # NoRequest, NEW n \in Readings(r),
           Apply(r, n)
    PROVE  BoardInv'
  BY AnsweredBoard, OpenedBoard

-----------------------------------------------------------------------------

\* Every step of the page, its socket, the gateway and the game-service keeps what
\* the board's freshness rests on.
THEOREM BoardInductive == BoardSpec => []BoardInv
<1>1. BoardInit => BoardInv
  BY BoardStart
<1>2. BoardInv /\ [BoardNext]_boardVars => BoardInv'
  <2> SUFFICES ASSUME BoardInv, [BoardNext]_boardVars PROVE BoardInv'
    OBVIOUS
  <2>1. DOMAIN subs = 1..MaxOpens
    BY DEF BoardInv, BoardTypeOK
  <2>2. CASE \E g \in Games : Open(g)
    BY <2>2, OpenBoard
  <2>3. CASE \E g \in Games : \E mine \in BOOLEAN : Move(g, mine)
    BY <2>3, MoveBoard
  <2>4. CASE \E r \in Requests : Serve(r)
    BY <2>4, PublishBoard, ApplyBoard DEF Serve
  <2>5. CASE \E r \in Requests : ServeFails(r)
    BY <2>5, PublishFailsBoard DEF ServeFails
  <2>6. CASE SocketOpens \/ Drop \/ OnClose \/ Reconnect
    BY <2>6, OpensBoard, DropBoard, CloseBoard, ReconnectBoard
  <2>7. CASE OnMessage \/ ReadFrame
    BY <2>7, MessageBoard, ReadBoard
  <2>8. CASE \E i \in DOMAIN subs : Gateway(i)
    BY <2>1, <2>8, FetchBoard, SendBoard, ForwardBoard DEF Gateway
  <2>9. CASE UNCHANGED boardVars
    <3>1. UNCHANGED <<stored, page, subscriber, gateway, history>>
      BY <2>9 DEF boardVars
    <3>2. BoardTypeOK' /\ NoneAhead' /\ IdsLeft'
      BY <3>1, SocketTypes DEF BoardInv, BoardTypeOK, page, subscriber, gateway, history
    <3> QED
      BY <3>1, <3>2, IdsKept, NewestKept DEF BoardInv, page, subscriber, gateway, history
  <2> QED
    BY <2>2, <2>3, <2>4, <2>5, <2>6, <2>7, <2>8, <2>9 DEF BoardNext
<1> QED
  BY <1>1, <1>2, PTL DEF BoardSpec

\* When all is quiet the board shows the game as stored: through drops, reconnections,
\* refusals and switches of game, for any number of games, requests, frames and any
\* size of the bus buffer, it is behind only by the answer of a call, by an update
\* dropped at the full buffer, or by an older update published last.
THEOREM BoardIsFresh == BoardSpec => []BehindOnlyBy
<1>1. BoardInv => BehindOnlyBy
  <2> SUFFICES ASSUME BoardInv, Quiet, shown.from # "call", ~missed,
                      lastPublished[active.game] = stored[active.game]
               PROVE  shown.game = active.game /\ shown.moves = stored[active.game]
    BY DEF BehindOnlyBy
  <2>1. /\ active.id # 0 /\ subs[active.id].at = "relaying"
        /\ subs[active.id].buf = <<>> /\ down = <<>>
    BY DEF Quiet, Served
  <2>2. Tells(stored[active.game])
    BY <2>1 DEF BoardInv, NewestInv
  <2> QED
    BY <2>1, <2>2 DEF Tells
<1> QED
  BY <1>1, BoardInductive, PTL
=============================================================================
