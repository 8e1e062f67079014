------------------------ MODULE RequestMetrics_proofs ------------------------
(* What the counters and histograms say, for any number of requests and any *)
(* concurrency limit.                                                       *)
EXTENDS RequestMetrics, FiniteSetTheorems, TLAPS

Holders(o) == {r \in Requests : request[r] \in {"waiting", "working"} /\ o \in Timers(r)}

\* The sends whose committed note was already left by its handler.
Settled == {r \in Sends : request[r] = "ended" /\ closure[r] = "ok"}

\* An "ok" of a SendNote, and of its query, is that of one settled send.
OkIsSettled ==
    /\ ok["grpc_send_note"] <= ok["db_store_note"]
    /\ ok["db_store_note"] <= Cardinality(Settled)
    /\ ok["grpc_fetch_notes"] <= ok["db_fetch_notes"]

\* The timer of the retention task, which outlives its finish().
Asleep(o) == IF o = "db_cleanup" /\ cleanup = "asleep" THEN 1 ELSE 0

\* What this code's timers add up to: Drop records every one of them once, and
\* finish() before that those that end well.
Balanced ==
    \A o \in Ops :
        /\ count[o] = dropped[o] + Alive(o)
        /\ ok[o] <= dropped[o] + Asleep(o)

\* Sizes and cursor resets belong to the operations they are recorded with.
SizesAgree ==
    /\ sized["note_size"] = count["grpc_send_note"]
    /\ sized["replied_notes_number"] = ok["grpc_fetch_notes"]
    /\ sized["replied_notes_size"] = ok["grpc_fetch_notes"]
    /\ count["legacy_cursor_reset"] <= count["db_fetch_notes"]

IInv == TypeOK /\ PermitsAddUp /\ Balanced /\ SizesAgree /\ OkIsSettled

-----------------------------------------------------------------------------
LEMMA RequestsFinite ==
    /\ IsFiniteSet(Requests)
    /\ \A S \in SUBSET Requests : IsFiniteSet(S) /\ Cardinality(S) \in Nat
PROOF
<1>1. IsFiniteSet(Requests)
  BY MetricsAssumption, FS_Union DEF Requests
<1> QED BY <1>1, FS_Subset, FS_CardinalityType

\* Every request is timed as one gRPC operation and one query.
LEMMA TimersAreOps ==
    ASSUME NEW r \in Requests
    PROVE  Timers(r) \in SUBSET Ops /\ GrpcTimer(r) \in SUBSET Ops
BY DEF Timers, GrpcTimer, Ops, GrpcOps, DbOps

LEMMA Names ==
    /\ {"grpc_send_note", "db_store_note", "grpc_fetch_notes", "db_fetch_notes",
        "db_cleanup"} = Ops
    /\ Counters = Ops \cup {"legacy_cursor_reset"} /\ "legacy_cursor_reset" \notin Ops
    /\ GrpcSizes = {"note_size", "replied_notes_number", "replied_notes_size"}
BY DEF Ops, GrpcOps, DbOps, Counters, DbEvents, GrpcSizes

LEMMA PlusCounts ==
    ASSUME NEW D, NEW f \in [D -> Nat], NEW S
    PROVE  /\ Plus(f, S) \in [D -> Nat]
           /\ \A o \in D : Plus(f, S)[o] = f[o] + (IF o \in S THEN 1 ELSE 0)
BY DEF Plus

\* A request that enters adds itself to the active ones.
LEMMA EnteringCounts ==
    ASSUME TypeOK, NEW r \in Requests, NEW v \in {"waiting", "working"},
           request[r] \notin {"waiting", "working"},
           request' = [request EXCEPT ![r] = v]
    PROVE  /\ Cardinality(Active') = Cardinality(Active) + 1
           /\ \A o \in Ops : Cardinality(Holders(o)') =
                  Cardinality(Holders(o)) + (IF o \in Timers(r) THEN 1 ELSE 0)
PROOF
<1>1. Active' = Active \cup {r} /\ r \notin Active
  BY DEF Active, TypeOK
<1>2. Cardinality(Active') = Cardinality(Active) + 1
  BY <1>1, RequestsFinite, FS_AddElement DEF Active
<1>3. ASSUME NEW o \in Ops
      PROVE  Cardinality(Holders(o)') =
                 Cardinality(Holders(o)) + (IF o \in Timers(r) THEN 1 ELSE 0)
  <2>1. Holders(o) \in SUBSET Requests /\ r \notin Holders(o)
    BY DEF Holders
  <2>2. CASE o \in Timers(r)
    <3>1. Holders(o)' = Holders(o) \cup {r}
      BY <2>2 DEF Holders, TypeOK, Timers
    <3> QED BY <2>1, <2>2, <3>1, RequestsFinite, FS_AddElement
  <2>3. CASE o \notin Timers(r)
    <3>1. Holders(o)' = Holders(o)
      BY <2>3 DEF Holders, TypeOK, Timers
    <3> QED BY <2>1, <2>3, <3>1, RequestsFinite
  <2> QED BY <2>2, <2>3
<1> QED BY <1>2, <1>3

\* One that leaves takes itself out.
LEMMA LeavingCounts ==
    ASSUME TypeOK, NEW r \in Requests, request[r] \in {"waiting", "working"},
           request' = [request EXCEPT ![r] = "ended"]
    PROVE  /\ Cardinality(Active') = Cardinality(Active) - 1
           /\ \A o \in Ops : Cardinality(Holders(o)') =
                  Cardinality(Holders(o)) - (IF o \in Timers(r) THEN 1 ELSE 0)
PROOF
<1>1. Active' = Active \ {r} /\ r \in Active
  BY DEF Active, TypeOK
<1>2. Cardinality(Active') = Cardinality(Active) - 1
  BY <1>1, RequestsFinite, FS_RemoveElement DEF Active
<1>3. ASSUME NEW o \in Ops
      PROVE  Cardinality(Holders(o)') =
                 Cardinality(Holders(o)) - (IF o \in Timers(r) THEN 1 ELSE 0)
  <2>1. Holders(o) \in SUBSET Requests
    BY DEF Holders
  <2>2. CASE o \in Timers(r)
    <3>1. Holders(o)' = Holders(o) \ {r} /\ r \in Holders(o)
      BY <2>2 DEF Holders, TypeOK, Timers
    <3> QED BY <2>1, <2>2, <3>1, RequestsFinite, FS_RemoveElement
  <2>3. CASE o \notin Timers(r)
    <3>1. Holders(o)' = Holders(o)
      BY <2>3 DEF Holders, TypeOK, Timers
    <3> QED BY <2>1, <2>3, <3>1, RequestsFinite
  <2> QED BY <2>2, <2>3
<1> QED BY <1>2, <1>3

\* Any other step of a request keeps the active ones as they are.
LEMMA StayingCounts ==
    ASSUME TypeOK, NEW r \in Requests, NEW v,
           request[r] \in {"waiting", "working"} <=> v \in {"waiting", "working"},
           request' = [request EXCEPT ![r] = v]
    PROVE  Active' = Active /\ \A o \in Ops : Holders(o)' = Holders(o)
BY DEF Active, Holders, TypeOK, Timers

\* A send that has settled stays so.
LEMMA SettledStays ==
    ASSUME Settled \subseteq Settled'
    PROVE  Cardinality(Settled) <= Cardinality(Settled')
PROOF
<1>1. IsFiniteSet(Settled') /\ Settled \in SUBSET Settled'
  <2>1. Settled' \in SUBSET Requests
    BY DEF Settled, Requests
  <2> QED BY <2>1, RequestsFinite
<1> QED BY <1>1, FS_Subset

LEMMA InitInv == Init => IInv
PROOF
<1> SUFFICES ASSUME Init PROVE IInv
  OBVIOUS
<1>1. Active = {} /\ Settled = {} /\ \A o \in Ops : Holders(o) = {}
  BY DEF Init, Active, Settled, Holders, Requests
<1>2. Cardinality({}) = 0
  BY FS_EmptySet
<1>3. TypeOK
  BY MetricsAssumption DEF Init, TypeOK
<1>4. PermitsAddUp
  BY <1>1, <1>2, MetricsAssumption DEF Init, PermitsAddUp
<1>5. Balanced
  BY <1>1, <1>2, Names DEF Init, Balanced, Alive, Asleep, Holders
<1>6. OkIsSettled /\ SizesAgree
  BY <1>1, <1>2, Names DEF Init, OkIsSettled, SizesAgree
<1> QED BY <1>3, <1>4, <1>5, <1>6 DEF IInv

\* What is alive besides requests.
Background(o) == (IF o = "db_cleanup" /\ cleanup # "due" THEN 1 ELSE 0)
                     + (IF o = "db_fetch_notes" /\ poll = "reading" THEN 1 ELSE 0)

\* The types that arithmetic needs, before a step and after it.
LEMMA Sizes ==
    /\ Cardinality(Active) \in Nat /\ Cardinality(Active') \in Nat
    /\ Cardinality(Settled) \in Nat /\ Cardinality(Settled') \in Nat
    /\ \A o \in Ops : Cardinality(Holders(o)) \in Nat /\ Cardinality(Holders(o)') \in Nat
PROOF
<1>1. /\ Active \in SUBSET Requests /\ Active' \in SUBSET Requests
      /\ Settled \in SUBSET Requests /\ Settled' \in SUBSET Requests
      /\ \A o \in Ops : Holders(o) \in SUBSET Requests /\ Holders(o)' \in SUBSET Requests
  BY DEF Active, Settled, Holders, Requests
<1> QED BY <1>1, RequestsFinite

LEMMA Typed ==
    ASSUME TypeOK
    PROVE  /\ ok \in [Ops -> Nat] /\ dropped \in [Ops -> Nat]
           /\ count \in [Counters -> Nat] /\ \A o \in Ops : count[o] \in Nat
           /\ sized \in [GrpcSizes -> Nat]
BY Names DEF TypeOK

LEMMA AliveIs ==
    ASSUME NEW o \in Ops
    PROVE  /\ Alive(o) = Cardinality(Holders(o)) + Background(o)
           /\ Alive(o)' = Cardinality(Holders(o)') + Background(o)'
           /\ Background(o) \in Nat /\ Background(o)' \in Nat
PROOF
<1>1. Cardinality(Holders(o)) \in Nat /\ Cardinality(Holders(o)') \in Nat
  BY Sizes
<1>2. /\ Alive(o) = Cardinality(Holders(o))
                       + (IF o = "db_cleanup" /\ cleanup # "due" THEN 1 ELSE 0)
                       + (IF o = "db_fetch_notes" /\ poll = "reading" THEN 1 ELSE 0)
      /\ Alive(o)' = Cardinality(Holders(o)')
                       + (IF o = "db_cleanup" /\ cleanup' # "due" THEN 1 ELSE 0)
                       + (IF o = "db_fetch_notes" /\ poll' = "reading" THEN 1 ELSE 0)
  BY DEF Alive, Holders
<1> QED BY <1>1, <1>2 DEF Background

-----------------------------------------------------------------------------
\* One more, for the members of a set.
One(o, S) == IF o \in S THEN 1 ELSE 0

LEMMA PlusNone ==
    ASSUME NEW D, NEW f \in [D -> Nat]
    PROVE  Plus(f, {}) = f
BY DEF Plus

\* The books stay balanced if a step counts the operations in C, finishes those in
\* F, drops those in D and records the sizes in M, and the timers in scope follow.
LEMMA Kept ==
    ASSUME IInv, NEW C, NEW F, NEW D, NEW M,
           count' = Plus(count, C), ok' = Plus(ok, F), dropped' = Plus(dropped, D),
           sized' = Plus(sized, M),
           \A o \in Ops : /\ Alive(o)' = Alive(o) + One(o, C) - One(o, D)
                          /\ Asleep(o) + One(o, F) <= Asleep(o)' + One(o, D),
           "note_size" \in M <=> "grpc_send_note" \in C,
           "replied_notes_number" \in M <=> "grpc_fetch_notes" \in F,
           "replied_notes_size" \in M <=> "grpc_fetch_notes" \in F,
           "legacy_cursor_reset" \in C => "db_fetch_notes" \in C,
           "grpc_send_note" \in F => "db_store_note" \in F,
           "grpc_fetch_notes" \in F => "db_fetch_notes" \in F,
           Cardinality(Settled) + One("db_store_note", F) <= Cardinality(Settled')
    PROVE  /\ count' \in [Counters -> Nat] /\ sized' \in [GrpcSizes -> Nat]
           /\ ok' \in [Ops -> Nat] /\ dropped' \in [Ops -> Nat]
           /\ Balanced' /\ SizesAgree' /\ OkIsSettled'
PROOF
<1> USE DEF IInv
<1>1. /\ count' \in [Counters -> Nat] /\ sized' \in [GrpcSizes -> Nat]
      /\ ok' \in [Ops -> Nat] /\ dropped' \in [Ops -> Nat]
  BY Typed, PlusCounts
<1>2. /\ \A o \in Counters : count'[o] = count[o] + One(o, C) /\ count[o] \in Nat
      /\ \A o \in Ops : ok'[o] = ok[o] + One(o, F) /\ ok[o] \in Nat
      /\ \A o \in Ops : dropped'[o] = dropped[o] + One(o, D) /\ dropped[o] \in Nat
      /\ \A h \in GrpcSizes : sized'[h] = sized[h] + One(h, M) /\ sized[h] \in Nat
  BY Typed, PlusCounts DEF One
<1>3. Balanced'
  <2> SUFFICES ASSUME NEW o \in Ops
               PROVE  /\ count'[o] = dropped'[o] + Alive(o)'
                      /\ ok'[o] <= dropped'[o] + Asleep(o)'
    BY DEF Balanced
  <2>1. Alive(o) \in Nat /\ Asleep(o) \in Nat /\ Asleep(o)' \in Nat
    BY AliveIs, Sizes DEF Asleep
  <2>2. One(o, C) \in Nat /\ One(o, D) \in Nat /\ One(o, F) \in Nat /\ o \in Counters
    BY Names DEF One
  <2>3. count[o] = dropped[o] + Alive(o) /\ ok[o] <= dropped[o] + Asleep(o)
    BY DEF Balanced
  <2>4. /\ Alive(o)' = Alive(o) + One(o, C) - One(o, D)
        /\ Asleep(o) + One(o, F) <= Asleep(o)' + One(o, D)
    OBVIOUS
  <2> QED BY <1>2, <2>1, <2>2, <2>3, <2>4
<1>4. SizesAgree'
  BY <1>2, Names DEF SizesAgree, One
<1>5. OkIsSettled'
  BY <1>2, Names, Sizes DEF OkIsSettled, One
<1> QED BY <1>1, <1>3, <1>4, <1>5

\* A request that ends in the queue was counted for the operations it recorded.
LEMMA UnservedStep ==
    ASSUME IInv, NEW r \in Requests, NEW S \in SUBSET Ops, NEW F \in {{}, S},
           NEW L \in SUBSET {"legacy_cursor_reset"}, NEW M,
           request[r] = "queued",
           request' = [request EXCEPT ![r] = "ended"],
           UNCHANGED <<closure, permits, tasks>>,
           count' = Plus(count, S \cup L), ok' = Plus(ok, F), dropped' = Plus(dropped, S),
           sized' = Plus(sized, M),
           F \cap {"grpc_send_note", "db_store_note"} = {},
           "note_size" \in M <=> "grpc_send_note" \in S,
           "replied_notes_number" \in M <=> "grpc_fetch_notes" \in F,
           "replied_notes_size" \in M <=> "grpc_fetch_notes" \in F,
           "db_fetch_notes" \in S \/ L \cup F = {}
    PROVE  IInv'
PROOF
<1> USE DEF IInv
<1>1. Active' = Active /\ \A o \in Ops : Holders(o)' = Holders(o)
  BY StayingCounts
<1>2. \A o \in Ops : /\ Alive(o)' = Alive(o) /\ Alive(o) \in Nat
                     /\ Asleep(o)' = Asleep(o) /\ Asleep(o) \in Nat
  BY <1>1, AliveIs, Sizes DEF Background, Asleep, tasks
<1>3. Cardinality(Settled) <= Cardinality(Settled')
  BY SettledStays DEF Settled, TypeOK, Requests
<1>4. /\ "legacy_cursor_reset" \in S \cup L => "db_fetch_notes" \in S \cup L
      /\ "grpc_send_note" \in S \cup L <=> "grpc_send_note" \in S
      /\ "grpc_fetch_notes" \in F => "db_fetch_notes" \in F
  BY Names
<1>5. \A o \in Ops : /\ Alive(o)' = Alive(o) + One(o, S \cup L) - One(o, S)
                     /\ Asleep(o) + One(o, F) <= Asleep(o)' + One(o, S)
  BY <1>2, Names DEF One
<1>6. Cardinality(Settled) + One("db_store_note", F) <= Cardinality(Settled')
  BY <1>3, Sizes DEF One
<1>7. /\ count' \in [Counters -> Nat] /\ sized' \in [GrpcSizes -> Nat]
      /\ ok' \in [Ops -> Nat] /\ dropped' \in [Ops -> Nat]
      /\ Balanced' /\ SizesAgree' /\ OkIsSettled'
  BY <1>4, <1>5, <1>6, Kept
<1>8. TypeOK' /\ PermitsAddUp'
  BY <1>1, <1>7 DEF TypeOK, PermitsAddUp, tasks
<1> QED BY <1>7, <1>8

\* What a request does to the instruments by its kind.
LEMMA Kinds ==
    ASSUME NEW r \in Requests
    PROVE  /\ r \in Sends => /\ Timers(r) = {"grpc_send_note", "db_store_note"}
                             /\ GrpcTimer(r) = {"grpc_send_note"}
                             /\ NoteSizes(r) = {"note_size"} /\ ReplySizes(r) = {}
                             /\ Resets(r) = {}
           /\ r \notin Sends => /\ Timers(r) = {"grpc_fetch_notes", "db_fetch_notes"}
                                /\ GrpcTimer(r) = {"grpc_fetch_notes"}
                                /\ NoteSizes(r) = {}
                                /\ ReplySizes(r) = {"replied_notes_number",
                                                    "replied_notes_size"}
                                /\ Resets(r) \in SUBSET {"legacy_cursor_reset"}
BY MetricsAssumption DEF Requests, Timers, GrpcTimer, GrpcOps, NoteSizes, ReplySizes, Resets,
                         DbEvents

\* A request that waits for the database holds a permit and two timers.
LEMMA CallDatabaseStep ==
    ASSUME IInv, NEW r \in Requests, CallDatabase(r)
    PROVE  IInv'
PROOF
<1> USE DEF IInv
<1>1. /\ request[r] = "queued" /\ permits > 0 /\ permits' = permits - 1
      /\ request' = [request EXCEPT ![r] = "waiting"]
      /\ count' = Plus(count, Timers(r) \cup Resets(r))
      /\ sized' = Plus(sized, NoteSizes(r))
      /\ UNCHANGED <<closure, cleanup, poll, ok, dropped>>
  BY DEF CallDatabase, Enter, Count, Measure, tasks
<1>2. /\ Cardinality(Active') = Cardinality(Active) + 1
      /\ \A o \in Ops : Cardinality(Holders(o)') =
             Cardinality(Holders(o)) + (IF o \in Timers(r) THEN 1 ELSE 0)
  BY <1>1, EnteringCounts
<1>3. ok' = Plus(ok, {}) /\ dropped' = Plus(dropped, {})
  BY <1>1, Typed, PlusNone
<1>4. \A o \in Ops : One(o, Timers(r) \cup Resets(r)) = IF o \in Timers(r) THEN 1 ELSE 0
  BY Kinds, Names DEF One
<1>5. \A o \in Ops : /\ Alive(o)' = Alive(o) + One(o, Timers(r) \cup Resets(r)) - One(o, {})
                     /\ Asleep(o) + One(o, {}) <= Asleep(o)' + One(o, {})
  <2> SUFFICES ASSUME NEW o \in Ops
               PROVE  /\ Alive(o)' = Alive(o) + One(o, Timers(r) \cup Resets(r)) - One(o, {})
                      /\ Asleep(o) + One(o, {}) <= Asleep(o)' + One(o, {})
    OBVIOUS
  <2>1. Background(o)' = Background(o) /\ Asleep(o)' = Asleep(o) /\ Asleep(o) \in Nat
    BY <1>1 DEF Background, Asleep
  <2>2. One(o, {}) = 0
    BY DEF One
  <2>3. Cardinality(Holders(o)') = Cardinality(Holders(o)) + One(o, Timers(r) \cup Resets(r))
        /\ One(o, Timers(r) \cup Resets(r)) \in Nat
    BY <1>2, <1>4 DEF One
  <2> QED BY <2>1, <2>2, <2>3, AliveIs, Sizes
<1>6. Settled' = Settled
  BY <1>1 DEF Settled, TypeOK, Requests
<1>7. /\ "note_size" \in NoteSizes(r) <=> "grpc_send_note" \in Timers(r) \cup Resets(r)
      /\ "legacy_cursor_reset" \in Timers(r) \cup Resets(r)
             => "db_fetch_notes" \in Timers(r) \cup Resets(r)
  BY Kinds
<1>8. /\ "replied_notes_number" \in NoteSizes(r) <=> "grpc_fetch_notes" \in {}
      /\ "replied_notes_size" \in NoteSizes(r) <=> "grpc_fetch_notes" \in {}
  BY Kinds
<1>9. Cardinality(Settled) + One("db_store_note", {}) <= Cardinality(Settled')
  BY <1>6, Sizes DEF One
<1>10. /\ count' \in [Counters -> Nat] /\ sized' \in [GrpcSizes -> Nat]
       /\ ok' \in [Ops -> Nat] /\ dropped' \in [Ops -> Nat]
       /\ Balanced' /\ SizesAgree' /\ OkIsSettled'
  BY <1>1, <1>3, <1>5, <1>7, <1>8, <1>9, Kept
<1>11. TypeOK'
  <2>1. permits' \in 0 .. MaxConnections
    BY <1>1, MetricsAssumption DEF TypeOK
  <2>2. request' \in [Requests -> {"queued", "waiting", "working", "ended"}]
    BY <1>1 DEF TypeOK
  <2> QED BY <1>1, <1>10, <2>1, <2>2 DEF TypeOK
<1>12. PermitsAddUp'
  BY <1>1, <1>2, Sizes, MetricsAssumption DEF PermitsAddUp, TypeOK
<1> QED BY <1>10, <1>11, <1>12

\* A handler that leaves gives back its permit and abandons its timers, or
\* finishes them all, which a send does only once its note is committed.
LEMMA LeaveStep ==
    ASSUME IInv, NEW r \in Requests, request[r] \in {"waiting", "working"}, Leave(r),
           NEW F, NEW M,
           \/ F = {} /\ M = {}
           \/ F = Timers(r) /\ M = ReplySizes(r) /\ closure[r] = "ok",
           ok' = Plus(ok, F), dropped' = Plus(dropped, Timers(r)), sized' = Plus(sized, M)
    PROVE  IInv'
PROOF
<1> USE DEF IInv
<1>1. /\ request' = [request EXCEPT ![r] = "ended"] /\ permits' = permits + 1
      /\ UNCHANGED <<closure, cleanup, poll, count>>
  BY DEF Leave, tasks
<1>2. /\ Cardinality(Active') = Cardinality(Active) - 1
      /\ \A o \in Ops : Cardinality(Holders(o)') =
             Cardinality(Holders(o)) - (IF o \in Timers(r) THEN 1 ELSE 0)
  BY <1>1, LeavingCounts
<1>3. PermitsAddUp'
  BY <1>1, <1>2, Sizes, MetricsAssumption DEF PermitsAddUp, TypeOK
<1>4. count' = Plus(count, {})
  BY <1>1, Typed, PlusNone
<1>5. \A o \in Ops : /\ Alive(o)' = Alive(o) + One(o, {}) - One(o, Timers(r))
                     /\ Asleep(o) + One(o, F) <= Asleep(o)' + One(o, Timers(r))
  <2> SUFFICES ASSUME NEW o \in Ops
               PROVE  /\ Alive(o)' = Alive(o) + One(o, {}) - One(o, Timers(r))
                      /\ Asleep(o) + One(o, F) <= Asleep(o)' + One(o, Timers(r))
    OBVIOUS
  <2>1. Background(o)' = Background(o) /\ Asleep(o)' = Asleep(o) /\ Asleep(o) \in Nat
    BY <1>1 DEF Background, Asleep
  <2>2. /\ One(o, {}) = 0 /\ One(o, F) \in Nat /\ One(o, Timers(r)) \in Nat
        /\ One(o, F) <= One(o, Timers(r))
        /\ One(o, Timers(r)) = IF o \in Timers(r) THEN 1 ELSE 0
    BY DEF One
  <2> QED BY <1>2, <2>1, <2>2, AliveIs, Sizes
<1>6. Cardinality(Settled) + One("db_store_note", F) <= Cardinality(Settled')
  <2>1. Settled \subseteq Settled' /\ Settled \in SUBSET Requests
    BY <1>1 DEF Settled, TypeOK, Requests
  <2>2. CASE "db_store_note" \notin F
    BY <2>1, <2>2, SettledStays, Sizes DEF One
  <2>3. CASE "db_store_note" \in F
    <3>1. r \in Sends /\ closure[r] = "ok"
      BY <2>3, Kinds
    <3>2. Settled' = Settled \cup {r} /\ r \notin Settled
      BY <1>1, <3>1 DEF Settled, TypeOK, Requests
    <3>3. Cardinality(Settled') = Cardinality(Settled) + 1
      BY <2>1, <3>2, RequestsFinite, FS_AddElement
    <3> QED BY <2>3, <3>3, Sizes DEF One
  <2> QED BY <2>2, <2>3
<1>7. /\ "note_size" \in M <=> "grpc_send_note" \in {}
      /\ "replied_notes_number" \in M <=> "grpc_fetch_notes" \in F
      /\ "replied_notes_size" \in M <=> "grpc_fetch_notes" \in F
      /\ "legacy_cursor_reset" \in {} => "db_fetch_notes" \in {}
      /\ "grpc_send_note" \in F => "db_store_note" \in F
      /\ "grpc_fetch_notes" \in F => "db_fetch_notes" \in F
  BY Kinds
<1>8. /\ count' \in [Counters -> Nat] /\ sized' \in [GrpcSizes -> Nat]
      /\ ok' \in [Ops -> Nat] /\ dropped' \in [Ops -> Nat]
      /\ Balanced' /\ SizesAgree' /\ OkIsSettled'
  BY <1>4, <1>5, <1>6, <1>7, Kept
<1>9. TypeOK'
  <2>1. permits' \in 0 .. MaxConnections
    BY <1>1, <1>3, Sizes, MetricsAssumption DEF PermitsAddUp, TypeOK
  <2> QED BY <1>1, <1>8, <2>1 DEF TypeOK
<1> QED BY <1>3, <1>8, <1>9

\* A closure that starts or ends changes no count, and no settled send.
LEMMA ClosureStep ==
    ASSUME IInv, NEW r \in Requests, StartClosure(r) \/ EndClosure(r)
    PROVE  IInv'
PROOF
<1> USE DEF IInv
<1>1. UNCHANGED <<permits, cleanup, poll, metrics>>
  BY DEF StartClosure, EndClosure, tasks
<1>2. TypeOK'
  BY <1>1 DEF StartClosure, EndClosure, TypeOK, metrics
<1>3. Active' = Active /\ \A o \in Ops : Holders(o)' = Holders(o)
  <2>1. CASE StartClosure(r)
    BY <2>1, StayingCounts DEF StartClosure
  <2>2. CASE EndClosure(r)
    BY <2>2 DEF EndClosure, Active, Holders, Timers
  <2> QED BY <2>1, <2>2
<1>4. Settled \subseteq Settled'
  BY DEF StartClosure, EndClosure, Settled, TypeOK, Requests
<1>5. PermitsAddUp' /\ Balanced' /\ SizesAgree'
  BY <1>1, <1>3, AliveIs DEF PermitsAddUp, Balanced, SizesAgree, Background, Asleep, metrics
<1>6. OkIsSettled'
  BY <1>1, <1>4, Names, SettledStays, Sizes, Typed DEF OkIsSettled, metrics
<1> QED BY <1>2, <1>5, <1>6

\* A background task counts when it starts and is dropped when it ends.
LEMMA TaskStep ==
    ASSUME IInv, StartCleanup \/ FinishCleanup \/ EndCleanup \/ StartPoll \/ EndPoll
    PROVE  IInv'
PROOF
<1> USE DEF IInv
<1>1. UNCHANGED <<request, closure, permits, sized>>
  BY DEF StartCleanup, FinishCleanup, EndCleanup, StartPoll, EndPoll, requests
<1>2. /\ Active' = Active /\ Settled' = Settled
      /\ \A o \in Ops : Cardinality(Holders(o)') = Cardinality(Holders(o))
  BY <1>1 DEF Active, Settled, Holders, Timers
<1>3. \E C, F, D \in SUBSET {"db_cleanup", "db_fetch_notes"} :
          /\ count' = Plus(count, C) /\ ok' = Plus(ok, F) /\ dropped' = Plus(dropped, D)
          /\ \A o \in Ops : /\ Background(o)' = Background(o) + One(o, C) - One(o, D)
                            /\ Asleep(o) + One(o, F) <= Asleep(o)' + One(o, D)
  <2>1. Plus(count, {}) = count /\ Plus(ok, {}) = ok /\ Plus(dropped, {}) = dropped
    BY Typed, PlusNone
  <2>2. CASE StartCleanup
    <3>1. \A o \in Ops :
              /\ Background(o)' = Background(o) + One(o, {"db_cleanup"}) - One(o, {})
              /\ Asleep(o) + One(o, {}) <= Asleep(o)' + One(o, {})
      BY <2>2 DEF StartCleanup, Background, Asleep, One
    <3>2. /\ count' = Plus(count, {"db_cleanup"})
          /\ ok' = Plus(ok, {}) /\ dropped' = Plus(dropped, {})
      BY <2>1, <2>2 DEF StartCleanup, Count
    <3> QED BY <3>1, <3>2
  <2>3. CASE FinishCleanup
    <3>1. \A o \in Ops :
              /\ Background(o)' = Background(o) + One(o, {}) - One(o, {})
              /\ Asleep(o) + One(o, {"db_cleanup"}) <= Asleep(o)' + One(o, {})
      BY <2>3 DEF FinishCleanup, Background, Asleep, One
    <3>2. /\ count' = Plus(count, {})
          /\ ok' = Plus(ok, {"db_cleanup"}) /\ dropped' = Plus(dropped, {})
      BY <2>1, <2>3 DEF FinishCleanup
    <3> QED BY <3>1, <3>2
  <2>4. CASE EndCleanup
    <3>1. \A o \in Ops :
              /\ Background(o)' = Background(o) + One(o, {}) - One(o, {"db_cleanup"})
              /\ Asleep(o) + One(o, {}) <= Asleep(o)' + One(o, {"db_cleanup"})
      BY <2>4 DEF EndCleanup, Background, Asleep, One
    <3>2. /\ count' = Plus(count, {})
          /\ ok' = Plus(ok, {}) /\ dropped' = Plus(dropped, {"db_cleanup"})
      BY <2>1, <2>4 DEF EndCleanup, Abandon
    <3> QED BY <3>1, <3>2
  <2>5. CASE StartPoll
    <3>1. \A o \in Ops :
              /\ Background(o)' = Background(o) + One(o, {"db_fetch_notes"}) - One(o, {})
              /\ Asleep(o) + One(o, {}) <= Asleep(o)' + One(o, {})
      BY <2>5 DEF StartPoll, Background, Asleep, One
    <3>2. /\ count' = Plus(count, {"db_fetch_notes"})
          /\ ok' = Plus(ok, {}) /\ dropped' = Plus(dropped, {})
      BY <2>1, <2>5 DEF StartPoll, Count
    <3> QED BY <3>1, <3>2
  <2>6. CASE EndPoll
    <3>1. \A F \in {{}, {"db_fetch_notes"}} : \A o \in Ops :
              /\ Background(o)' = Background(o) + One(o, {}) - One(o, {"db_fetch_notes"})
              /\ Asleep(o) + One(o, F) <= Asleep(o)' + One(o, {"db_fetch_notes"})
      BY <2>6 DEF EndPoll, Background, Asleep, One
    <3>2. /\ count' = Plus(count, {}) /\ dropped' = Plus(dropped, {"db_fetch_notes"})
          /\ \E F \in {{}, {"db_fetch_notes"}} : ok' = Plus(ok, F)
      BY <2>1, <2>6 DEF EndPoll, Finish, Abandon
    <3> QED BY <3>1, <3>2
  <2> QED BY <2>2, <2>3, <2>4, <2>5, <2>6
<1>4. PICK C, F, D \in SUBSET {"db_cleanup", "db_fetch_notes"} :
          /\ count' = Plus(count, C) /\ ok' = Plus(ok, F) /\ dropped' = Plus(dropped, D)
          /\ \A o \in Ops : /\ Background(o)' = Background(o) + One(o, C) - One(o, D)
                            /\ Asleep(o) + One(o, F) <= Asleep(o)' + One(o, D)
  BY <1>3
<1>5. \A o \in Ops : /\ Alive(o)' = Alive(o) + One(o, C) - One(o, D)
                     /\ Asleep(o) + One(o, F) <= Asleep(o)' + One(o, D)
  <2> SUFFICES ASSUME NEW o \in Ops PROVE Alive(o)' = Alive(o) + One(o, C) - One(o, D)
    BY <1>4
  <2>1. One(o, C) \in Nat /\ One(o, D) \in Nat
    BY DEF One
  <2> QED BY <1>2, <1>4, <2>1, AliveIs, Sizes
<1>6. sized' = Plus(sized, {})
  BY <1>1, Typed, PlusNone
<1>7. Cardinality(Settled) + One("db_store_note", F) <= Cardinality(Settled')
  BY <1>2, Sizes DEF One
<1>8. /\ count' \in [Counters -> Nat] /\ sized' \in [GrpcSizes -> Nat]
      /\ ok' \in [Ops -> Nat] /\ dropped' \in [Ops -> Nat]
      /\ Balanced' /\ SizesAgree' /\ OkIsSettled'
  BY <1>4, <1>5, <1>6, <1>7, Kept
<1>9. cleanup' \in {"due", "cleaning", "asleep"} /\ poll' \in {"asleep", "reading"}
  BY DEF StartCleanup, FinishCleanup, EndCleanup, StartPoll, EndPoll, TypeOK
<1> QED BY <1>1, <1>2, <1>8, <1>9 DEF TypeOK, PermitsAddUp

\* Every step keeps the invariant.
LEMMA NextInv ==
    ASSUME IInv, [Next]_vars
    PROVE  IInv'
PROOF
<1>1. CASE UNCHANGED vars
  BY <1>1 DEF vars, requests, tasks, metrics, IInv, TypeOK, PermitsAddUp, Balanced,
              SizesAgree, OkIsSettled, Active, Settled, Alive, Asleep, Timers
<1>2. Plus(count, {}) = count /\ Plus(ok, {}) = ok /\ Plus(dropped, {}) = dropped
      /\ Plus(sized, {}) = sized
  BY Typed, PlusNone DEF IInv
<1>3. ASSUME NEW r \in Requests, RefuseMissingNote(r) \/ QuitQueue(r) PROVE IInv'
  <2>1. /\ request[r] = "queued" /\ request' = [request EXCEPT ![r] = "ended"]
        /\ UNCHANGED <<closure, permits, tasks, metrics>>
    BY <1>3 DEF RefuseMissingNote, QuitQueue, Enter
  <2>2. /\ count' = Plus(count, {} \cup {}) /\ ok' = Plus(ok, {})
        /\ dropped' = Plus(dropped, {}) /\ sized' = Plus(sized, {})
    BY <1>2, <2>1 DEF metrics
  <2> QED BY <2>1, <2>2, UnservedStep
<1>4. ASSUME NEW r \in Requests, Refuse(r) PROVE IInv'
  <2>1. /\ request[r] = "queued" /\ request' = [request EXCEPT ![r] = "ended"]
        /\ UNCHANGED <<closure, permits, tasks>>
        /\ count' = Plus(count, GrpcTimer(r) \cup {}) /\ ok' = Plus(ok, {})
        /\ dropped' = Plus(dropped, GrpcTimer(r)) /\ sized' = Plus(sized, NoteSizes(r))
    BY <1>2, <1>4 DEF Refuse, Enter, Count, Measure, Abandon
  <2>2. /\ "note_size" \in NoteSizes(r) <=> "grpc_send_note" \in GrpcTimer(r)
        /\ "replied_notes_number" \in NoteSizes(r) <=> "grpc_fetch_notes" \in {}
        /\ "replied_notes_size" \in NoteSizes(r) <=> "grpc_fetch_notes" \in {}
    BY Kinds
  <2> QED BY <2>1, <2>2, TimersAreOps, UnservedStep
<1>5. ASSUME NEW r \in Requests, FetchNothing(r) PROVE IInv'
  <2>1. r \notin Sends
    BY <1>5, MetricsAssumption DEF FetchNothing
  <2>2. /\ request[r] = "queued" /\ request' = [request EXCEPT ![r] = "ended"]
        /\ UNCHANGED <<closure, permits, tasks>>
        /\ count' = Plus(count, Timers(r) \cup Resets(r)) /\ ok' = Plus(ok, Timers(r))
        /\ dropped' = Plus(dropped, Timers(r)) /\ sized' = Plus(sized, ReplySizes(r))
    BY <1>5 DEF FetchNothing, Enter, Count, Measure, Finish
  <2>3. /\ Timers(r) \cap {"grpc_send_note", "db_store_note"} = {}
        /\ "note_size" \in ReplySizes(r) <=> "grpc_send_note" \in Timers(r)
        /\ "replied_notes_number" \in ReplySizes(r) <=> "grpc_fetch_notes" \in Timers(r)
        /\ "replied_notes_size" \in ReplySizes(r) <=> "grpc_fetch_notes" \in Timers(r)
        /\ "db_fetch_notes" \in Timers(r)
        /\ Resets(r) \in SUBSET {"legacy_cursor_reset"}
    BY <2>1, Kinds
  <2> QED BY <2>2, <2>3, TimersAreOps, UnservedStep
<1>6. ASSUME NEW r \in Requests, Reply(r) PROVE IInv'
  <2>1. CASE closure[r] = "ok" /\ Finish(Timers(r)) /\ Measure(ReplySizes(r))
    BY <1>6, <2>1, LeaveStep DEF Reply, Finish, Measure
  <2>2. CASE Abandon(Timers(r)) /\ UNCHANGED sized
    <3>1. ok' = Plus(ok, {}) /\ sized' = Plus(sized, {})
      BY <1>2, <2>2 DEF Abandon
    <3> QED BY <1>6, <2>2, <3>1, LeaveStep DEF Reply, Abandon
  <2> QED BY <1>6, <2>1, <2>2 DEF Reply
<1>7. ASSUME NEW r \in Requests, DropHandler(r) PROVE IInv'
  <2>1. ok' = Plus(ok, {}) /\ sized' = Plus(sized, {})
    BY <1>2, <1>7 DEF DropHandler, Abandon
  <2> QED BY <1>7, <2>1, LeaveStep DEF DropHandler, Abandon
<1> QED BY <1>1, <1>3, <1>4, <1>5, <1>6, <1>7, CallDatabaseStep, ClosureStep, TaskStep
        DEF Next, Serve

-----------------------------------------------------------------------------
\* The invariant holds for any requests, any limit and any number of rounds.
THEOREM Accounted == Spec => []IInv
BY InitInv, NextInv, PTL DEF Spec

\* The free permits are never more than the limit and never less than none: on
\* no path is one given back twice, or by a request that had none.
THEOREM TypeCorrect == Spec => []TypeOK
<1>1. IInv => TypeOK
  BY DEF IInv
<1> QED BY <1>1, Accounted, PTL

\* The concurrency limit neither leaks nor overflows: on every path out of a
\* handler its permit goes back, once.
THEOREM PermitsKept == Spec => []PermitsAddUp
<1>1. IInv => PermitsAddUp
  BY DEF IInv
<1> QED BY <1>1, Accounted, PTL

\* An operation that was counted and is over has a duration, and not two with the
\* same status, however its handler ended; its sizes were recorded with it.
THEOREM EndedAreMeasured == Spec => []EndedIsMeasured
<1>1. IInv => EndedIsMeasured
  <2> SUFFICES ASSUME IInv PROVE EndedIsMeasured
    OBVIOUS
  <2>1. ASSUME NEW o \in Ops
        PROVE  /\ count[o] <= ok[o] + dropped[o] + Alive(o)
               /\ ok[o] <= count[o] /\ dropped[o] + Alive(o) <= count[o]
    <3>1. Asleep(o) <= Background(o) /\ Asleep(o) \in Nat /\ Background(o) \in Nat
      BY DEF Asleep, Background
    <3>2. Asleep(o) <= Alive(o) /\ Alive(o) \in Nat
      BY <3>1, AliveIs, Sizes
    <3>3. ok[o] \in Nat /\ dropped[o] \in Nat /\ count[o] \in Nat
      BY Typed DEF IInv
    <3> QED BY <3>1, <3>2, <3>3 DEF IInv, Balanced
  <2> QED BY <2>1 DEF EndedIsMeasured, IInv, SizesAgree
<1> QED BY <1>1, Accounted, PTL

\* A recorded "ok" is true: there are as many committed notes, and as many replies
\* whose sizes were recorded.
THEOREM OkTold == Spec => []OkIsTrue
<1>1. IInv => OkIsTrue
  <2> SUFFICES ASSUME IInv PROVE OkIsTrue
    OBVIOUS
  <2>1. Settled \in SUBSET Stored /\ Stored \in SUBSET Requests
    BY DEF Settled, Stored, Requests
  <2>2. Cardinality(Settled) <= Cardinality(Stored) /\ Cardinality(Stored) \in Nat
    BY <2>1, RequestsFinite, FS_Subset
  <2> QED BY <2>2, Names, Sizes, Typed DEF IInv, OkIsSettled, SizesAgree, OkIsTrue
<1> QED BY <1>1, Accounted, PTL
=============================================================================
