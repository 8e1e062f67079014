-------------------------- MODULE NoteTable_proofs --------------------------
(* What the operators of NoteTable return, for every table.                *)
EXTENDS NoteTable, FiniteSetLemmas

\* A batch holds rows of the table under the requested tags, above the
\* cursor (sqlite/mod.rs, fetch_notes_by_tags).
LEMMA BatchInTable ==
    ASSUME NEW rows, NEW tags, NEW cursor
    PROVE  Batch(rows, tags, cursor) \subseteq Matching(rows, tags, cursor)
BY DEF Batch

\* A batch is a prefix in the order of `seq`: what precedes a returned row
\* and matches is returned too.  ORDER BY seq together with LIMIT gives this.
LEMMA BatchIsPrefix ==
    ASSUME NEW rows \in SUBSET Row, IsFiniteSet(rows),
           NEW tags, NEW cursor \in Nat,
           NEW q \in Batch(rows, tags, cursor),
           NEW r \in Matching(rows, tags, cursor),
           r.seq <= q.seq
    PROVE  r \in Batch(rows, tags, cursor)
PROOF
<1> DEFINE M == Matching(rows, tags, cursor)
           Before(x) == {y \in M : y.seq < x.seq}
<1>1. M \subseteq Row /\ IsFiniteSet(M)
  <2>1. M \subseteq rows
    BY DEF Matching
  <2> QED BY <2>1, FS_Subset
<1>2. Before(r) \subseteq Before(q)
  <2>1. r \in Row /\ q \in Row
    BY <1>1 DEF Batch
  <2> QED BY <1>1, <2>1 DEF Row
<1>3. IsFiniteSet(Before(q)) /\ IsFiniteSet(Before(r))
  BY <1>1, FS_Subset
<1>4. Cardinality(Before(r)) <= Cardinality(Before(q))
  BY <1>2, <1>3, FS_Subset
<1>5. Cardinality(Before(r)) \in Nat /\ Cardinality(Before(q)) \in Nat
  BY <1>3, FS_CardinalityType
<1>6. Cardinality(Before(q)) < BatchSize
  BY DEF Batch
<1>7. Cardinality(Before(r)) < BatchSize
  BY <1>4, <1>5, <1>6, BatchAssumption
<1> QED BY <1>7 DEF Batch

\* A row of a page stays in it while no row comes before it: notes that are added
\* lie beyond it, and notes that are deleted make room.
LEMMA BatchKept ==
    ASSUME NEW rows, NEW later, IsFiniteSet(rows), NEW tags, NEW cursor,
           NEW r \in Batch(rows, tags, cursor), r \in later,
           \A q \in later : q.seq < r.seq => q \in rows
    PROVE  r \in Batch(later, tags, cursor)
PROOF
<1> DEFINE Before(S) == {q \in Matching(S, tags, cursor) : q.seq < r.seq}
<1>1. Before(later) \subseteq Before(rows) /\ Before(rows) \subseteq rows
  BY DEF Matching
<1>2. IsFiniteSet(Before(rows)) /\ IsFiniteSet(Before(later))
  BY <1>1, FS_Subset
<1>3. /\ Cardinality(Before(later)) <= Cardinality(Before(rows))
      /\ Cardinality(Before(later)) \in Nat /\ Cardinality(Before(rows)) \in Nat
  BY <1>1, <1>2, FS_Subset, FS_CardinalityType
<1>4. Cardinality(Before(rows)) < BatchSize /\ r \in Matching(later, tags, cursor)
  BY DEF Batch, Matching
<1>5. Cardinality(Before(later)) < BatchSize
  BY <1>3, <1>4, BatchAssumption
<1> QED BY <1>4, <1>5 DEF Batch

\* Resetting a legacy cursor lowers it, and leaves any other as it is.
LEMMA EffectiveCursorBounded ==
    ASSUME NEW m \in Nat
    PROVE  /\ EffectiveCursor(m) \in Nat
           /\ EffectiveCursor(m) <= m
           /\ EffectiveCursor(m) \in {0, m}
BY LegacyAssumption DEF EffectiveCursor

\* The cursor returned with a batch skips nothing: a matching row at or below
\* it was in the batch, even when LIMIT cut the batch short.
LEMMA ResponseCursorCovers ==
    ASSUME NEW rows \in SUBSET Row, IsFiniteSet(rows),
           NEW tags, NEW cursor \in Nat, NEW m \in Nat,
           IsResponseCursor(m, cursor, Batch(rows, tags, cursor)),
           NEW r \in Matching(rows, tags, cursor),
           r.seq <= EffectiveCursor(m)
    PROVE  r \in Batch(rows, tags, cursor)
PROOF
<1>1. r \in Row /\ r.seq \in Nat /\ r.seq > EffectiveCursor(cursor)
  BY DEF Matching, Row
<1>2. EffectiveCursor(m) \in Nat /\ EffectiveCursor(m) <= m
  BY EffectiveCursorBounded
<1>3. EffectiveCursor(cursor) \in Nat
  BY EffectiveCursorBounded
<1>4. m # cursor
  BY <1>1, <1>3
<1>5. PICK q \in Batch(rows, tags, cursor) : m = q.seq
  BY <1>4 DEF IsResponseCursor
<1>6. r.seq <= q.seq
  BY <1>1, <1>2, <1>5
<1> QED BY <1>6, BatchIsPrefix

-----------------------------------------------------------------------------
(* That there is a cursor to return.                                       *)

\* The positions in a batch are finitely many numbers.
LEMMA BatchPositions ==
    ASSUME NEW rows \in SUBSET Row, IsFiniteSet(rows), NEW tags, NEW cursor
    PROVE  LET P == {r.seq : r \in Batch(rows, tags, cursor)}
           IN  P \in SUBSET Nat /\ IsFiniteSet(P)
PROOF
<1> DEFINE B == Batch(rows, tags, cursor)
           P == {r.seq : r \in B}
           seqOf == [r \in B |-> r.seq]
<1>1. B \in SUBSET rows
  BY DEF Batch, Matching
<1>2. IsFiniteSet(B)
  BY <1>1, FS_Subset
<1> HIDE DEF B
<1>3. P \in SUBSET Nat
  BY <1>1 DEF Row
<1>4. seqOf \in Surjection(B, P)
  BY DEF Surjection
<1> HIDE DEF seqOf, P
<1>5. IsFiniteSet(P)
  BY <1>2, <1>4, FS_Surjection
<1> QED BY <1>3, <1>5 DEF P, B

\* The handler of a FetchNotes always has a cursor to return (grpc/mod.rs,
\* fetch_notes): that of the request, raised to the largest in the batch.
LEMMA ResponseCursorExists ==
    ASSUME NEW rows \in SUBSET Row, IsFiniteSet(rows), NEW tags, NEW cursor \in Nat
    PROVE  LET B == Batch(rows, tags, cursor)
           IN  \E m \in {cursor} \cup {r.seq : r \in B} : IsResponseCursor(m, cursor, B)
PROOF
<1> DEFINE B == Batch(rows, tags, cursor)
           P == {r.seq : r \in B}
           C == {cursor} \cup P
<1>1. P \in SUBSET Nat /\ IsFiniteSet(P)
  BY BatchPositions
<1> HIDE DEF B
<1>2. C \in SUBSET Nat /\ C # {}
  BY <1>1
<1>3. IsFiniteSet(C)
  <2>1. IsFiniteSet(P \cup {cursor}) /\ C = P \cup {cursor}
    BY <1>1, FS_AddElement
  <2> QED BY <2>1
<1>4. PICK m \in C : \A n \in C : n <= m
  BY <1>2, <1>3, LargestNumber
<1>5. \A r \in B : r.seq \in C
  OBVIOUS
<1>6. IsResponseCursor(m, cursor, B)
  BY <1>2, <1>4, <1>5 DEF IsResponseCursor
<1> QED BY <1>4, <1>6 DEF B

\* The same for the streamer, which has a batch that is not empty and a cursor
\* that is not read as a timestamp: the new cursor is that of a note.
LEMMA LastOfBatchExists ==
    ASSUME NEW rows \in SUBSET Row, IsFiniteSet(rows), NEW tags, NEW cursor \in Nat,
           EffectiveCursor(cursor) = cursor, Batch(rows, tags, cursor) # {}
    PROVE  LET B == Batch(rows, tags, cursor)
           IN  \E m \in {r.seq : r \in B} : IsResponseCursor(m, cursor, B)
PROOF
<1> DEFINE B == Batch(rows, tags, cursor)
<1>1. \A r \in B : r.seq \in Nat /\ r.seq > cursor
  BY DEF Batch, Matching, Row
<1>2. PICK m \in {cursor} \cup {r.seq : r \in B} : IsResponseCursor(m, cursor, B)
  BY ResponseCursorExists
<1>3. PICK r \in B : TRUE
  OBVIOUS
<1> HIDE DEF B
<1>4. r.seq <= m
  BY <1>2, <1>3 DEF IsResponseCursor
<1>5. m # cursor
  BY <1>1, <1>3, <1>4
<1>6. m \in {q.seq : q \in B}
  BY <1>2, <1>5
<1> QED BY <1>2, <1>6 DEF B

\* A page is empty only if nothing matches: LIMIT cuts off the far end.
LEMMA EmptyPageMeansNothing ==
    ASSUME NEW rows \in SUBSET Row, IsFiniteSet(rows), NEW tags, NEW cursor,
           Batch(rows, tags, cursor) = {}
    PROVE  Matching(rows, tags, cursor) = {}
PROOF
<1> DEFINE M == Matching(rows, tags, cursor)
           Before(x) == {y \in M : y.seq < x.seq}
           F == {Before(x) : x \in M}
<1>1. M \in SUBSET rows /\ M \in SUBSET Row
  BY DEF Matching
<1>2. IsFiniteSet(M)
  BY <1>1, FS_Subset
<1> SUFFICES ASSUME M # {} PROVE FALSE
  OBVIOUS
<1>3. \A x \in M : x.seq \in Nat
  BY <1>1 DEF Row
<1> HIDE DEF M
<1>4. F # {} /\ \A T \in F : T \subseteq M
  OBVIOUS
<1>5. PICK x \in M : \A U \in F : U \subseteq Before(x) => U = Before(x)
  <2> HIDE DEF F
  <2>1. PICK T \in F : \A U \in F : U \subseteq T => U = T
    BY <1>2, <1>4, MinimalSet, SMT
  <2> QED BY <2>1 DEF F
<1>6. Before(x) = {}
  <2> SUFFICES ASSUME NEW y \in M, y.seq < x.seq PROVE FALSE
    OBVIOUS
  <2>1. Before(y) \subseteq Before(x)
    BY <1>3
  <2>2. Before(y) = Before(x)
    BY <1>5, <2>1
  <2>3. y \in Before(x) /\ y \notin Before(y)
    BY <1>3
  <2> QED BY <2>2, <2>3
<1>7. Cardinality(Before(x)) < BatchSize
  BY <1>6, FS_EmptySet, BatchAssumption
<1>8. x \in Batch(rows, tags, cursor)
  BY <1>7 DEF Batch, M
<1> QED BY <1>8
=============================================================================
