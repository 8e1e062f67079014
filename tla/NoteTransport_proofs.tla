------------------------ MODULE NoteTransport_proofs ------------------------
(***************************************************************************)
(* Theorems about NoteTransport, for every set of notes, tags, calls and   *)
(* clients, every pool and batch size, and every bound.                    *)
(***************************************************************************)
EXTENDS NoteTransport, NoteTable_proofs

-----------------------------------------------------------------------------
(* Type correctness.                                                       *)

\* The initial state is well typed.
LEMMA TypeInit == Init => TypeOK
PROOF
<1> SUFFICES ASSUME Init PROVE TypeOK
    OBVIOUS
<1>1. call \in [Calls -> Call]
  BY DEF Init, Call, Answers
<1>2. maint \in Maint
  BY DEF Init, Maint
<1>3. fetch \in [Clients -> Fetch]
  BY DEF Init, Fetch
<1>4. cursor \in [Clients -> Nat]
  BY ClientAssumption DEF Init
<1>5. stats \in [Watchers -> Stats]
  BY DEF Init, NoStats, Stats
<1>6. IsFiniteSet(rows)
  BY FS_EmptySet DEF Init
<1> QED BY <1>1, <1>2, <1>3, <1>4, <1>5, <1>6 DEF Init, TypeOK

\* A batch of a set of rows is a set of rows.
LEMMA BatchType ==
    ASSUME NEW R \in SUBSET Row, NEW tags, NEW m
    PROVE  Batch(R, tags, m) \in SUBSET Row
BY DEF Batch, Matching

\* The two counts of a Stats request are numbers.
LEMMA TableCounted ==
    ASSUME TypeOK
    PROVE  /\ Cardinality(rows) \in Nat
           /\ Cardinality(TagsInUse) \in Nat
           /\ Cardinality(TagsInUse) <= Cardinality(rows)
PROOF
<1> DEFINE tagOf == [r \in rows |-> TagOf[r.id]]
<1>1. IsFiniteSet(rows)
  BY DEF TypeOK
<1>2. tagOf \in Surjection(rows, TagsInUse)
  BY DEF Surjection, TagsInUse
<1> HIDE DEF tagOf
<1>3. IsFiniteSet(TagsInUse) /\ Cardinality(TagsInUse) <= Cardinality(rows)
  BY <1>1, <1>2, FS_Surjection
<1> QED BY <1>1, <1>3, FS_CardinalityType

\* What every step of a Stats request has in common.
LEMMA StatsStepFrame ==
    ASSUME NEW w \in Watchers, StatsStep(w)
    PROVE  UNCHANGED statsOnly
BY DEF StatsStep, AskStats, StartStats, CountRows, StatsDropped, statsOnly

\* A Stats request touches its own answer, the faults and the orphans, and
\* leaves them well typed.
LEMMA StatsTypeStep ==
    ASSUME TypeOK, NEW w \in Watchers, StatsStep(w)
    PROVE  TypeOK'
PROOF
<1>1. UNCHANGED <<now, rows, sqliteSeq, expired, call, maint, fetch, cursor, received>>
  BY StatsStepFrame DEF statsOnly, dbVars
<1>2. faults' \in Nat /\ orphans' \in Nat
  BY DEF TypeOK, StatsStep, AskStats, StartStats, CountRows, StatsDropped, Fault
<1>3. stats' \in [Watchers -> Stats]
  <2>1. CASE AskStats(w) \/ StartStats(w)
    BY <2>1 DEF TypeOK, AskStats, StartStats, Stats
  <2>2. CASE CountRows(w)
    BY <2>2, TableCounted DEF TypeOK, CountRows, Stats
  <2>3. CASE StatsDropped(w)
    BY <2>3 DEF TypeOK, StatsDropped, NoStats, Stats
  <2> QED BY <2>1, <2>2, <2>3 DEF StatsStep
<1> QED BY <1>1, <1>2, <1>3 DEF TypeOK

\* Every step of a handler, a closure, the retention task, a client or the
\* process keeps the state well typed.
LEMMA TypeStep == TypeOK /\ [Next]_vars => TypeOK'
PROOF
<1> SUFFICES ASSUME TypeOK, [Next]_vars PROVE TypeOK'
    OBVIOUS
<1>1. ASSUME NEW k \in Calls, SendStep(k) PROVE TypeOK'
  <2>1. \A s \in Answers : Told(k, s) \in Answers
    BY DEF TypeOK, Told, Call
  <2>2. CASE RejectNote(k)
    BY <2>2 DEF TypeOK, RejectNote, Call, Answers, dbVars, clientVars
  <2>3. CASE AcceptNote(k)
    BY <2>3 DEF TypeOK, AcceptNote, Call, dbVars, clientVars
  <2>4. CASE StartStore(k)
    BY <2>4 DEF TypeOK, StartStore, Call, dbVars, clientVars
  <2>5. CASE InsertNote(k)
    <3>1. NextSeq(rows, sqliteSeq) \in Nat
      BY DEF TypeOK, NextSeq
    <3>2. Told(k, "duplicate") \in Answers
      BY <2>1 DEF Answers
    <3> QED BY <2>5, <3>1, <3>2 DEF TypeOK, InsertNote, Call, dbVars, clientVars
  <2>6. CASE CommitNote(k)
    <3>1. [seq |-> call[k].seq, id |-> CallNote[k],
           created_at |-> call[k].created_at] \in Row
      BY CallAssumption DEF TypeOK, Call, Row
    <3>2. Told(k, "ok") \in Answers
      BY <2>1 DEF Answers
    <3>3. call' \in [Calls -> Call]
      BY <2>6, <3>2 DEF TypeOK, CommitNote, Call
    <3>4. rows' \in SUBSET Row /\ sqliteSeq' \in Nat
      BY <2>6, <3>1 DEF TypeOK, CommitNote, Call
    <3>5. IsFiniteSet(rows')
      <4>1. PICK new : rows' = rows \cup {new}
        BY <2>6 DEF CommitNote
      <4> QED BY <4>1, FS_AddElement DEF TypeOK
    <3> QED BY <2>6, <3>3, <3>4, <3>5 DEF TypeOK, CommitNote, clientVars
  <2>7. CASE StoreBusy(k)
    <3>1. Told(k, "busy") \in Answers
      BY <2>1 DEF Answers
    <3> QED BY <2>7, <3>1 DEF TypeOK, StoreBusy, Call, dbVars, clientVars
  <2>8. CASE StoreFails(k)
    <3>1. Told(k, "error") \in Answers
      BY <2>1 DEF Answers
    <3>2. call' \in [Calls -> Call]
      BY <2>8, <3>1 DEF TypeOK, StoreFails, Call
    <3>3. faults' \in Nat
      BY <2>8 DEF TypeOK, StoreFails, Fault
    <3> QED BY <2>8, <3>2, <3>3 DEF TypeOK, StoreFails, dbVars, clientVars
  <2>9. CASE SendDropped(k)
    BY <2>9 DEF TypeOK, SendDropped, Fault, Call, Answers, dbVars, clientVars
  <2> QED BY <1>1, <2>2, <2>3, <2>4, <2>5, <2>6, <2>7, <2>8, <2>9 DEF SendStep
<1>2. ASSUME MaintStep PROVE TypeOK'
  <2>1. CASE StartCleanup
    <3>1. Cutoff(now, Retention) \in Int
      BY BoundAssumption DEF TypeOK, Cutoff
    <3> QED BY <2>1, <3>1 DEF TypeOK, StartCleanup, Maint, dbVars, clientVars
  <2>2. CASE StartDelete
    BY <2>2 DEF TypeOK, StartDelete, Maint, dbVars, clientVars
  <2>3. CASE DeleteOld
    BY <2>3 DEF TypeOK, DeleteOld, Maint, dbVars, clientVars
  <2>4. CASE CommitCleanup
    <3>1. rows' \in SUBSET Row /\ expired' \in SUBSET Row
      BY <2>4 DEF TypeOK, CommitCleanup, OlderThan
    <3>2. IsFiniteSet(rows')
      BY <2>4, FS_Subset DEF TypeOK, CommitCleanup
    <3> QED BY <2>4, <3>1, <3>2 DEF TypeOK, CommitCleanup, Maint, clientVars
  <2>5. CASE WakeCleanup
    BY <2>5 DEF TypeOK, WakeCleanup, Maint, dbVars, clientVars
  <2>6. CASE CleanupFails
    BY <2>6 DEF TypeOK, CleanupFails, Fault, Maint, dbVars, clientVars
  <2> QED BY <1>2, <2>1, <2>2, <2>3, <2>4, <2>5, <2>6 DEF MaintStep
<1>3. ASSUME NEW c \in Clients, FetchStep(c) PROVE TypeOK'
  <2>1. CASE AskNotes(c)
    BY <2>1 DEF TypeOK, AskNotes, Fetch, dbVars
  <2>2. CASE StartRead(c)
    BY <2>2 DEF TypeOK, StartRead, Fetch, dbVars
  <2>3. CASE ReadNotes(c)
    <3> DEFINE batch == Batch(rows, AskedTags(c), cursor[c])
    <3>1. batch \in SUBSET Row
      BY BatchType DEF TypeOK
    <3>2. {cursor[c]} \cup {r.seq : r \in batch} \subseteq Nat
      BY <3>1 DEF TypeOK, Row
    <3> HIDE DEF batch
    <3>3. PICK m \in Nat :
            fetch' = [fetch EXCEPT ![c] =
                        [phase |-> "answered", notes |-> batch, cursor |-> m]]
      BY <2>3, <3>2 DEF ReadNotes, batch
    <3>4. [phase |-> "answered", notes |-> batch, cursor |-> m] \in Fetch
      BY <3>1 DEF Fetch
    <3>5. fetch' \in [Clients -> Fetch]
      BY <3>3, <3>4 DEF TypeOK
    <3> QED BY <2>3, <3>5 DEF TypeOK, ReadNotes, dbVars
  <2>4. CASE ImportNotes(c)
    <3>1. received' \in [Clients -> SUBSET Row]
      BY <2>4 DEF TypeOK, ImportNotes, Fetch
    <3>2. fetch' \in [Clients -> Fetch]
      BY <2>4 DEF TypeOK, ImportNotes, Fetch
    <3> QED BY <2>4, <3>1, <3>2 DEF TypeOK, ImportNotes, dbVars
  <2>5. CASE PersistCursor(c)
    <3>1. cursor' \in [Clients -> Nat]
      BY <2>5 DEF TypeOK, PersistCursor, Fetch
    <3>2. fetch' \in [Clients -> Fetch]
      BY <2>5 DEF TypeOK, PersistCursor, Fetch
    <3> QED BY <2>5, <3>1, <3>2 DEF TypeOK, PersistCursor, dbVars
  <2>6. CASE FetchDropped(c)
    <3>1. fetch' \in [Clients -> Fetch]
      BY <2>6 DEF TypeOK, FetchDropped, Fetch
    <3> QED BY <2>6, <3>1 DEF TypeOK, FetchDropped, Fault, dbVars
  <2> QED BY <1>3, <2>1, <2>2, <2>3, <2>4, <2>5, <2>6 DEF FetchStep
<1>4. CASE StreamerReads \/ OrphanReadEnds
  BY <1>4 DEF TypeOK, StreamerReads, OrphanReadEnds, dbVars
<1>5. CASE Tick
  BY <1>5 DEF TypeOK, Tick, dbVars, clientVars
<1>6. CASE Restart
  <2>1. call' \in [Calls -> Call]
    <3>1. \A k \in Calls : Told(k, "timeout") \in Answers
      BY DEF TypeOK, Told, Call, Answers
    <3>2. \A k \in Calls : Interrupted(k) \in Call
      BY <3>1 DEF TypeOK, Interrupted, Call
    <3> QED BY <1>6, <3>2 DEF Restart
  <2>2. fetch' \in [Clients -> Fetch]
    BY <1>6 DEF TypeOK, Restart, Fetch
  <2>3. maint' \in Maint
    BY <1>6 DEF TypeOK, Restart, Maint
  <2>4. faults' \in Nat /\ orphans' \in Nat
    BY <1>6 DEF TypeOK, Restart, Fault
  <2>5. UNCHANGED <<now, rows, sqliteSeq, expired, cursor, received>>
    BY <1>6 DEF Restart, dbVars
  <2>6. stats' \in [Watchers -> Stats]
    BY <1>6 DEF TypeOK, Restart, NoStats, Stats
  <2> QED BY <2>1, <2>2, <2>3, <2>4, <2>5, <2>6 DEF TypeOK
<1>7. ASSUME NEW w \in Watchers, StatsStep(w) PROVE TypeOK'
  BY <1>7, StatsTypeStep
<1>8. CASE UNCHANGED vars
  BY <1>8 DEF TypeOK, vars, dbVars, clientVars
<1> QED BY <1>1, <1>2, <1>3, <1>4, <1>5, <1>6, <1>7, <1>8 DEF Next

\* Every reachable state is well typed: the state of the table, of the calls,
\* of the retention task and of the clients has the shape TypeOK gives it.
THEOREM TypeCorrect == Spec => []TypeOK
BY TypeInit, TypeStep, PTL DEF Spec

-----------------------------------------------------------------------------
(* The inductive invariant.                                                *)

\* The invariant holds of an empty table that nobody has used yet.
LEMMA InvInit == Init => IInv
PROOF
<1> SUFFICES ASSUME Init PROVE IInv
    OBVIOUS
<1>1. TypeOK
  BY TypeInit
<1>2. TableInv
  BY DEF Init, TableInv, SeqBounded, StoredOnce
<1>3. SendInv
  BY DEF Init, SendInv, OneWriter, CutoffIsOld, AckedIsStored, DuplicateMeansStored
<1>4. ClientInv
  <2>1. EffectiveCursor(0) = 0
    BY EffectiveCursorBounded
  <2>2. CursorsBounded
    BY <2>1, ClientAssumption DEF Init, CursorsBounded, IsStoredPosition
  <2> QED
    BY <2>2 DEF Init, ClientInv, AnswerCovers, NothingInvented, NoLeapfrog, Wanted
<1> QED BY <1>1, <1>2, <1>3, <1>4 DEF IInv

\* A step of a handler, the pool or the clock that leaves the table alone
\* leaves alone what is known of the table.
LEMMA TableFrame == TableInv /\ UNCHANGED dbVars => TableInv'
BY DEF TableInv, SeqBounded, StoredOnce, dbVars

\* What is known of the SendNote calls and of the retention task rests on the
\* table, the calls, the task and the clock alone.
LEMMA SendFrame ==
    SendInv /\ UNCHANGED <<dbVars, call, maint, now>> => SendInv'
BY DEF SendInv, OneWriter, CutoffIsOld, AckedIsStored, DuplicateMeansStored,
       IdTaken, dbVars

\* What is known of the clients rests on the table, their requests, their
\* cursors and what they imported.
LEMMA ClientFrame ==
    ClientInv /\ UNCHANGED <<dbVars, fetch, cursor, received>> => ClientInv'
BY DEF ClientInv, CursorsBounded, AnswerCovers, NothingInvented, NoLeapfrog,
       Wanted, IsStoredPosition, dbVars

-----------------------------------------------------------------------------
(* The steps that change the table.                                        *)

\* COMMIT of an insert: the new row comes after every row there ever was, and
\* after every cursor.
LEMMA CommitNoteStep ==
    ASSUME IInv, TypeOK', NEW k \in Calls, CommitNote(k)
    PROVE  TableInv' /\ SendInv' /\ ClientInv'
PROOF
<1> DEFINE new == [seq |-> call[k].seq, id |-> CallNote[k],
                   created_at |-> call[k].created_at]
<1>1. /\ rows' = rows \cup {new}
      /\ sqliteSeq' = call[k].seq
      /\ call[k].phase = "inserted"
      /\ call' = [call EXCEPT ![k].phase = "done", ![k].answer = Told(k, "ok")]
      /\ UNCHANGED <<now, expired, maint, fetch, cursor, received>>
  BY DEF CommitNote, clientVars
<1>2. /\ call[k].seq = sqliteSeq + 1
      /\ ~IdTaken(rows, CallNote[k])
      /\ \A j \in Calls : call[j].phase = "inserted" => j = k
  BY <1>1 DEF IInv, SendInv, OneWriter
<1>3. new.seq = sqliteSeq + 1 /\ new.id = CallNote[k]
  BY <1>2
<1> HIDE DEF new
<1>4. \A r \in rows \cup expired : 0 < r.seq /\ r.seq <= sqliteSeq /\ r.seq \in Nat
  BY DEF IInv, TableInv, SeqBounded, TypeOK, Row
<1>5. sqliteSeq \in Nat /\ sqliteSeq' = sqliteSeq + 1
  BY <1>1, <1>2 DEF IInv, TypeOK
<1>6. TableInv'
  <2>1. SeqBounded'
    BY <1>1, <1>3, <1>4, <1>5 DEF SeqBounded
  <2>2. StoredOnce'
    BY <1>1, <1>2, <1>3, <1>4, <1>5 DEF StoredOnce, IInv, TableInv, IdTaken
  <2> QED BY <2>1, <2>2 DEF TableInv
<1>7. SendInv'
  <2>1. \A j \in Calls : j # k => call'[j] = call[j]
    BY <1>1 DEF IInv, TypeOK
  <2>2. call'[k].phase = "done" /\ call'[k].answer = Told(k, "ok")
    BY <1>1 DEF IInv, TypeOK, Call
  <2>3. OneWriter'
    BY <1>2, <2>1, <2>2 DEF OneWriter
  <2>4. CutoffIsOld'
    BY <1>1 DEF IInv, SendInv, CutoffIsOld
  <2>5. AckedIsStored'
    BY <1>1, <1>3, <2>1 DEF IInv, SendInv, AckedIsStored
  <2>6. DuplicateMeansStored'
    BY <1>1, <1>3, <2>1 DEF IInv, SendInv, DuplicateMeansStored
  <2> QED BY <2>3, <2>4, <2>5, <2>6 DEF SendInv
<1>8. ClientInv'
  <2>1. \A c \in Clients : EffectiveCursor(cursor[c]) <= sqliteSeq
    BY <1>4, <1>5 DEF IInv, ClientInv, CursorsBounded, IsStoredPosition
  <2>2. \A c \in Clients : EffectiveCursor(fetch[c].cursor) <= sqliteSeq
    BY <1>4, <1>5 DEF IInv, ClientInv, CursorsBounded, IsStoredPosition
  <2>3. \A c \in Clients : ~(new.seq <= EffectiveCursor(cursor[c]))
    <3>1. \A c \in Clients : EffectiveCursor(cursor[c]) \in Nat
      BY EffectiveCursorBounded DEF IInv, TypeOK
    <3> QED BY <2>1, <3>1, <1>3, <1>5
  <2>4. \A c \in Clients : ~(new.seq <= EffectiveCursor(fetch[c].cursor))
    <3>1. \A c \in Clients : EffectiveCursor(fetch[c].cursor) \in Nat
      BY EffectiveCursorBounded DEF IInv, TypeOK, Fetch
    <3> QED BY <2>2, <3>1, <1>3, <1>5
  <2>5. CursorsBounded'
    BY <1>1 DEF IInv, ClientInv, CursorsBounded, IsStoredPosition
  <2>6. \A c \in Clients : Wanted(c)' \subseteq Wanted(c) \cup {new}
    BY <1>1 DEF Wanted
  <2>7. AnswerCovers'
    BY <1>1, <2>4, <2>6 DEF IInv, ClientInv, AnswerCovers
  <2>8. NothingInvented'
    BY <1>1 DEF IInv, ClientInv, NothingInvented
  <2>9. NoLeapfrog'
    BY <1>1, <2>3, <2>6 DEF IInv, ClientInv, NoLeapfrog
  <2> QED BY <2>5, <2>7, <2>8, <2>9 DEF ClientInv
<1> QED BY <1>6, <1>7, <1>8

\* The retention DELETE: what leaves `rows` goes to `expired`.
LEMMA CommitCleanupStep ==
    ASSUME IInv, TypeOK', CommitCleanup
    PROVE  TableInv' /\ SendInv' /\ ClientInv'
PROOF
<1>1. /\ rows' \subseteq rows
      /\ rows' \cup expired' = rows \cup expired
      /\ maint.phase = "deleting"
      /\ maint'.phase = "sleeping"
      /\ UNCHANGED <<now, sqliteSeq, call, fetch, cursor, received>>
  BY DEF CommitCleanup, clientVars, OlderThan, IInv, TypeOK, Maint
<1>2. TableInv'
  BY <1>1 DEF IInv, TableInv, SeqBounded, StoredOnce
<1>3. SendInv'
  <2>1. OneWriter'
    BY <1>1 DEF IInv, SendInv, OneWriter
  <2>2. CutoffIsOld'
    BY <1>1 DEF CutoffIsOld
  <2>3. AckedIsStored' /\ DuplicateMeansStored'
    BY <1>1 DEF IInv, SendInv, AckedIsStored, DuplicateMeansStored
  <2> QED BY <2>1, <2>2, <2>3 DEF SendInv
<1>4. ClientInv'
  <2>1. \A c \in Clients : Wanted(c)' \subseteq Wanted(c)
    BY <1>1 DEF Wanted
  <2>2. CursorsBounded'
    BY <1>1 DEF IInv, ClientInv, CursorsBounded, IsStoredPosition
  <2>3. AnswerCovers'
    BY <1>1, <2>1 DEF IInv, ClientInv, AnswerCovers
  <2>4. NothingInvented'
    BY <1>1 DEF IInv, ClientInv, NothingInvented
  <2>5. NoLeapfrog'
    BY <1>1, <2>1 DEF IInv, ClientInv, NoLeapfrog
  <2> QED BY <2>2, <2>3, <2>4, <2>5 DEF ClientInv
<1> QED BY <1>2, <1>3, <1>4

-----------------------------------------------------------------------------
(* The steps of the handlers that leave the table alone.                   *)

\* If the table, the clock and the retention task stand still, no call enters
\* "inserted", and no call is newly told "ok" or "duplicate", SendInv stays.
LEMMA SendQuiet ==
    ASSUME SendInv, UNCHANGED <<dbVars, now, maint>>,
           \A j \in Calls :
              /\ call'[j].phase = "inserted" => call'[j] = call[j] \/
                    (call[j].phase = "inserted" /\ call'[j].seq = call[j].seq)
              /\ call'[j].answer \in {"ok", "duplicate"} =>
                    call'[j].answer = call[j].answer
    PROVE  SendInv'
PROOF
<1>1. UNCHANGED <<rows, sqliteSeq, expired, now, maint>>
  BY DEF dbVars
<1>2. OneWriter'
  BY <1>1 DEF SendInv, OneWriter, IdTaken
<1>3. CutoffIsOld'
  BY <1>1 DEF SendInv, CutoffIsOld
<1>4. AckedIsStored' /\ DuplicateMeansStored'
  BY <1>1 DEF SendInv, AckedIsStored, DuplicateMeansStored
<1> QED BY <1>2, <1>3, <1>4 DEF SendInv

\* INSERT under the write lock: the note is not in the table and takes the
\* value after the sequence entry, or the answer is a true "duplicate".
LEMMA InsertNoteStep ==
    ASSUME IInv, NEW k \in Calls, InsertNote(k)
    PROVE  SendInv'
PROOF
<1>1. UNCHANGED <<rows, sqliteSeq, expired, now, maint>> /\ WriteLockFree
  BY DEF InsertNote, dbVars
<1>2. CASE IdTaken(rows, CallNote[k]) /\
           call' = [call EXCEPT ![k].phase = "done", ![k].answer = Told(k, "duplicate")]
  <2>1. \A j \in Calls : j # k => call'[j] = call[j]
    BY <1>2 DEF IInv, TypeOK
  <2>2. call'[k].phase = "done" /\ call'[k].answer = Told(k, "duplicate")
    BY <1>2 DEF IInv, TypeOK, Call
  <2>3. OneWriter'
    BY <1>1, <2>1, <2>2 DEF IInv, SendInv, OneWriter, IdTaken
  <2>4. CutoffIsOld'
    BY <1>1 DEF IInv, SendInv, CutoffIsOld
  <2>5. \E r \in rows \cup expired : r.id = CallNote[k]
    BY <1>2 DEF IdTaken
  <2>6. AckedIsStored'
    BY <1>1, <2>1, <2>5 DEF IInv, SendInv, AckedIsStored
  <2>7. DuplicateMeansStored'
    BY <1>1, <2>1, <2>5 DEF IInv, SendInv, DuplicateMeansStored
  <2> QED BY <2>3, <2>4, <2>6, <2>7 DEF SendInv
<1>3. CASE ~IdTaken(rows, CallNote[k]) /\
           call' = [call EXCEPT ![k].phase = "inserted",
                                ![k].seq = NextSeq(rows, sqliteSeq)]
  <2>1. \A j \in Calls : j # k => call'[j] = call[j]
    BY <1>3 DEF IInv, TypeOK
  <2>2. /\ call'[k].phase = "inserted"
        /\ call'[k].seq = sqliteSeq + 1
        /\ call'[k].answer = call[k].answer
    BY <1>3 DEF IInv, TypeOK, Call, NextSeq
  <2>3. OneWriter'
    BY <1>1, <1>3, <2>1, <2>2 DEF OneWriter, WriteLockFree, IdTaken
  <2>4. CutoffIsOld'
    BY <1>1 DEF IInv, SendInv, CutoffIsOld
  <2>5. AckedIsStored' /\ DuplicateMeansStored'
    BY <1>1, <2>1, <2>2 DEF IInv, SendInv, AckedIsStored, DuplicateMeansStored
  <2> QED BY <2>3, <2>4, <2>5 DEF SendInv
<1> QED BY <1>2, <1>3 DEF InsertNote

\* No step of a SendNote breaks the invariant.
LEMMA SendStepInv ==
    ASSUME IInv, TypeOK', NEW k \in Calls, SendStep(k)
    PROVE  TableInv' /\ SendInv' /\ ClientInv'
PROOF
<1>1. CASE CommitNote(k)
  BY <1>1, CommitNoteStep
<1>2. ASSUME UNCHANGED <<dbVars, clientVars>>
      PROVE  TableInv' /\ ClientInv'
  BY <1>2, TableFrame, ClientFrame DEF IInv, clientVars
<1>3. CASE InsertNote(k)
  BY <1>2, <1>3, InsertNoteStep DEF InsertNote
<1>4. CASE RejectNote(k)
  <2>1. UNCHANGED <<dbVars, clientVars, now, maint>>
    BY <1>4 DEF RejectNote
  <2>2. \A j \in Calls : j # k => call'[j] = call[j]
    BY <1>4 DEF RejectNote, IInv, TypeOK
  <2>3. call'[k].phase = "done" /\ call'[k].answer \in {"too_large", "invalid"}
    BY <1>4 DEF RejectNote, IInv, TypeOK, Call
  <2> QED BY <1>2, <2>1, <2>2, <2>3, SendQuiet DEF IInv
<1>5. CASE AcceptNote(k)
  <2>1. UNCHANGED <<dbVars, clientVars, now, maint>>
    BY <1>5 DEF AcceptNote
  <2>2. \A j \in Calls : j # k => call'[j] = call[j]
    BY <1>5 DEF AcceptNote, IInv, TypeOK
  <2>3. call'[k].phase = "waiting" /\ call'[k].answer = call[k].answer
    BY <1>5 DEF AcceptNote, IInv, TypeOK, Call
  <2> QED BY <1>2, <2>1, <2>2, <2>3, SendQuiet DEF IInv
<1>6. CASE StartStore(k)
  <2>1. UNCHANGED <<dbVars, clientVars, now, maint>>
    BY <1>6 DEF StartStore
  <2>2. \A j \in Calls : j # k => call'[j] = call[j]
    BY <1>6 DEF StartStore, IInv, TypeOK
  <2>3. call'[k].phase = "running" /\ call'[k].answer = call[k].answer
    BY <1>6 DEF StartStore, IInv, TypeOK, Call
  <2> QED BY <1>2, <2>1, <2>2, <2>3, SendQuiet DEF IInv
<1>7. CASE StoreBusy(k)
  <2>1. UNCHANGED <<dbVars, clientVars, now, maint>>
    BY <1>7 DEF StoreBusy
  <2>2. \A j \in Calls : j # k => call'[j] = call[j]
    BY <1>7 DEF StoreBusy, IInv, TypeOK
  <2>3. /\ call'[k].phase = "done"
        /\ call'[k].answer \in {"busy", call[k].answer}
    BY <1>7 DEF StoreBusy, Told, IInv, TypeOK, Call
  <2> QED BY <1>2, <2>1, <2>2, <2>3, SendQuiet DEF IInv
<1>8. CASE StoreFails(k)
  <2>1. UNCHANGED <<dbVars, clientVars, now, maint>>
    BY <1>8 DEF StoreFails
  <2>2. \A j \in Calls : j # k => call'[j] = call[j]
    BY <1>8 DEF StoreFails, IInv, TypeOK
  <2>3. /\ call'[k].phase = "done"
        /\ call'[k].answer \in {"error", call[k].answer}
    BY <1>8 DEF StoreFails, Told, IInv, TypeOK, Call
  <2> QED BY <1>2, <2>1, <2>2, <2>3, SendQuiet DEF IInv
<1>9. CASE SendDropped(k)
  <2>1. UNCHANGED <<dbVars, clientVars, now, maint>>
    BY <1>9 DEF SendDropped
  <2>2. \A j \in Calls : j # k => call'[j] = call[j]
    BY <1>9 DEF SendDropped, IInv, TypeOK
  <2>3. /\ call'[k].phase \in {call[k].phase, "done"}
        /\ call'[k].answer = "timeout"
        /\ call'[k].seq = call[k].seq
    BY <1>9 DEF SendDropped, IInv, TypeOK, Call
  <2> QED BY <1>2, <2>1, <2>2, <2>3, SendQuiet DEF IInv
<1> QED
  BY <1>1, <1>3, <1>4, <1>5, <1>6, <1>7, <1>8, <1>9 DEF SendStep

-----------------------------------------------------------------------------
(* The steps of the retention task.                                        *)

\* No step of the retention task breaks the invariant.
LEMMA MaintStepInv ==
    ASSUME IInv, TypeOK', MaintStep
    PROVE  TableInv' /\ SendInv' /\ ClientInv'
PROOF
<1>1. CASE CommitCleanup
  BY <1>1, CommitCleanupStep
<1>2. ASSUME UNCHANGED <<now, dbVars, call, clientVars>>, OneWriter', CutoffIsOld'
      PROVE  TableInv' /\ SendInv' /\ ClientInv'
  <2>1. AckedIsStored' /\ DuplicateMeansStored'
    BY <1>2 DEF IInv, SendInv, AckedIsStored, DuplicateMeansStored, dbVars
  <2> QED BY <1>2, <2>1, TableFrame, ClientFrame DEF IInv, SendInv, clientVars
<1>3. CASE StartCleanup
  <2>1. maint'.phase = "waiting" /\ maint'.cutoff = now - Retention
    BY <1>3 DEF StartCleanup, Cutoff
  <2>2. OneWriter'
    BY <1>3, <2>1 DEF StartCleanup, IInv, SendInv, OneWriter, IdTaken, dbVars
  <2>3. CutoffIsOld'
    BY <1>3, <2>1, BoundAssumption DEF StartCleanup, CutoffIsOld, IInv, TypeOK
  <2> QED BY <1>2, <1>3, <2>2, <2>3 DEF StartCleanup
<1>4. CASE StartDelete
  <2>1. /\ maint.phase = "waiting" /\ maint'.phase = "running"
        /\ maint'.cutoff = maint.cutoff
    BY <1>4 DEF StartDelete, IInv, TypeOK, Maint
  <2>2. OneWriter'
    BY <1>4, <2>1 DEF StartDelete, IInv, SendInv, OneWriter, IdTaken, dbVars
  <2>3. CutoffIsOld'
    BY <1>4, <2>1 DEF StartDelete, IInv, SendInv, CutoffIsOld
  <2> QED BY <1>2, <1>4, <2>2, <2>3 DEF StartDelete
<1>5. CASE DeleteOld
  <2>1. /\ maint.phase = "running" /\ maint'.phase = "deleting"
        /\ maint'.cutoff = maint.cutoff
    BY <1>5 DEF DeleteOld, IInv, TypeOK, Maint
  <2>2. OneWriter'
    BY <1>5 DEF DeleteOld, WriteLockFree, OneWriter
  <2>3. CutoffIsOld'
    BY <1>5, <2>1 DEF DeleteOld, IInv, SendInv, CutoffIsOld
  <2> QED BY <1>2, <1>5, <2>2, <2>3 DEF DeleteOld
<1>6. CASE WakeCleanup
  <2>1. maint'.phase = "due"
    BY <1>6 DEF WakeCleanup, IInv, TypeOK, Maint
  <2>2. OneWriter'
    BY <1>6, <2>1 DEF WakeCleanup, IInv, SendInv, OneWriter, IdTaken, dbVars
  <2>3. CutoffIsOld'
    BY <2>1 DEF CutoffIsOld
  <2> QED BY <1>2, <1>6, <2>2, <2>3 DEF WakeCleanup
<1>7. CASE CleanupFails
  <2>1. maint'.phase = "due"
    BY <1>7 DEF CleanupFails, IInv, TypeOK, Maint
  <2>2. OneWriter'
    BY <1>7, <2>1 DEF CleanupFails, IInv, SendInv, OneWriter, IdTaken, dbVars
  <2>3. CutoffIsOld'
    BY <2>1 DEF CutoffIsOld
  <2> QED BY <1>2, <1>7, <2>2, <2>3 DEF CleanupFails
<1> QED BY <1>1, <1>3, <1>4, <1>5, <1>6, <1>7 DEF MaintStep

-----------------------------------------------------------------------------
(* The steps of a client and its request.                                  *)

\* What every step of client c has in common.
LEMMA FetchStepFrame ==
    ASSUME NEW c \in Clients, FetchStep(c)
    PROVE  UNCHANGED <<now, rows, sqliteSeq, expired, call, maint>>
BY DEF FetchStep, AskNotes, StartRead, ReadNotes, ImportNotes, PersistCursor,
       FetchDropped, dbVars

\* A request that holds no answer, or is given up, keeps ClientInv.
LEMMA FetchQuiet ==
    ASSUME IInv, UNCHANGED <<rows, sqliteSeq, expired, cursor, received>>,
           \A d \in Clients :
              \/ fetch'[d] = fetch[d]
              \/ /\ fetch'[d].phase \notin {"answered", "imported"}
                 /\ fetch'[d].notes \subseteq fetch[d].notes
                 /\ fetch'[d].cursor \in {0, fetch[d].cursor}
    PROVE  ClientInv'
PROOF
<1>1. \A d \in Clients : Wanted(d)' = Wanted(d)
  BY DEF Wanted
<1>2. EffectiveCursor(0) = 0
  BY EffectiveCursorBounded
<1>3. CursorsBounded'
  <2>1. IsStoredPosition(0)
    BY <1>2 DEF IsStoredPosition
  <2> SUFFICES ASSUME NEW d \in Clients
               PROVE  IsStoredPosition(cursor[d])' /\ IsStoredPosition(fetch[d].cursor)'
    BY DEF CursorsBounded
  <2>2. IsStoredPosition(cursor[d]) /\ IsStoredPosition(fetch[d].cursor)
    BY DEF IInv, ClientInv, CursorsBounded
  <2> QED BY <1>2, <2>1, <2>2 DEF IsStoredPosition
<1>4. AnswerCovers'
  BY <1>1 DEF IInv, ClientInv, AnswerCovers
<1>5. NothingInvented'
  BY DEF IInv, ClientInv, NothingInvented
<1>6. NoLeapfrog'
  BY <1>1 DEF IInv, ClientInv, NoLeapfrog
<1> QED BY <1>3, <1>4, <1>5, <1>6 DEF ClientInv

\* The SELECT and the answer: the returned cursor skips no wanted row.
LEMMA ReadNotesStep ==
    ASSUME IInv, TypeOK', NEW c \in Clients, ReadNotes(c)
    PROVE  ClientInv'
PROOF
<1> DEFINE batch == Batch(rows, AskedTags(c), cursor[c])
<1>1. batch \subseteq Matching(rows, AskedTags(c), cursor[c])
  BY BatchInTable
<1>2. batch \subseteq rows /\ rows \in SUBSET Row
  BY <1>1 DEF Matching, IInv, TypeOK
<1> HIDE DEF batch
<1>3. PICK m \in {cursor[c]} \cup {r.seq : r \in batch} :
          /\ IsResponseCursor(m, cursor[c], batch)
          /\ fetch' = [fetch EXCEPT ![c] =
                         [phase |-> "answered", notes |-> batch, cursor |-> m]]
  BY DEF ReadNotes, batch
<1>4. m \in Nat /\ cursor[c] \in Nat
  BY <1>2, <1>3 DEF IInv, TypeOK, Row
<1>5. UNCHANGED <<rows, sqliteSeq, expired, cursor, received>>
  BY DEF ReadNotes, dbVars
<1>6. \A d \in Clients : d # c => fetch'[d] = fetch[d]
  BY <1>3 DEF IInv, TypeOK
<1>7. fetch'[c] = [phase |-> "answered", notes |-> batch, cursor |-> m]
  BY <1>3 DEF IInv, TypeOK
<1>8. \A d \in Clients : Wanted(d)' = Wanted(d)
  BY <1>5 DEF Wanted
<1>9. CursorsBounded'
  <2>1. IsStoredPosition(m)
    <3>1. CASE m = cursor[c]
      BY <3>1 DEF IInv, ClientInv, CursorsBounded
    <3>2. CASE m \in {r.seq : r \in batch}
      BY <1>2, <1>4, <3>2, EffectiveCursorBounded DEF IsStoredPosition
    <3> QED BY <1>3, <3>1, <3>2
  <2> SUFFICES ASSUME NEW d \in Clients
               PROVE  IsStoredPosition(cursor[d])' /\ IsStoredPosition(fetch[d].cursor)'
    BY DEF CursorsBounded
  <2>2. IsStoredPosition(cursor[d]) /\ IsStoredPosition(fetch[d].cursor)
    BY DEF IInv, ClientInv, CursorsBounded
  <2> QED BY <1>5, <1>6, <1>7, <2>1, <2>2 DEF IsStoredPosition
<1>10. \A r \in Wanted(c) :
          r.seq <= EffectiveCursor(m) =>
              r.seq <= EffectiveCursor(cursor[c]) \/ r \in batch
  <2> SUFFICES ASSUME NEW r \in Wanted(c), r.seq <= EffectiveCursor(m),
                      ~(r.seq <= EffectiveCursor(cursor[c]))
               PROVE  r \in batch
    OBVIOUS
  <2>1. r \in rows /\ r.seq \in Nat
    BY DEF Wanted, IInv, TypeOK, Row
  <2>2. EffectiveCursor(cursor[c]) \in Nat
    BY <1>4, EffectiveCursorBounded
  <2>3. r \in Matching(rows, AskedTags(c), cursor[c])
    BY <2>1, <2>2 DEF Matching, Wanted
  <2>4. IsFiniteSet(rows)
    BY DEF IInv, TypeOK
  <2> QED BY <1>2, <1>3, <1>4, <2>3, <2>4, ResponseCursorCovers DEF batch
<1>11. AnswerCovers'
  BY <1>5, <1>6, <1>7, <1>8, <1>10 DEF IInv, ClientInv, AnswerCovers
<1>12. NothingInvented'
  <2>1. \A r \in batch : r \in rows /\ TagOf[r.id] \in AskedTags(c)
    BY <1>1 DEF Matching
  <2> QED BY <1>5, <1>6, <1>7, <2>1 DEF IInv, ClientInv, NothingInvented
<1>13. NoLeapfrog'
  BY <1>5, <1>8 DEF IInv, ClientInv, NoLeapfrog
<1> QED BY <1>9, <1>11, <1>12, <1>13 DEF ClientInv

\* Importing an answer only adds to what the client has, and is what lets it
\* persist the cursor next.
LEMMA ImportNotesStep ==
    ASSUME IInv, NEW c \in Clients, ImportNotes(c)
    PROVE  ClientInv'
PROOF
<1>1. UNCHANGED <<rows, sqliteSeq, expired, cursor>>
  BY DEF ImportNotes, dbVars
<1>2. /\ fetch[c].phase = "answered"
      /\ received'[c] = received[c] \cup fetch[c].notes
      /\ \A d \in Clients : received[d] \subseteq received'[d]
  BY DEF ImportNotes, IInv, TypeOK
<1>3. /\ \A d \in Clients : d # c => fetch'[d] = fetch[d]
      /\ fetch'[c].phase = "imported"
      /\ fetch'[c].notes = fetch[c].notes
      /\ fetch'[c].cursor = fetch[c].cursor
  BY DEF ImportNotes, IInv, TypeOK, Fetch
<1>4. \A d \in Clients : /\ fetch'[d].notes = fetch[d].notes
                         /\ fetch'[d].cursor = fetch[d].cursor
  BY <1>3
<1>5. \A d \in Clients : Wanted(d)' = Wanted(d)
  BY <1>1 DEF Wanted
<1>6. CursorsBounded'
  BY <1>1, <1>4 DEF IInv, ClientInv, CursorsBounded, IsStoredPosition
<1>7. AnswerCovers'
  BY <1>1, <1>2, <1>3, <1>4, <1>5 DEF IInv, ClientInv, AnswerCovers
<1>8. NothingInvented'
  BY <1>1, <1>4 DEF IInv, ClientInv, NothingInvented
<1>9. NoLeapfrog'
  BY <1>1, <1>2, <1>5 DEF IInv, ClientInv, NoLeapfrog
<1> QED BY <1>6, <1>7, <1>8, <1>9 DEF ClientInv

\* Persisting the cursor: every wanted row up to the new cursor was at or
\* below the old one, or was in the answer that has just been imported.
LEMMA PersistCursorStep ==
    ASSUME IInv, NEW c \in Clients, PersistCursor(c)
    PROVE  ClientInv'
PROOF
<1>1. UNCHANGED <<rows, sqliteSeq, expired, received>>
  BY DEF PersistCursor, dbVars
<1>2. /\ fetch[c].phase = "imported"
      /\ cursor'[c] = fetch[c].cursor
      /\ \A d \in Clients : d # c => cursor'[d] = cursor[d]
  BY DEF PersistCursor, IInv, TypeOK
<1>3. /\ \A d \in Clients : d # c => fetch'[d] = fetch[d]
      /\ fetch'[c] = [phase |-> "idle", notes |-> {}, cursor |-> 0]
  BY DEF PersistCursor, IInv, TypeOK
<1>4. \A d \in Clients : Wanted(d)' = Wanted(d)
  BY <1>1 DEF Wanted
<1>5. CursorsBounded'
  <2>1. EffectiveCursor(0) = 0
    BY EffectiveCursorBounded
  <2> SUFFICES ASSUME NEW d \in Clients
               PROVE  IsStoredPosition(cursor[d])' /\ IsStoredPosition(fetch[d].cursor)'
    BY DEF CursorsBounded
  <2>2. IsStoredPosition(cursor[d]) /\ IsStoredPosition(fetch[d].cursor)
    BY DEF IInv, ClientInv, CursorsBounded
  <2> QED BY <1>1, <1>2, <1>3, <2>1, <2>2 DEF IsStoredPosition
<1>6. AnswerCovers'
  BY <1>1, <1>2, <1>3, <1>4 DEF IInv, ClientInv, AnswerCovers
<1>7. NothingInvented'
  BY <1>1, <1>3 DEF IInv, ClientInv, NothingInvented
<1>8. NoLeapfrog'
  <2>1. ASSUME NEW r \in Wanted(c), r.seq <= EffectiveCursor(fetch[c].cursor)
        PROVE  r \in received[c]
    BY <1>2, <2>1 DEF IInv, ClientInv, AnswerCovers, NoLeapfrog
  <2> QED BY <1>1, <1>2, <1>4, <2>1 DEF IInv, ClientInv, NoLeapfrog
<1> QED BY <1>5, <1>6, <1>7, <1>8 DEF ClientInv

\* No step of a FetchNotes, nor of the client that asked, breaks the invariant.
LEMMA FetchStepInv ==
    ASSUME IInv, TypeOK', NEW c \in Clients, FetchStep(c)
    PROVE  TableInv' /\ SendInv' /\ ClientInv'
PROOF
<1>1. UNCHANGED <<now, rows, sqliteSeq, expired, call, maint>>
  BY FetchStepFrame
<1>2. TableInv' /\ SendInv'
  BY <1>1, TableFrame, SendFrame DEF IInv, dbVars
<1>3. CASE AskNotes(c)
  <2>1. \A d \in Clients :
           \/ fetch'[d] = fetch[d]
           \/ /\ fetch'[d].phase = "waiting"
              /\ fetch'[d].notes = fetch[d].notes
              /\ fetch'[d].cursor = fetch[d].cursor
    BY <1>3 DEF AskNotes, IInv, TypeOK, Fetch
  <2>2. UNCHANGED <<cursor, received>>
    BY <1>3 DEF AskNotes
  <2> QED BY <1>1, <1>2, <2>1, <2>2, FetchQuiet
<1>4. CASE StartRead(c)
  <2>1. \A d \in Clients :
           \/ fetch'[d] = fetch[d]
           \/ /\ fetch'[d].phase = "reading"
              /\ fetch'[d].notes = fetch[d].notes
              /\ fetch'[d].cursor = fetch[d].cursor
    BY <1>4 DEF StartRead, IInv, TypeOK, Fetch
  <2>2. UNCHANGED <<cursor, received>>
    BY <1>4 DEF StartRead
  <2> QED BY <1>1, <1>2, <2>1, <2>2, FetchQuiet
<1>5. CASE ReadNotes(c)
  BY <1>2, <1>5, ReadNotesStep
<1>6. CASE ImportNotes(c)
  BY <1>2, <1>6, ImportNotesStep
<1>7. CASE PersistCursor(c)
  BY <1>2, <1>7, PersistCursorStep
<1>8. CASE FetchDropped(c)
  <2>1. \A d \in Clients :
           \/ fetch'[d] = fetch[d]
           \/ fetch'[d] = [phase |-> "idle", notes |-> {}, cursor |-> 0]
    BY <1>8 DEF FetchDropped, IInv, TypeOK
  <2>2. UNCHANGED <<cursor, received>>
    BY <1>8 DEF FetchDropped
  <2> QED BY <1>1, <1>2, <2>1, <2>2, FetchQuiet
<1> QED
  BY <1>3, <1>4, <1>5, <1>6, <1>7, <1>8 DEF FetchStep

-----------------------------------------------------------------------------
(* The clock, orphaned reads and restarts; the invariant.                  *)

\* A crash rolls back the open transaction: no answer had been given for it,
\* and the cursors and rows that were committed are still there.
LEMMA RestartStep ==
    ASSUME IInv, TypeOK', Restart
    PROVE  TableInv' /\ SendInv' /\ ClientInv'
PROOF
<1>1. /\ UNCHANGED <<now, rows, sqliteSeq, expired, cursor, received>>
      /\ call' = [k \in Calls |-> Interrupted(k)]
      /\ maint'.phase = "due"
  BY DEF Restart, dbVars, IInv, TypeOK, Maint
<1>2. TableInv'
  BY <1>1, TableFrame DEF IInv, dbVars
<1>3. \A k \in Calls :
         /\ call'[k].phase # "inserted"
         /\ call'[k].answer \in {"timeout", call[k].answer}
  BY <1>1 DEF Interrupted, Told
<1>4. SendInv'
  <2>1. OneWriter'
    BY <1>3 DEF OneWriter
  <2>2. CutoffIsOld'
    BY <1>1 DEF CutoffIsOld
  <2>3. AckedIsStored' /\ DuplicateMeansStored'
    BY <1>1, <1>3 DEF IInv, SendInv, AckedIsStored, DuplicateMeansStored
  <2> QED BY <2>1, <2>2, <2>3 DEF SendInv
<1>5. ClientInv'
  <2>1. \A d \in Clients :
           \/ fetch'[d] = fetch[d]
           \/ /\ fetch'[d].phase = "idle"
              /\ fetch'[d].notes = fetch[d].notes
              /\ fetch'[d].cursor = fetch[d].cursor
    BY DEF Restart, IInv, TypeOK, Fetch
  <2> QED BY <1>1, <2>1, FetchQuiet
<1> QED BY <1>2, <1>4, <1>5

\* IInv is inductive: every step keeps it.
LEMMA InvStep == IInv /\ [Next]_vars => IInv'
PROOF
<1> SUFFICES ASSUME IInv, [Next]_vars PROVE IInv'
    OBVIOUS
<1>1. TypeOK'
  BY TypeStep DEF IInv
<1>2. ASSUME NEW k \in Calls, SendStep(k) PROVE IInv'
  BY <1>1, <1>2, SendStepInv DEF IInv
<1>3. CASE MaintStep
  BY <1>1, <1>3, MaintStepInv DEF IInv
<1>4. ASSUME NEW c \in Clients, FetchStep(c) PROVE IInv'
  BY <1>1, <1>4, FetchStepInv DEF IInv
<1>5. CASE StreamerReads \/ OrphanReadEnds
  <2>1. UNCHANGED <<dbVars, call, maint, now, fetch, cursor, received>>
    BY <1>5 DEF StreamerReads, OrphanReadEnds
  <2> QED BY <1>1, <2>1, TableFrame, SendFrame, ClientFrame DEF IInv
<1>6. CASE Tick
  <2>1. UNCHANGED <<dbVars, call, maint, fetch, cursor, received>> /\ now' = now + 1
    BY <1>6 DEF Tick, clientVars
  <2>2. OneWriter' /\ AckedIsStored' /\ DuplicateMeansStored'
    BY <2>1 DEF IInv, SendInv, OneWriter, AckedIsStored, DuplicateMeansStored,
                IdTaken, dbVars
  <2>3. CutoffIsOld'
    <3>1. now \in Nat /\ Retention \in Nat /\ maint.cutoff \in Int
      BY BoundAssumption DEF IInv, TypeOK, Maint
    <3>2. maint.phase \in {"waiting", "running", "deleting"} =>
            maint.cutoff <= now - Retention
      BY DEF IInv, SendInv, CutoffIsOld
    <3> QED BY <2>1, <3>1, <3>2 DEF CutoffIsOld
  <2> QED BY <1>1, <2>1, <2>2, <2>3, TableFrame, ClientFrame DEF IInv, SendInv
<1>7. CASE Restart
  BY <1>1, <1>7, RestartStep DEF IInv
<1>8. ASSUME NEW w \in Watchers, StatsStep(w) PROVE IInv'
  <2>1. UNCHANGED <<dbVars, call, maint, now, fetch, cursor, received>>
    BY <1>8, StatsStepFrame DEF statsOnly
  <2> QED BY <1>1, <2>1, TableFrame, SendFrame, ClientFrame DEF IInv
<1>9. CASE UNCHANGED vars
  <2>1. UNCHANGED <<dbVars, call, maint, now, fetch, cursor, received>>
    BY <1>9 DEF vars, clientVars
  <2> QED BY <1>1, <2>1, TableFrame, SendFrame, ClientFrame DEF IInv
<1> QED BY <1>2, <1>3, <1>4, <1>5, <1>6, <1>7, <1>8, <1>9 DEF Next

\* The inductive invariant holds in every reachable state of the node.
THEOREM Invariant == Spec => []IInv
BY InvInit, InvStep, PTL DEF Spec

\* A client's cursor never passes a stored note under one of its tags that
\* the client has not imported.
THEOREM NothingLeapfrogged == Spec => []NoLeapfrog
<1>1. IInv => NoLeapfrog
  BY DEF IInv, ClientInv
<1> QED BY <1>1, Invariant, PTL

\* SendNote answers "ok" only for a note that was committed, and that is in
\* the table until it expires.
THEOREM AcknowledgedIsStored == Spec => []AckedIsStored
<1>1. IInv => AckedIsStored
  BY DEF IInv, SendInv
<1> QED BY <1>1, Invariant, PTL

\* A sender is told "duplicate" only of a note that is or was in the table: an
\* insert that is still open, and may be rolled back, is not one.
THEOREM DuplicateIsStored == Spec => []DuplicateMeansStored
<1>1. IInv => DuplicateMeansStored
  BY DEF IInv, SendInv
<1> QED BY <1>1, Invariant, PTL

\* No id and no `seq` is ever in the table twice, however sends and their
\* retries overlap.
THEOREM NothingTwice == Spec => []StoredOnce
<1>1. IInv => StoredOnce
  BY DEF IInv, TableInv
<1> QED BY <1>1, Invariant, PTL

-----------------------------------------------------------------------------
(* The statistics.                                                         *)

\* A commit adds one row and takes one value of the sequence.
LEMMA TableGrowth ==
    ASSUME IInv, [Next]_vars
    PROVE  /\ sqliteSeq' \in Nat /\ sqliteSeq <= sqliteSeq'
           /\ Cardinality(rows') <= Cardinality(rows) + (sqliteSeq' - sqliteSeq)
PROOF
<1>1. IsFiniteSet(rows) /\ Cardinality(rows) \in Nat /\ sqliteSeq \in Nat
  BY TableCounted DEF IInv, TypeOK
<1>2. ASSUME NEW k \in Calls, CommitNote(k)
      PROVE  /\ sqliteSeq' = sqliteSeq + 1
             /\ Cardinality(rows') <= Cardinality(rows) + 1
  <2>1. PICK new : rows' = rows \cup {new}
    BY <1>2 DEF CommitNote
  <2>2. Cardinality(rows') <= Cardinality(rows) + 1
    BY <1>1, <2>1, FS_AddElement
  <2>3. sqliteSeq' = sqliteSeq + 1
    BY <1>2 DEF CommitNote, IInv, SendInv, OneWriter
  <2> QED BY <2>2, <2>3
<1>3. CASE CommitCleanup
  <2>1. rows' \in SUBSET rows /\ sqliteSeq' = sqliteSeq
    BY <1>3 DEF CommitCleanup
  <2>2. Cardinality(rows') <= Cardinality(rows)
    BY <1>1, <2>1, FS_Subset
  <2> QED BY <1>1, <2>1, <2>2, FS_Subset, FS_CardinalityType
<1>4. CASE ~CommitCleanup /\ \A k \in Calls : ~CommitNote(k)
  <2>1. UNCHANGED <<rows, sqliteSeq>>
    BY <1>4 DEF Next, SendStep, MaintStep, FetchStep, RejectNote, AcceptNote,
       StartStore, InsertNote, StoreBusy, StoreFails, SendDropped,
       StartCleanup, StartDelete, DeleteOld, WakeCleanup, CleanupFails,
       AskNotes, StartRead, ReadNotes, ImportNotes, PersistCursor, FetchDropped,
       StreamerReads, OrphanReadEnds, Tick, Restart, StatsStep, AskStats, StartStats, CountRows,
       StatsDropped, statsOnly, vars, dbVars, clientVars
  <2> QED BY <1>1, <2>1
<1>5. Cardinality(rows') \in Nat
  BY TypeStep, TableCounted, <1>1, FS_CardinalityType DEF IInv, TypeOK
<1> QED BY <1>1, <1>2, <1>3, <1>4, <1>5

\* What a watcher's request does in one step: nothing, or start over, or one of
\* the two counts.
LEMMA StatsMove ==
    ASSUME IInv, [Next]_vars, NEW w \in Watchers
    PROVE  \/ stats'[w] = stats[w]
           \/ stats'[w].phase \notin {"counted", "answered"}
           \/ /\ UNCHANGED <<rows, sqliteSeq>>
              /\ stats'[w] = [stats[w] EXCEPT !.phase = "counted", !.from = sqliteSeq,
                                              !.notes = Cardinality(rows)]
           \/ /\ UNCHANGED <<rows, sqliteSeq>>
              /\ stats[w].phase = "counted"
              /\ stats'[w] = [stats[w] EXCEPT !.phase = "answered", !.to = sqliteSeq,
                                              !.tags = Cardinality(TagsInUse)]
PROOF
<1>1. stats[w] \in Stats /\ stats \in [Watchers -> Stats]
  BY DEF IInv, TypeOK
<1>2. ASSUME NEW v \in Watchers, v # w, StatsStep(v) PROVE stats'[w] = stats[w]
  BY <1>1, <1>2 DEF StatsStep, AskStats, StartStats, CountRows, StatsDropped
<1>3. CASE AskStats(w) \/ StartStats(w) \/ StatsDropped(w)
  BY <1>1, <1>3 DEF AskStats, StartStats, StatsDropped, NoStats, Stats
<1>4. CASE CountRows(w)
  BY <1>1, <1>4 DEF CountRows, statsOnly, dbVars
<1>5. CASE Restart
  BY <1>1, <1>5 DEF Restart, NoStats
<1>6. CASE ~Restart /\ \A v \in Watchers : ~StatsStep(v)
  BY <1>6 DEF Next, SendStep, MaintStep, FetchStep, RejectNote, AcceptNote,
     StartStore, InsertNote, CommitNote, StoreBusy, StoreFails, SendDropped,
     StartCleanup, StartDelete, DeleteOld, CommitCleanup, WakeCleanup,
     CleanupFails, AskNotes, StartRead, ReadNotes, ImportNotes, PersistCursor,
     FetchDropped, StreamerReads, OrphanReadEnds, Tick, vars, clientVars
<1> QED BY <1>2, <1>3, <1>4, <1>5, <1>6 DEF StatsStep

\* Between the two counts the table grows by no more than what was stored, and
\* the second count finds no more tags than rows.
LEMMA StatsInvStep == IInv /\ StatsInv /\ [Next]_vars => StatsInv'
PROOF
<1> SUFFICES ASSUME IInv, StatsInv, [Next]_vars, NEW w \in Watchers
             PROVE  /\ stats'[w].phase = "counted" =>
                         /\ Cardinality(rows') <=
                               stats'[w].notes + (sqliteSeq' - stats'[w].from)
                         /\ stats'[w].from <= sqliteSeq'
                    /\ stats'[w].phase = "answered" =>
                         stats'[w].tags <=
                               stats'[w].notes + (stats'[w].to - stats'[w].from)
    BY DEF StatsInv, StatsAgree
<1>1. /\ Cardinality(rows) \in Nat /\ Cardinality(TagsInUse) \in Nat
      /\ Cardinality(TagsInUse) <= Cardinality(rows)
      /\ sqliteSeq \in Nat /\ stats[w] \in Stats
  BY TableCounted DEF IInv, TypeOK
<1>2. Cardinality(rows') \in Nat
  BY TypeStep, TableCounted, FS_CardinalityType DEF IInv, TypeOK
<1>3. /\ stats[w].notes \in Nat /\ stats[w].tags \in Nat
      /\ stats[w].from \in Nat /\ stats[w].to \in Nat
  BY <1>1 DEF Stats
<1>4. /\ stats[w].phase = "counted" =>
            /\ Cardinality(rows) <= stats[w].notes + (sqliteSeq - stats[w].from)
            /\ stats[w].from <= sqliteSeq
      /\ stats[w].phase = "answered" =>
            stats[w].tags <= stats[w].notes + (stats[w].to - stats[w].from)
  BY DEF StatsInv, StatsAgree
<1>5. CASE stats'[w] = stats[w]
  BY <1>1, <1>2, <1>3, <1>4, <1>5, TableGrowth
<1>6. CASE stats'[w].phase \notin {"counted", "answered"}
  BY <1>6
<1>7. CASE /\ UNCHANGED <<rows, sqliteSeq>>
           /\ stats'[w] = [stats[w] EXCEPT !.phase = "counted", !.from = sqliteSeq,
                                           !.notes = Cardinality(rows)]
  <2>1. stats'[w].phase = "counted" /\ stats'[w].from = sqliteSeq
        /\ stats'[w].notes = Cardinality(rows)
    BY <1>1, <1>7 DEF Stats
  <2> QED BY <1>1, <1>7, <2>1
<1>8. CASE /\ UNCHANGED <<rows, sqliteSeq>>
           /\ stats[w].phase = "counted"
           /\ stats'[w] = [stats[w] EXCEPT !.phase = "answered", !.to = sqliteSeq,
                                           !.tags = Cardinality(TagsInUse)]
  <2>1. /\ stats'[w].phase = "answered" /\ stats'[w].to = sqliteSeq
        /\ stats'[w].tags = Cardinality(TagsInUse)
        /\ stats'[w].notes = stats[w].notes /\ stats'[w].from = stats[w].from
    BY <1>1, <1>8 DEF Stats
  <2> QED BY <1>1, <1>3, <1>4, <1>8, <2>1
<1> QED BY <1>5, <1>6, <1>7, <1>8, StatsMove

\* The two counts of a Stats answer differ from those of one moment by no more
\* than the notes that were stored between the two queries.
THEOREM StatisticsBounded == Spec => []StatsAgree
<1>1. Init => StatsInv
  BY DEF Init, StatsInv, StatsAgree, NoStats
<1>2. StatsInv => StatsAgree
  BY DEF StatsInv
<1> QED BY <1>1, <1>2, StatsInvStep, Invariant, PTL DEF Spec

-----------------------------------------------------------------------------
(* Headway: polling clients go forward, and every read has an answer.      *)

Ended == {k \in Calls : call[k].phase = "done"}

\* Each value of the sequence went to a call of its own, which has ended.
SeqCounted == sqliteSeq <= Cardinality(Ended)

\* An answer holds notes above the cursor it was asked with, and its own cursor is
\* that one or the `seq` of the last of them.
AnswerAhead ==
    \A c \in Clients : fetch[c].phase \in {"answered", "imported"} =>
        /\ \A r \in fetch[c].notes :
               EffectiveCursor(cursor[c]) < r.seq /\ r.seq <= fetch[c].cursor
        /\ fetch[c].cursor \in {cursor[c]} \cup {r.seq : r \in fetch[c].notes}

PollInv == SeqCounted /\ AnswerAhead

\* A call that has ended stays so.
LEMMA EndedStays ==
    ASSUME IInv, [Next]_vars
    PROVE  Ended \subseteq Ended'
PROOF
<1> SUFFICES ASSUME NEW k \in Calls, call[k].phase = "done"
             PROVE  call'[k].phase = "done"
    BY DEF Ended
<1>1. call \in [Calls -> Call]
  BY DEF IInv, TypeOK
<1>2. ASSUME NEW j \in Calls, SendStep(j) PROVE call'[k] = call[k]
  <2>1. j # k
    BY <1>2 DEF SendStep, RejectNote, AcceptNote, StartStore, InsertNote,
                CommitNote, StoreBusy, StoreFails, SendDropped
  <2> QED BY <1>1, <1>2, <2>1 DEF SendStep, RejectNote, AcceptNote, StartStore,
             InsertNote, CommitNote, StoreBusy, StoreFails, SendDropped
<1>3. CASE Restart
  BY <1>3 DEF Restart, Interrupted
<1>4. CASE ~Restart /\ \A j \in Calls : ~SendStep(j)
  BY <1>4 DEF Next, MaintStep, FetchStep, StartCleanup, StartDelete, DeleteOld,
     CommitCleanup, WakeCleanup, CleanupFails, AskNotes, StartRead, ReadNotes,
     ImportNotes, PersistCursor, FetchDropped, StreamerReads, OrphanReadEnds, Tick, StatsStep,
     AskStats, StartStats, CountRows, StatsDropped, statsOnly, vars
<1> QED BY <1>2, <1>3, <1>4

\* The sequence moves on with a commit only, and the call that commits ends.
LEMMA SeqCountedStep == IInv /\ SeqCounted /\ [Next]_vars => SeqCounted'
PROOF
<1> SUFFICES ASSUME IInv, SeqCounted, [Next]_vars PROVE SeqCounted'
    OBVIOUS
<1>1. /\ IsFiniteSet(Ended) /\ Cardinality(Ended) \in Nat
      /\ IsFiniteSet(Ended') /\ Cardinality(Ended') \in Nat
  <2>1. Ended \in SUBSET Calls /\ Ended' \in SUBSET Calls
    BY DEF Ended
  <2> QED BY <2>1, ThresholdAssumption, FS_Subset, FS_CardinalityType
<1>2. sqliteSeq \in Nat /\ call \in [Calls -> Call]
  BY DEF IInv, TypeOK
<1>3. ASSUME NEW k \in Calls, CommitNote(k) PROVE SeqCounted'
  <2>1. sqliteSeq' = sqliteSeq + 1
    BY <1>3 DEF CommitNote, IInv, SendInv, OneWriter
  <2>2. k \notin Ended /\ Ended \cup {k} \in SUBSET Ended'
    <3>1. k \notin Ended /\ k \in Ended'
      BY <1>2, <1>3 DEF CommitNote, Ended, Call
    <3> QED BY <3>1, EndedStays
  <2>3. Cardinality(Ended \cup {k}) = Cardinality(Ended) + 1
    BY <1>1, <2>2, FS_AddElement
  <2>4. Cardinality(Ended \cup {k}) <= Cardinality(Ended')
    BY <1>1, <2>2, FS_Subset
  <2> QED BY <1>1, <1>2, <2>1, <2>3, <2>4 DEF SeqCounted
<1>4. CASE \A k \in Calls : ~CommitNote(k)
  <2>1. sqliteSeq' = sqliteSeq
    BY <1>4 DEF Next, SendStep, MaintStep, FetchStep, RejectNote, AcceptNote,
       StartStore, InsertNote, StoreBusy, StoreFails, SendDropped,
       StartCleanup, StartDelete, DeleteOld, CommitCleanup, WakeCleanup,
       CleanupFails, AskNotes, StartRead, ReadNotes, ImportNotes, PersistCursor,
       FetchDropped, StreamerReads, OrphanReadEnds, Tick, Restart, StatsStep, AskStats,
       StartStats, CountRows, StatsDropped, statsOnly, vars, dbVars
  <2>2. Cardinality(Ended) <= Cardinality(Ended')
    BY <1>1, EndedStays, FS_Subset
  <2> QED BY <1>1, <1>2, <2>1, <2>2 DEF SeqCounted
<1> QED BY <1>3, <1>4

\* No position there ever was is read as a timestamp.
LEMMA PositionsAreCursors ==
    ASSUME IInv, SeqCounted
    PROVE  \A r \in rows \cup expired :
              r.seq \in Nat /\ r.seq > 0 /\ EffectiveCursor(r.seq) = r.seq
PROOF
<1>1. Cardinality(Ended) <= Cardinality(Calls) /\ Cardinality(Ended) \in Nat
      /\ Cardinality(Calls) \in Nat
  <2>1. Ended \in SUBSET Calls
    BY DEF Ended
  <2> QED BY <2>1, ThresholdAssumption, FS_Subset, FS_CardinalityType
<1>2. sqliteSeq \in Nat /\ sqliteSeq <= LegacyThreshold
  BY <1>1, ThresholdAssumption, LegacyAssumption DEF IInv, TypeOK, SeqCounted
<1>3. \A r \in rows \cup expired : r.seq \in Nat /\ r.seq > 0 /\ r.seq <= sqliteSeq
  BY DEF IInv, TypeOK, TableInv, SeqBounded, Row
<1> QED BY <1>2, <1>3, LegacyAssumption DEF EffectiveCursor

\* What a step does to one client's request, as far as its answer goes.
LEMMA AnswerMove ==
    ASSUME IInv, [Next]_vars, NEW c \in Clients
    PROVE  \/ fetch'[c].phase \notin {"answered", "imported"}
           \/ ReadNotes(c)
           \/ /\ fetch[c].phase \in {"answered", "imported"}
              /\ fetch'[c].notes = fetch[c].notes /\ fetch'[c].cursor = fetch[c].cursor
              /\ cursor'[c] = cursor[c]
PROOF
<1>1. fetch \in [Clients -> Fetch] /\ cursor \in [Clients -> Nat]
  BY DEF IInv, TypeOK
<1>2. CASE FetchStep(c)
  BY <1>1, <1>2 DEF FetchStep, AskNotes, StartRead, ImportNotes, PersistCursor,
     FetchDropped, Fetch
<1>3. ASSUME NEW d \in Clients, d # c, FetchStep(d)
      PROVE  fetch'[c] = fetch[c] /\ cursor'[c] = cursor[c]
  BY <1>1, <1>3 DEF FetchStep, AskNotes, StartRead, ReadNotes, ImportNotes,
     PersistCursor, FetchDropped
<1>4. CASE Restart
  BY <1>1, <1>4 DEF Restart, Fetch
<1>5. CASE ~Restart /\ \A d \in Clients : ~FetchStep(d)
  <2>1. fetch' = fetch /\ cursor' = cursor
    BY <1>5 DEF Next, SendStep, MaintStep, RejectNote, AcceptNote, StartStore,
       InsertNote, CommitNote, StoreBusy, StoreFails, SendDropped, StartCleanup,
       StartDelete, DeleteOld, CommitCleanup, WakeCleanup, CleanupFails,
       StreamerReads, OrphanReadEnds, Tick, StatsStep, AskStats, StartStats, CountRows,
       StatsDropped, statsOnly, vars, clientVars
  <2> QED BY <2>1
<1> QED BY <1>2, <1>3, <1>4, <1>5

\* An answer lies ahead of the cursor it was asked with until it is persisted.
LEMMA AnswerAheadStep == IInv /\ AnswerAhead /\ [Next]_vars => AnswerAhead'
PROOF
<1> SUFFICES ASSUME IInv, AnswerAhead, [Next]_vars, NEW c \in Clients,
                    fetch'[c].phase \in {"answered", "imported"}
             PROVE  /\ \A r \in fetch'[c].notes :
                           EffectiveCursor(cursor'[c]) < r.seq /\ r.seq <= fetch'[c].cursor
                    /\ fetch'[c].cursor \in {cursor'[c]} \cup {r.seq : r \in fetch'[c].notes}
    BY DEF AnswerAhead
<1>1. CASE ReadNotes(c)
  <2> DEFINE batch == Batch(rows, AskedTags(c), cursor[c])
  <2>1. PICK m \in {cursor[c]} \cup {r.seq : r \in batch} :
            /\ IsResponseCursor(m, cursor[c], batch)
            /\ fetch' = [fetch EXCEPT ![c] =
                           [phase |-> "answered", notes |-> batch, cursor |-> m]]
    BY <1>1 DEF ReadNotes
  <2>2. fetch'[c].notes = batch /\ fetch'[c].cursor = m /\ cursor' = cursor
    BY <1>1, <2>1 DEF ReadNotes, IInv, TypeOK
  <2>3. \A r \in batch : r.seq \in Nat /\ EffectiveCursor(cursor[c]) < r.seq
    BY EffectiveCursorBounded DEF Batch, Matching, IInv, TypeOK, Row
  <2>4. \A r \in batch : r.seq <= m
    BY <2>1, <2>3 DEF IsResponseCursor, IInv, TypeOK
  <2> QED BY <2>1, <2>2, <2>3, <2>4
<1>2. CASE /\ fetch[c].phase \in {"answered", "imported"}
           /\ fetch'[c].notes = fetch[c].notes /\ fetch'[c].cursor = fetch[c].cursor
           /\ cursor'[c] = cursor[c]
  BY <1>2 DEF AnswerAhead
<1> QED BY <1>1, <1>2, AnswerMove

\* Only PersistCursor changes a persisted cursor.
LEMMA CursorMove ==
    ASSUME IInv, [Next]_vars, NEW c \in Clients, ~PersistCursor(c)
    PROVE  cursor'[c] = cursor[c]
PROOF
<1>1. cursor \in [Clients -> Nat]
  BY DEF IInv, TypeOK
<1>2. ASSUME NEW d \in Clients, PersistCursor(d) PROVE cursor'[c] = cursor[c]
  BY <1>1, <1>2 DEF PersistCursor
<1>3. CASE \A d \in Clients : ~PersistCursor(d)
  BY <1>3 DEF Next, SendStep, MaintStep, FetchStep, RejectNote, AcceptNote,
     StartStore, InsertNote, CommitNote, StoreBusy, StoreFails, SendDropped,
     StartCleanup, StartDelete, DeleteOld, CommitCleanup, WakeCleanup,
     CleanupFails, AskNotes, StartRead, ReadNotes, ImportNotes, FetchDropped,
     StreamerReads, OrphanReadEnds, Tick, Restart, StatsStep, AskStats, StartStats, CountRows,
     StatsDropped, statsOnly, vars, clientVars
<1> QED BY <1>2, <1>3

\* A persisted cursor is no further back than the one before, and beyond the
\* notes that came with it unless it is a timestamp.
LEMMA PersistAdvances ==
    ASSUME IInv, PollInv, NEW c \in Clients, PersistCursor(c)
    PROVE  LET from == EffectiveCursor(cursor[c])
               to   == EffectiveCursor(cursor'[c])
           IN  /\ from <= to
               /\ from = cursor[c] =>
                      \A r \in fetch[c].notes : from < r.seq /\ r.seq <= to
PROOF
<1> DEFINE from == EffectiveCursor(cursor[c])
           to   == EffectiveCursor(cursor'[c])
           m    == fetch[c].cursor
<1>1. cursor'[c] = m /\ fetch[c].phase = "imported"
  BY DEF PersistCursor, IInv, TypeOK
<1>2. /\ cursor[c] \in Nat /\ m \in Nat
      /\ from \in Nat /\ from <= cursor[c] /\ to \in Nat
  BY <1>1, EffectiveCursorBounded DEF IInv, TypeOK, Fetch
<1>3. /\ \A r \in fetch[c].notes : from < r.seq /\ r.seq <= m
      /\ m \in {cursor[c]} \cup {r.seq : r \in fetch[c].notes}
  BY <1>1 DEF PollInv, AnswerAhead
<1>4. \A r \in fetch[c].notes : r.seq \in Nat /\ EffectiveCursor(r.seq) = r.seq
  BY PositionsAreCursors DEF PollInv, IInv, ClientInv, NothingInvented
<1>5. CASE m = cursor[c]
  <2>1. to = from
    BY <1>1, <1>5
  <2> HIDE DEF from, to, m
  <2>2. from = cursor[c] => \A r \in fetch[c].notes : FALSE
    BY <1>2, <1>3, <1>4, <1>5
  <2> QED BY <1>2, <2>1, <2>2 DEF from, to
<1>6. CASE m # cursor[c]
  <2>1. PICK q \in fetch[c].notes : m = q.seq
    BY <1>3, <1>6
  <2>2. to = m
    BY <1>1, <1>4, <2>1
  <2> HIDE DEF from, to, m
  <2>3. from <= to
    BY <1>2, <1>3, <1>4, <2>1, <2>2
  <2> QED BY <1>2, <1>3, <2>2, <2>3 DEF from, to
<1> QED BY <1>5, <1>6

\* A client's position never goes back, and an answer that brought notes moves it
\* over them: what fetch_notes returns as a cursor starts from the cursor of the
\* request and ends at the last note of the page.
THEOREM ClientsAdvance == Spec => PollsAdvance
<1>1. Init => PollInv
  <2>1. Ended \in SUBSET Calls
    BY DEF Ended
  <2>2. IsFiniteSet(Ended) /\ Cardinality(Ended) \in Nat
    BY <2>1, ThresholdAssumption, FS_Subset, FS_CardinalityType
  <2> QED BY <2>2 DEF Init, PollInv, SeqCounted, AnswerAhead
<1>2. IInv /\ PollInv /\ [Next]_vars => PollInv'
  BY SeqCountedStep, AnswerAheadStep DEF PollInv
<1>3. IInv /\ PollInv /\ [Next]_vars =>
          [\A c \in Clients :
             LET from == EffectiveCursor(cursor[c])
                 to   == EffectiveCursor(cursor'[c])
             IN  /\ from <= to
                 /\ (PersistCursor(c) /\ from = cursor[c]) =>
                        \A r \in fetch[c].notes : from < r.seq /\ r.seq <= to]_vars
  <2> SUFFICES ASSUME IInv, PollInv, [Next]_vars, NEW c \in Clients
               PROVE  LET from == EffectiveCursor(cursor[c])
                          to   == EffectiveCursor(cursor'[c])
                      IN  /\ from <= to
                          /\ (PersistCursor(c) /\ from = cursor[c]) =>
                                 \A r \in fetch[c].notes : from < r.seq /\ r.seq <= to
    OBVIOUS
  <2>1. CASE PersistCursor(c)
    BY <2>1, PersistAdvances
  <2>2. CASE ~PersistCursor(c)
    <3>1. cursor'[c] = cursor[c] /\ EffectiveCursor(cursor[c]) \in Nat
      BY <2>2, CursorMove, EffectiveCursorBounded DEF IInv, TypeOK
    <3> QED BY <2>2, <3>1
  <2> QED BY <2>1, <2>2
<1> QED BY <1>1, <1>2, <1>3, Invariant, PTL DEF Spec, PollsAdvance

\* The handler has a cursor to return with what its SELECT brings.
ReadsAnswerable ==
    \A c \in Clients : fetch[c].phase = "reading" =>
        LET batch == Batch(rows, AskedTags(c), cursor[c])
        IN  \E m \in {cursor[c]} \cup {r.seq : r \in batch} :
               IsResponseCursor(m, cursor[c], batch)

\* A read that is under way can be answered, whatever is in the table by then: the
\* model's fetch_notes is never stuck for a cursor.
THEOREM ReadsHaveAnswers == Spec => []ReadsAnswerable
<1>1. IInv => ReadsAnswerable
  <2> SUFFICES ASSUME IInv, NEW c \in Clients
               PROVE  LET batch == Batch(rows, AskedTags(c), cursor[c])
                      IN  \E m \in {cursor[c]} \cup {r.seq : r \in batch} :
                             IsResponseCursor(m, cursor[c], batch)
    BY DEF ReadsAnswerable
  <2>1. rows \in SUBSET Row /\ IsFiniteSet(rows) /\ cursor[c] \in Nat
    BY TableCounted DEF IInv, TypeOK
  <2> QED BY <2>1, ResponseCursorExists
<1> QED BY <1>1, Invariant, PTL

\* A poll that is answered with nothing had nothing ahead of it: ORDER BY and LIMIT
\* cut off the far end of what matches, and the WHERE clause comes first.
THEOREM BacklogsAreServed == Spec => BacklogIsServed
<1>1. IInv /\ [Next]_vars =>
        [\A c \in Clients :
            /\ fetch[c].phase = "reading"
            /\ fetch'[c].phase = "answered"
            /\ \E r \in Wanted(c) : r.seq > EffectiveCursor(cursor[c])
            => fetch'[c].notes # {}]_vars
  <2> SUFFICES ASSUME IInv, [Next]_vars, NEW c \in Clients,
                      fetch[c].phase = "reading", fetch'[c].phase = "answered",
                      NEW r \in Wanted(c), r.seq > EffectiveCursor(cursor[c])
               PROVE  fetch'[c].notes # {}
    OBVIOUS
  <2>1. ReadNotes(c)
    BY AnswerMove
  <2>2. fetch'[c].notes = Batch(rows, AskedTags(c), cursor[c])
    BY <2>1 DEF ReadNotes, IInv, TypeOK
  <2>3. r \in Matching(rows, AskedTags(c), cursor[c])
    BY DEF Wanted, Matching
  <2>4. rows \in SUBSET Row /\ IsFiniteSet(rows)
    BY TableCounted DEF IInv, TypeOK
  <2> QED BY <2>2, <2>3, <2>4, EmptyPageMeansNothing
<1> QED BY <1>1, Invariant, PTL DEF Spec, BacklogIsServed

-----------------------------------------------------------------------------
(* Retention, and the mailbox.                                             *)

\* Only a commit of the retention task takes rows away, and it takes none that
\* is younger than the retention period, however old its cutoff is by then.
THEOREM RetentionIsRespected == Spec => RetentionRespected
<1>1. IInv /\ [Next]_vars =>
        [\A r \in rows \ rows' : r.created_at < now - Retention]_vars
  <2> SUFFICES ASSUME IInv, Next, NEW r \in rows \ rows'
               PROVE  r.created_at < now - Retention
    BY DEF vars
  <2>1. CASE CommitCleanup
    <3>1. /\ maint.phase = "deleting"
          /\ r.created_at < maint.cutoff
      BY <2>1 DEF CommitCleanup, OlderThan
    <3>2. maint.cutoff <= now - Retention
      BY <3>1 DEF IInv, SendInv, CutoffIsOld
    <3>3. /\ r.created_at \in Nat /\ maint.cutoff \in Int
          /\ now \in Nat /\ Retention \in Nat
      BY BoundAssumption DEF IInv, TypeOK, Row, Maint
    <3> QED BY <3>1, <3>2, <3>3
  <2>2. CASE ~CommitCleanup
    <3>1. rows \subseteq rows'
      BY <2>2 DEF Next, SendStep, MaintStep, FetchStep, RejectNote, AcceptNote,
         StartStore, InsertNote, CommitNote, StoreBusy, StoreFails, SendDropped,
         StartCleanup, StartDelete, DeleteOld, WakeCleanup, CleanupFails,
         AskNotes, StartRead, ReadNotes, ImportNotes, PersistCursor,
         FetchDropped, StreamerReads, OrphanReadEnds, Tick, Restart, StatsStep, AskStats,
         StartStats, CountRows, StatsDropped, statsOnly, dbVars
    <3> QED BY <3>1
  <2> QED BY <2>1, <2>2
<1> QED BY <1>1, Invariant, PTL DEF Spec, RetentionRespected

\* An empty table with new and legacy cursors is an empty mailbox.
LEMMA MailboxInit == Init => Mail!Init
PROOF
<1> SUFFICES ASSUME Init PROVE Mail!Init
    OBVIOUS
<1>1. [c \in Clients |-> EffectiveCursor(cursor[c])] = [c \in Clients |-> 0]
  BY ClientAssumption DEF Init
<1> QED BY <1>1 DEF Init, Mail!Init

\* The four steps the mailbox sees; each leaves the rest of its state alone.
LEMMA CommitIsPost ==
    ASSUME IInv, NEW k \in Calls, CommitNote(k)
    PROVE  Mail!Post
PROOF
<1> DEFINE new == [seq |-> call[k].seq, id |-> CallNote[k],
                   created_at |-> call[k].created_at]
<1>1. /\ rows' = rows \cup {new}
      /\ UNCHANGED <<expired, cursor, received>>
  BY DEF CommitNote, clientVars
<1>2. new.seq = sqliteSeq + 1
  BY DEF CommitNote, IInv, SendInv, OneWriter
<1> HIDE DEF new
<1>3. \A r \in rows \cup expired : r.seq \in Nat /\ r.seq <= sqliteSeq
  BY DEF IInv, TableInv, SeqBounded, TypeOK, Row
<1>4. sqliteSeq \in Nat
  BY DEF IInv, TypeOK
<1>5. new \notin rows \cup expired
  BY <1>2, <1>3, <1>4
<1>6. new \in (rows' \cup expired') \ (rows \cup expired)
  BY <1>1, <1>5
<1>7. rows' \cup expired' = (rows \cup expired) \cup {new}
  BY <1>1
<1>8. /\ RowPosition(new) \in Nat \ {0}
      /\ \A r \in rows \cup expired : RowPosition(r) < RowPosition(new)
  BY <1>2, <1>3, <1>4 DEF RowPosition
<1> QED BY <1>1, <1>6, <1>7, <1>8 DEF Mail!Post

\* The commit of the retention task expires messages and touches no reader.
LEMMA CleanupIsExpire ==
    ASSUME IInv, CommitCleanup
    PROVE  Mail!Expire
PROOF
<1>1. /\ UNCHANGED <<cursor, received>>
      /\ rows' \cup expired' = rows \cup expired
      /\ expired \subseteq expired'
      /\ expired' \subseteq rows \cup expired
  BY DEF CommitCleanup, OlderThan, clientVars
<1> QED BY <1>1 DEF Mail!Expire

\* Importing an answer picks up messages that were posted for this client.
LEMMA ImportIsPickUp ==
    ASSUME IInv, NEW c \in Clients, ImportNotes(c)
    PROVE  Mail!PickUp(c)
PROOF
<1>1. /\ UNCHANGED <<rows, expired, cursor>>
      /\ received' = [received EXCEPT ![c] = received'[c]]
      /\ received'[c] = received[c] \cup fetch[c].notes
  BY DEF ImportNotes, dbVars, IInv, TypeOK
<1>2. \A r \in fetch[c].notes : r \in rows \cup expired /\ RowIsFor(r, c)
  BY DEF IInv, ClientInv, NothingInvented, RowIsFor
<1>3. /\ received[c] \subseteq received'[c]
      /\ \A r \in received'[c] \ received[c] : r \in rows \cup expired /\ RowIsFor(r, c)
  BY <1>1, <1>2
<1> QED BY <1>1, <1>3 DEF Mail!PickUp

\* Persisting a returned cursor moves the reader over nothing it does not hold.
LEMMA PersistIsMove ==
    ASSUME IInv, NEW c \in Clients, PersistCursor(c)
    PROVE  Mail!Move(c)
PROOF
<1> DEFINE p == EffectiveCursor(fetch[c].cursor)
           position == [d \in Clients |-> EffectiveCursor(cursor[d])]
<1>1. /\ UNCHANGED <<rows, expired, received>>
      /\ cursor' = [cursor EXCEPT ![c] = fetch[c].cursor]
      /\ fetch[c].phase = "imported"
  BY DEF PersistCursor, dbVars
<1>2. p \in {0} \cup {RowPosition(r) : r \in rows \cup expired}
  BY DEF IInv, ClientInv, CursorsBounded, IsStoredPosition, RowPosition
<1>3. \A r \in (rows \cup expired) \ expired :
          RowIsFor(r, c) /\ RowPosition(r) <= p => r \in received[c]
  BY <1>1 DEF IInv, ClientInv, AnswerCovers, NoLeapfrog, Wanted, RowIsFor, RowPosition
<1>4. position' = [position EXCEPT ![c] = p]
  BY <1>1 DEF IInv, TypeOK
<1> HIDE DEF p
<1> QED BY <1>1, <1>2, <1>3, <1>4 DEF Mail!Move, Mail!Kept

\* Every step of the node or of a client is a step of the mailbox or leaves it
\* as it is.
LEMMA MailboxStep == IInv /\ [Next]_vars => [Mail!Next]_Mail!mailboxVars
PROOF
<1> SUFFICES ASSUME IInv, [Next]_vars PROVE [Mail!Next]_Mail!mailboxVars
    OBVIOUS
<1>1. ASSUME NEW k \in Calls, CommitNote(k) PROVE Mail!Next
  BY <1>1, CommitIsPost DEF Mail!Next
<1>2. CASE CommitCleanup
  BY <1>2, CleanupIsExpire DEF Mail!Next
<1>3. ASSUME NEW c \in Clients, ImportNotes(c) PROVE Mail!Next
  BY <1>3, ImportIsPickUp DEF Mail!Next
<1>4. ASSUME NEW c \in Clients, PersistCursor(c) PROVE Mail!Next
  BY <1>4, PersistIsMove DEF Mail!Next
<1>5. CASE /\ \A k \in Calls : ~CommitNote(k)
           /\ ~CommitCleanup
           /\ \A c \in Clients : ~ImportNotes(c) /\ ~PersistCursor(c)
  <2>1. UNCHANGED <<rows, expired, cursor, received>>
    BY <1>5 DEF Next, SendStep, MaintStep, FetchStep, RejectNote, AcceptNote,
       StartStore, InsertNote, StoreBusy, StoreFails, SendDropped,
       StartCleanup, StartDelete, DeleteOld, WakeCleanup, CleanupFails,
       AskNotes, StartRead, ReadNotes, FetchDropped, StreamerReads, OrphanReadEnds, Tick,
       Restart, StatsStep, AskStats, StartStats, CountRows, StatsDropped,
       statsOnly, vars, dbVars, clientVars
  <2> QED BY <2>1 DEF Mail!mailboxVars
<1> QED BY <1>1, <1>2, <1>3, <1>4, <1>5

\* The node on a file-backed database, its retention task and its polling
\* clients implement the mailbox, for every number of each and through
\* timeouts, lost replies, I/O errors and restarts.
THEOREM MailboxImplemented == Spec => ImplementsMailbox
BY MailboxInit, MailboxStep, Invariant, PTL DEF Spec, ImplementsMailbox, Mail!Spec
=============================================================================
