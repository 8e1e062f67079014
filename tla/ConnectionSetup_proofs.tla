----------------------- MODULE ConnectionSetup_proofs -----------------------
(* The file stays whole however many connections set themselves up on it.  *)
EXTENDS ConnectionSetup, FiniteSetLemmas

Once(R) == \A q, r \in R : q.id = r.id => q = r

Ids(R) == {r.id : r \in R}

\* The record of migrations says which schema the file has, and no row has a
\* position before the schema that gives it one.
FileInv ==
    /\ IsFiniteSet(rows)
    /\ applied = 1 .. schema
    /\ schema <= 1 => \A r \in rows : r.seq = 0

\* At most one connection holds SQLite's lock.
OneHolder ==
    \A c, d \in Conns : /\ conn[c].phase \in {"switching", "migrated"}
                        /\ conn[d].phase \in {"switching", "migrated"}
                        => c = d

\* The list that a connection read earlier may be too long, never too short;
\* and the migration it is running is the one that the file lacks.
ListInv ==
    \A c \in Conns :
       /\ conn[c].phase \in {"migrating", "migrated"} => Migrations \ applied \subseteq conn[c].todo
       /\ Phase(c, "migrated") => conn[c].todo # {} /\ Applicable(FirstTodo(c))

IInv == TypeOK /\ FileInv /\ OneHolder /\ ListInv /\ ReadyMeansMigrated /\ NotesKept

-----------------------------------------------------------------------------
\* A list that is not empty has a first migration.
LEMMA FirstIsDue ==
    ASSUME TypeOK, NEW c \in Conns, conn[c].todo # {}
    PROVE  /\ FirstTodo(c) \in conn[c].todo /\ FirstTodo(c) \in Migrations
           /\ \A k \in conn[c].todo : FirstTodo(c) <= k
PROOF
<1>1. conn[c].todo \in SUBSET {1, 2, 3}
  BY DEF TypeOK, Conn, Migrations
<1>2. \E m \in conn[c].todo : \A k \in conn[c].todo : m <= k
  <2>1. CASE 1 \in conn[c].todo
    BY <1>1, <2>1
  <2>2. CASE 1 \notin conn[c].todo /\ 2 \in conn[c].todo
    BY <1>1, <2>2
  <2>3. CASE 1 \notin conn[c].todo /\ 2 \notin conn[c].todo
    BY <1>1, <2>3
  <2> QED BY <2>1, <2>2, <2>3
<1> QED BY <1>1, <1>2 DEF FirstTodo, Migrations

\* A migration that can run is the next one of the file's schema.
LEMMA NextMigration ==
    ASSUME TypeOK, FileInv, NEW m \in Migrations, Applicable(m)
    PROVE  schema = m - 1
BY DEF TypeOK, FileInv, Migrations, Applicable

\* The copy has the notes of the table it was made from, each of them once.
LEMMA CopyKeepsNotes ==
    ASSUME NEW R \in SUBSET Row, IsFiniteSet(R), Once(R), NEW T \in Renumberings(R)
    PROVE  T \in SUBSET Row /\ IsFiniteSet(T) /\ Once(T) /\ Ids(T) = Ids(R)
PROOF
<1>1. PICK f \in [R -> 1 .. Cardinality(R)] :
          T = {[id |-> r.id, created_at |-> r.created_at, seq |-> f[r], block |-> FALSE] :
                 r \in R}
  BY DEF Renumberings, Orders
<1>2. Cardinality(R) \in Nat
  BY FS_CardinalityType
<1> DEFINE copy == [r \in R |-> [id |-> r.id, created_at |-> r.created_at, seq |-> f[r],
                                 block |-> FALSE]]
<1>3. T = {copy[r] : r \in R}
  BY <1>1
<1>4. \A r \in R : copy[r] \in Row /\ copy[r].id = r.id
  BY <1>1, <1>2 DEF Row
<1>5. copy \in Surjection(R, T)
  BY <1>3 DEF Surjection
<1>6. IsFiniteSet(T)
  BY <1>5, FS_Surjection
<1> HIDE DEF copy
<1>7. T \in SUBSET Row
  BY <1>3, <1>4
<1>8. Once(T)
  BY <1>3, <1>4 DEF Once
<1>9. Ids(T) = Ids(R)
  BY <1>3, <1>4 DEF Ids
<1> QED BY <1>6, <1>7, <1>8, <1>9

\* The invariant holds of a file left by any version.
LEMMA InitInv == Init => IInv
PROOF
<1> SUFFICES ASSUME Init PROVE IInv
  OBVIOUS
<1> USE SetupAssumption
<1> DEFINE old == {[id |-> n, created_at |-> CreatedAt[n], seq |-> 0, block |-> FALSE] :
                     n \in OldNotes}
           rowOf == [n \in OldNotes |-> [id |-> n, created_at |-> CreatedAt[n], seq |-> 0,
                                         block |-> FALSE]]
<1>1. old = {rowOf[n] : n \in OldNotes}
  OBVIOUS
<1>2. \A n \in OldNotes : rowOf[n] \in Row /\ rowOf[n].id = n /\ rowOf[n].seq = 0
  BY DEF SetupAssumption, Row
<1>3. IsFiniteSet(old)
  <2>1. rowOf \in Surjection(OldNotes, old)
    BY DEF Surjection
  <2> QED BY <2>1, FS_Surjection DEF SetupAssumption
<1> HIDE DEF rowOf, old
<1>4. old \in SUBSET Row /\ Once(old) /\ \A r \in old : r.seq = 0
  BY <1>1, <1>2 DEF Once
<1>5. \/ schema = 0 /\ rows = {}
      \/ schema = 1 /\ rows = old
      \/ schema > 1 /\ rows \in Renumberings(old)
  BY DEF Init, old
<1>6. rows \in SUBSET Row /\ IsFiniteSet(rows) /\ Once(rows)
  BY <1>3, <1>4, <1>5, CopyKeepsNotes, FS_EmptySet DEF Once
<1>7. schema <= 1 => \A r \in rows : r.seq = 0
  BY <1>4, <1>5 DEF Init, Migrations
<1>8. stored = Ids(rows) /\ applied = 1 .. schema /\ schema \in 0 .. 3
  BY DEF Init, Ids, Migrations
<1>9. stored \in SUBSET (Notes \cup OldNotes)
  BY <1>6, <1>8 DEF Ids, Row
<1>10. \A c \in Conns : conn[c] = Closed
  BY DEF Init
<1>11. TypeOK
  BY <1>6, <1>8, <1>9 DEF TypeOK, Init, Migrations, Conn, Closed
<1>12. OneHolder /\ ListInv /\ ReadyMeansMigrated
  BY <1>10 DEF OneHolder, ListInv, ReadyMeansMigrated, Phase, Closed
<1> QED BY <1>6, <1>7, <1>8, <1>11, <1>12 DEF IInv, FileInv, NotesKept, Once, Ids

\* A step that leaves the file alone and moves one connection on, unless it
\* takes the lock or hands the connection out.
LEMMA ConnStep ==
    ASSUME IInv, NEW c \in Conns, NEW v \in Conn, conn' = [conn EXCEPT ![c] = v],
           UNCHANGED <<schema, applied, rows, stored>>,
           wal' \in BOOLEAN, faults' \in 0 .. MaxFaults,
           v.phase \in {"switching", "migrated"} => LockFree,
           v.phase \in {"migrating", "migrated"} => Migrations \ applied \subseteq v.todo,
           v.phase = "migrated" => v = [conn[c] EXCEPT !.phase = "migrated"]
                                   /\ v.todo # {} /\ Applicable(FirstTodo(c)),
           v.phase = "ready" => schema = 3 /\ applied = Migrations
    PROVE  IInv'
PROOF
<1> USE DEF IInv
<1>1. conn' \in [Conns -> Conn] /\ conn'[c] = v /\ \A d \in Conns : d # c => conn'[d] = conn[d]
  BY DEF TypeOK
<1>2. TypeOK'
  BY <1>1 DEF TypeOK
<1>3. OneHolder'
  BY <1>1 DEF OneHolder, LockFree
<1>4. \A d \in Conns : conn'[d].todo = conn[d].todo => FirstTodo(d)' = FirstTodo(d)
  BY DEF FirstTodo
<1>5. \A m \in Migrations : Applicable(m)' <=> Applicable(m)
  BY DEF Applicable
<1>6. \A d \in Conns : conn[d].todo # {} => FirstTodo(d) \in Migrations
  BY FirstIsDue
<1>7. ListInv'
  <2> SUFFICES ASSUME NEW d \in Conns
               PROVE  /\ conn'[d].phase \in {"migrating", "migrated"}
                           => Migrations \ applied' \subseteq conn'[d].todo
                      /\ conn'[d].phase = "migrated"
                           => conn'[d].todo # {} /\ Applicable(FirstTodo(d))'
    BY DEF ListInv, Phase
  <2>1. CASE d = c
    BY <1>1, <1>4, <1>5, <1>6, <2>1 DEF ListInv, Conn
  <2>2. CASE d # c
    BY <1>1, <1>4, <1>5, <1>6, <2>2 DEF ListInv, Phase
  <2> QED BY <2>1, <2>2
<1>8. ReadyMeansMigrated'
  BY <1>1 DEF ReadyMeansMigrated, Phase
<1>9. FileInv' /\ NotesKept'
  BY DEF FileInv, NotesKept
<1> QED BY <1>2, <1>3, <1>7, <1>8, <1>9

\* The steps of the set-up other than a migration.
LEMMA SetupOther ==
    ASSUME IInv, NEW c \in Conns,
           \/ Open(c) \/ SwitchToWal(c) \/ WalIsSet(c) \/ WalBusy(c) \/ ReadPending(c)
           \/ RunMigration(c) \/ MigrationRefused(c) \/ MigrationBusy(c) \/ SetupDone(c)
           \/ Discard(c)
    PROVE  IInv' /\ UNCHANGED rows
PROOF
<1> USE SetupAssumption
<1>1. conn[c] \in Conn /\ conn \in [Conns -> Conn]
  BY DEF IInv, TypeOK
<1>2. wal \in BOOLEAN /\ faults \in 0 .. MaxFaults /\ applied \in SUBSET Migrations
  BY DEF IInv, TypeOK
<1>3. Closed \in Conn /\ Closed.phase = "closed"
  BY DEF Closed, Conn
<1>4. \A p \in {"opened", "switching", "switched"} :
         /\ [conn[c] EXCEPT !.phase = p] \in Conn
         /\ [conn[c] EXCEPT !.phase = p].phase = p
  BY <1>1 DEF Conn
<1>5. CASE Open(c)
  BY <1>2, <1>4, <1>5, ConnStep DEF Open, Move, file
<1>6. CASE SwitchToWal(c)
  <2>1. CASE Move(c, "switched")
    BY <1>2, <1>4, <1>6, <2>1, ConnStep DEF SwitchToWal, Move, file
  <2>2. CASE LockFree /\ Move(c, "switching")
    BY <1>2, <1>4, <1>6, <2>2, ConnStep DEF SwitchToWal, Move, file
  <2> QED BY <1>6, <2>1, <2>2 DEF SwitchToWal
<1>7. CASE WalIsSet(c)
  BY <1>2, <1>4, <1>7, ConnStep DEF WalIsSet, Move
<1>8. CASE WalBusy(c) \/ MigrationRefused(c) \/ MigrationBusy(c)
  BY <1>2, <1>3, <1>8, ConnStep DEF WalBusy, MigrationRefused, MigrationBusy, GiveUp, file
<1>9. CASE ReadPending(c)
  <2> DEFINE v == [phase |-> "migrating", todo |-> Migrations \ applied]
  <2>1. v \in Conn /\ v.phase = "migrating" /\ v.todo = Migrations \ applied
    BY <1>2 DEF Conn
  <2>2. conn' = [conn EXCEPT ![c] = v] /\ UNCHANGED <<file, faults>>
    BY <1>9 DEF ReadPending
  <2> HIDE DEF v
  <2> QED BY <1>2, <2>1, <2>2, ConnStep DEF file
<1>10. CASE RunMigration(c)
  <2> DEFINE v == [conn[c] EXCEPT !.phase = "migrated"]
  <2>1. v \in Conn /\ v.phase = "migrated" /\ v.todo = conn[c].todo
    BY <1>1 DEF Conn
  <2>2. /\ conn' = [conn EXCEPT ![c] = v] /\ UNCHANGED <<file, faults>>
        /\ conn[c].todo # {} /\ LockFree /\ Applicable(FirstTodo(c))
        /\ Phase(c, "migrating")
    BY <1>10 DEF RunMigration, Move
  <2>3. Migrations \ applied \subseteq v.todo
    BY <2>1, <2>2 DEF IInv, ListInv, Phase
  <2>4. v = [conn[c] EXCEPT !.phase = "migrated"]
    OBVIOUS
  <2> HIDE DEF v
  <2> QED BY <1>2, <2>1, <2>2, <2>3, <2>4, ConnStep DEF file
<1>11. CASE SetupDone(c)
  <2> DEFINE v == [conn[c] EXCEPT !.phase = "ready"]
  <2>1. v \in Conn /\ v.phase = "ready"
    BY <1>1 DEF Conn
  <2>2. /\ conn' = [conn EXCEPT ![c] = v] /\ UNCHANGED <<file, faults>>
        /\ conn[c].todo = {} /\ Phase(c, "migrating")
    BY <1>11 DEF SetupDone, Move
  <2>3. Migrations \subseteq applied
    BY <2>2 DEF IInv, ListInv, Phase
  <2>4. schema = 3 /\ applied = Migrations
    BY <2>3 DEF IInv, FileInv, TypeOK, Migrations
  <2> HIDE DEF v
  <2> QED BY <1>2, <2>1, <2>2, <2>4, ConnStep DEF file
<1>12. CASE Discard(c)
  <2>1. faults' \in 0 .. MaxFaults
    BY <1>2, <1>12 DEF Discard, Fault
  <2> QED BY <1>2, <1>3, <1>12, <2>1, ConnStep DEF Discard, GiveUp, file
<1> QED BY <1>5, <1>6, <1>7, <1>8, <1>9, <1>10, <1>11, <1>12

\* A migration brings the file to the next schema.  It keeps every note, and
\* every position that there is.
LEMMA CommitStep ==
    ASSUME IInv, NEW c \in Conns, CommitMigration(c)
    PROVE  IInv' /\ \A r \in rows : r.seq # 0 => r \in rows'
PROOF
<1> DEFINE m == FirstTodo(c)
           v == [phase |-> "migrating", todo |-> conn[c].todo \ {m}]
<1>1. /\ m \in conn[c].todo /\ m \in Migrations /\ Applicable(m)
      /\ Migrations \ applied \subseteq conn[c].todo
  BY FirstIsDue DEF CommitMigration, IInv, ListInv, Phase
<1>2. schema = m - 1
  BY <1>1, NextMigration DEF IInv
<1>3. /\ schema' = m /\ applied' = applied \cup {m} /\ rows' \in MigratedBy(m)
      /\ conn' = [conn EXCEPT ![c] = v] /\ UNCHANGED <<wal, stored, faults>>
      /\ Phase(c, "migrated")
  BY DEF CommitMigration
<1>4. v \in Conn /\ v.phase = "migrating" /\ v.todo = conn[c].todo \ {m}
  BY DEF IInv, TypeOK, Conn
<1> HIDE DEF m, v
<1>5. conn' \in [Conns -> Conn] /\ conn'[c] = v /\ \A d \in Conns : d # c => conn'[d] = conn[d]
  BY <1>3, <1>4 DEF IInv, TypeOK
<1>6. rows \in SUBSET Row /\ IsFiniteSet(rows) /\ Once(rows) /\ Ids(rows) = stored
  BY DEF IInv, TypeOK, FileInv, NotesKept, Once, Ids
<1>7. rows' \in SUBSET Row /\ IsFiniteSet(rows') /\ Once(rows') /\ Ids(rows') = stored
  BY <1>3, <1>6, CopyKeepsNotes DEF MigratedBy
<1>8. m # 2 => rows' = rows
  BY <1>3 DEF MigratedBy
<1>9. m = 2 => \A r \in rows : r.seq = 0
  BY <1>2 DEF IInv, FileInv
<1>10. TypeOK'
  BY <1>1, <1>3, <1>5, <1>7 DEF IInv, TypeOK, Migrations
<1>11. FileInv'
  <2>1. applied' = 1 .. m
    BY <1>1, <1>2, <1>3 DEF IInv, FileInv, Migrations
  <2>2. m <= 1 => rows' = rows /\ schema <= 1
    BY <1>1, <1>2, <1>8 DEF Migrations
  <2> QED BY <1>3, <1>7, <2>1, <2>2 DEF IInv, FileInv
<1>12. \A d \in Conns : d # c => conn[d].phase \notin {"switching", "migrated"}
  BY <1>3 DEF IInv, OneHolder, Phase
<1>13. OneHolder'
  BY <1>4, <1>5, <1>12 DEF OneHolder
<1>14. ListInv'
  <2> SUFFICES ASSUME NEW d \in Conns, conn'[d].phase \in {"migrating", "migrated"}
               PROVE  /\ Migrations \ applied' \subseteq conn'[d].todo
                      /\ conn'[d].phase # "migrated"
    BY DEF ListInv, Phase
  <2>1. CASE d = c
    BY <1>1, <1>3, <1>4, <1>5, <2>1
  <2>2. CASE d # c
    BY <1>3, <1>5, <1>12, <2>2 DEF IInv, ListInv
  <2> QED BY <2>1, <2>2
<1>15. ReadyMeansMigrated'
  <2> SUFFICES ASSUME NEW d \in Conns, conn'[d].phase = "ready" PROVE FALSE
    BY DEF ReadyMeansMigrated, Phase
  <2>1. d # c /\ conn[d].phase = "ready"
    BY <1>4, <1>5
  <2>2. schema = 3
    BY <2>1 DEF IInv, ReadyMeansMigrated, Phase
  <2> QED BY <1>1, <1>2, <2>2 DEF Migrations
<1>16. NotesKept'
  BY <1>3, <1>7 DEF NotesKept, Once, Ids
<1> QED BY <1>8, <1>9, <1>10, <1>11, <1>13, <1>14, <1>15, <1>16 DEF IInv

\* A note is stored in a table that has all the migrations.
LEMMA StoreStep ==
    ASSUME IInv, NEW c \in Conns, NEW n \in Notes, StoreNote(c, n)
    PROVE  IInv' /\ rows \subseteq rows'
PROOF
<1> USE SetupAssumption
<1>1. PICK block \in BOOLEAN :
          rows' = rows \cup {[id |-> n, created_at |-> CreatedAt[n], block |-> block,
                              seq |-> Cardinality(rows) + 1]}
  BY DEF StoreNote
<1> DEFINE new == [id |-> n, created_at |-> CreatedAt[n], block |-> block,
                   seq |-> Cardinality(rows) + 1]
<1>2. Cardinality(rows) \in Nat
  BY FS_CardinalityType DEF IInv, FileInv
<1>3. new \in Row /\ new.id = n
  BY <1>2 DEF Row
<1>4. rows' = rows \cup {new}
  BY <1>1
<1> HIDE DEF new
<1>5. IsFiniteSet(rows')
  BY <1>4, FS_AddElement DEF IInv, FileInv
<1>6. /\ stored' = stored \cup {n} /\ n \notin stored /\ schema = 3
      /\ UNCHANGED <<schema, applied, wal, conn, faults>>
  BY DEF StoreNote
<1>7. TypeOK'
  BY <1>3, <1>4, <1>6 DEF IInv, TypeOK
<1>8. FileInv' /\ OneHolder' /\ ReadyMeansMigrated'
  BY <1>5, <1>6 DEF IInv, FileInv, OneHolder, ReadyMeansMigrated, Phase
<1>9. ListInv'
  BY <1>6 DEF IInv, ListInv, Phase, FirstTodo, Applicable
<1>10. NotesKept'
  BY <1>3, <1>4, <1>6 DEF IInv, NotesKept
<1> QED BY <1>4, <1>7, <1>8, <1>9, <1>10 DEF IInv

\* A crash closes every connection.
LEMMA CrashStep ==
    ASSUME IInv, Crash
    PROVE  IInv' /\ UNCHANGED rows
PROOF
<1>1. conn' = [c \in Conns |-> Closed] /\ UNCHANGED file
  BY DEF Crash
<1>2. TypeOK'
  BY <1>1, SetupAssumption DEF Crash, Fault, IInv, TypeOK, file, Conn, Closed
<1>3. OneHolder' /\ ListInv' /\ ReadyMeansMigrated'
  BY <1>1 DEF OneHolder, ListInv, ReadyMeansMigrated, Phase, Closed
<1>4. FileInv' /\ NotesKept' /\ UNCHANGED rows
  BY <1>1 DEF IInv, FileInv, NotesKept, file
<1> QED BY <1>2, <1>3, <1>4 DEF IInv

\* Every step keeps the invariant, and the rows that have their position.
LEMMA NextInv ==
    ASSUME IInv, [Next]_vars
    PROVE  IInv' /\ \A r \in rows : r.seq # 0 => r \in rows'
PROOF
<1>1. CASE UNCHANGED vars
  BY <1>1 DEF vars, file, IInv, TypeOK, FileInv, OneHolder, ListInv, ReadyMeansMigrated,
              NotesKept, Phase, FirstTodo, Applicable
<1>2. CASE Crash
  BY <1>2, CrashStep
<1>3. ASSUME NEW c \in Conns, SetupStep(c) \/ Discard(c)
      PROVE  IInv' /\ \A r \in rows : r.seq # 0 => r \in rows'
  BY <1>3, SetupOther, CommitStep DEF SetupStep
<1>4. ASSUME NEW c \in Conns, NEW n \in Notes, StoreNote(c, n)
      PROVE  IInv' /\ \A r \in rows : r.seq # 0 => r \in rows'
  BY <1>4, StoreStep
<1> QED BY <1>1, <1>2, <1>3, <1>4 DEF Next

-----------------------------------------------------------------------------
\* The invariant holds of any number of connections on any file.
THEOREM FileStaysWhole == Spec => []IInv
BY InitInv, NextInv, PTL DEF Spec

\* Connections that set themselves up at once leave the file at a schema that
\* its record of migrations describes.
THEOREM TypeCorrect == Spec => []TypeOK
<1>1. IInv => TypeOK
  BY DEF IInv
<1> QED BY <1>1, FileStaysWhole, PTL

\* No connection is handed out on a file that still lacks a migration.
THEOREM ReadyIsMigrated == Spec => []ReadyMeansMigrated
<1>1. IInv => ReadyMeansMigrated
  BY DEF IInv
<1> QED BY <1>1, FileStaysWhole, PTL

\* No migration, race or crash loses a note or stores it twice.
THEOREM NotesAreKept == Spec => []NotesKept
<1>1. IInv => NotesKept
  BY DEF IInv
<1> QED BY <1>1, FileStaysWhole, PTL

\* No late connection numbers the notes again.
THEOREM PositionsAreKept == Spec => PositionsKept
<1>1. IInv /\ [Next]_vars => [\A r \in rows : r.seq # 0 => r \in rows']_vars
  BY NextInv
<1> QED BY <1>1, FileStaysWhole, PTL DEF Spec, PositionsKept

\* A set-up that is refused was overtaken: pending migrations run in the order of
\* their versions, each in a transaction with its own record.
THEOREM RefusalsPass == Spec => []RefusedOnlyIfRun
<1>1. IInv => RefusedOnlyIfRun
  <2> SUFFICES ASSUME IInv, NEW c \in Conns, Phase(c, "migrating"), conn[c].todo # {},
                      FirstTodo(c) \notin applied
               PROVE  Applicable(FirstTodo(c))
    BY DEF RefusedOnlyIfRun
  <2> DEFINE m == FirstTodo(c)
  <2>1. m \in Migrations /\ \A k \in conn[c].todo : m <= k
    BY FirstIsDue DEF IInv
  <2>2. applied = 1 .. schema /\ schema \in 0 .. 3 /\ Migrations \ applied \subseteq conn[c].todo
    BY DEF IInv, FileInv, ListInv, TypeOK, Migrations, Phase
  <2> HIDE DEF m
  <2>3. m > schema /\ m <= 3
    BY <2>1, <2>2 DEF Migrations, m
  <2>4. schema + 1 \in conn[c].todo
    <3>1. schema + 1 \in 1 .. 3 /\ schema + 1 \notin 1 .. schema
      BY <2>1, <2>2, <2>3 DEF Migrations
    <3> QED BY <2>2, <3>1 DEF Migrations
  <2>5. m = schema + 1
    BY <2>1, <2>2, <2>3, <2>4 DEF Migrations
  <2> QED BY <2>2, <2>5 DEF Applicable, m
<1> QED BY <1>1, FileStaysWhole, PTL

-----------------------------------------------------------------------------
(* The copy can always be made.                                            *)

\* The newest of the rows comes last, after the others in their order.
LEMMA OrderGrows ==
    ASSUME NEW R \in SUBSET Row, IsFiniteSet(R), NEW q \in R,
           \A r \in R : r.created_at <= q.created_at,
           NEW f \in Orders(R \ {q})
    PROVE  Orders(R) # {}
PROOF
<1> DEFINE k == Cardinality(R)
           g == [r \in R |-> IF r = q THEN k ELSE f[r]]
<1>1. k \in Nat /\ Cardinality(R \ {q}) = k - 1
  BY FS_CardinalityType, FS_RemoveElement
<1>2. k # 0
  BY FS_EmptySet
<1>3. /\ f \in [R \ {q} -> 1 .. k - 1]
      /\ \A x, y \in R \ {q} : /\ f[x] = f[y] => x = y
                               /\ x.created_at < y.created_at => f[x] < f[y]
  BY <1>1 DEF Orders
<1> HIDE DEF k
<1>4. \A r \in R \ {q} : g[r] = f[r] /\ f[r] \in 1 .. k - 1
  BY <1>3
<1>5. g[q] = k
  OBVIOUS
<1>6. g \in [R -> 1 .. k]
  BY <1>1, <1>2, <1>4
<1> HIDE DEF g
<1>7. ASSUME NEW x \in R, NEW y \in R
      PROVE  /\ g[x] = g[y] => x = y
             /\ x.created_at < y.created_at => g[x] < g[y]
  <2>1. CASE x # q /\ y # q
    BY <1>3, <1>4, <2>1
  <2>2. CASE x = q /\ y # q
    <3>1. ~(x.created_at < y.created_at)
      BY <2>2 DEF Row
    <3> QED BY <1>1, <1>4, <1>5, <2>2, <3>1
  <2>3. CASE x # q /\ y = q
    BY <1>1, <1>4, <1>5, <2>3
  <2>4. CASE x = q /\ y = q
    BY <2>4 DEF Row
  <2> QED BY <2>1, <2>2, <2>3, <2>4
<1>8. g \in Orders(R)
  BY <1>6, <1>7 DEF Orders, k
<1> QED BY <1>8

\* There is such an order: a smallest set of rows without one would have a newest
\* row, and the others an order.
LEMMA OrderExists ==
    ASSUME NEW R \in SUBSET Row, IsFiniteSet(R)
    PROVE  Orders(R) # {}
PROOF
<1> DEFINE Bad == {S \in SUBSET R : Orders(S) = {}}
<1> SUFFICES ASSUME Bad # {} PROVE FALSE
  OBVIOUS
<1>1. \A S \in Bad : S \subseteq R
  OBVIOUS
<1>2. PICK S \in Bad : \A T \in Bad : T \subseteq S => T = S
  <2> HIDE DEF Bad
  <2> QED BY <1>1, MinimalSet, SMT
<1>3. IsFiniteSet(S) /\ S \in SUBSET Row
  BY <1>2, FS_Subset
<1>4. S # {}
  <2>1. SUFFICES Orders({}) # {}
    BY <1>2
  <2>2. Cardinality({}) = 0
    BY FS_EmptySet
  <2>3. [r \in {} |-> 0] \in Orders({})
    BY <2>2 DEF Orders
  <2> QED BY <2>3
<1>5. PICK q \in S : \A r \in S : r.created_at <= q.created_at
  <2> DEFINE at == [r \in S |-> r.created_at]
  <2>1. at \in [S -> Nat]
    BY <1>3 DEF Row
  <2>2. PICK q \in S : \A r \in S : at[r] <= at[q]
    BY <1>3, <1>4, <2>1, LargestValue
  <2> QED BY <2>2
<1>6. Orders(S \ {q}) # {}
  <2>1. S \ {q} # S /\ S \ {q} \subseteq S /\ S \ {q} \in SUBSET R
    BY <1>2
  <2> QED BY <1>2, <2>1
<1>7. Orders(S) # {}
  BY <1>3, <1>5, <1>6, OrderGrows
<1> QED BY <1>2, <1>7

\* What the running migration leaves is there to be committed.
CommitsPossible ==
    \A c \in Conns : Phase(c, "migrated") => MigratedBy(FirstTodo(c)) # {}

\* No table is one that the copy with `seq` does not work for: INSERT INTO
\* notes_new SELECT ... ORDER BY created_at numbers any rows that there are.
THEOREM MigrationsCanCommit == Spec => []CommitsPossible
<1>1. IInv => CommitsPossible
  <2> SUFFICES ASSUME IInv PROVE Renumberings(rows) # {}
    BY DEF CommitsPossible, MigratedBy
  <2>1. rows \in SUBSET Row /\ IsFiniteSet(rows)
    BY DEF IInv, TypeOK, FileInv
  <2>2. Orders(rows) # {}
    BY <2>1, OrderExists
  <2> DEFINE Copy(f) == {[id |-> r.id, created_at |-> r.created_at, seq |-> f[r],
                          block |-> FALSE] : r \in rows}
  <2>3. Renumberings(rows) = {Copy(f) : f \in Orders(rows)}
    BY DEF Renumberings
  <2> HIDE DEF Copy
  <2> QED BY <2>2, <2>3
<1> QED BY <1>1, FileStaysWhole, PTL
=============================================================================
