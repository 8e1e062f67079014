--------------------------- MODULE ConnectionSetup ---------------------------
(***************************************************************************)
(* What every new connection of the pool does before anyone uses it:       *)
(* switch the file to WAL, set busy_timeout, and run the migrations that   *)
(* the file has not seen.  Nothing but SQLite's lock keeps the connections *)
(* apart: the list of pending migrations is read first, and each migration *)
(* then runs in a transaction of its own, together with the row that       *)
(* records it.                                                             *)
(*                                                                         *)
(* The file is at one of four schemas: 0 is empty, 1 has `notes` without   *)
(* `seq`, 2 has `seq`, 3 has `seq` and after_block_num.                    *)
(***************************************************************************)
EXTENDS Integers, FiniteSets

CONSTANTS
    Conns,      \* the slots of the pool
    Notes,      \* notes that will be sent
    OldNotes,   \* notes that are in the file when the node starts
    CreatedAt,  \* the timestamp of each note
    MaxFaults   \* bound: crashes and connections given up by the pool

ASSUME SetupAssumption ==
    /\ IsFiniteSet(OldNotes)
    /\ CreatedAt \in [Notes \cup OldNotes -> Nat]
    /\ MaxFaults \in Nat

VARIABLES
    schema,   \* the schema of the file
    applied,  \* __diesel_schema_migrations
    wal,      \* whether the file is in WAL mode
    rows,     \* the table `notes`
    stored,   \* history: the notes that were ever committed
    conn,     \* the connections
    faults

file == <<schema, applied, wal, rows, stored>>
vars == <<file, conn, faults>>

-----------------------------------------------------------------------------
Migrations == 1 .. 3

\* A row of any schema; `seq` is 0 and `block` FALSE where there is no column.
Row == [id : Notes \cup OldNotes, created_at : Nat, seq : Nat, block : BOOLEAN]

Conn == [phase : {"closed", "opened", "switching", "switched", "migrating",
                  "migrated", "ready"},
         todo  : SUBSET Migrations]

Closed == [phase |-> "closed", todo |-> {}]

\* The type invariant: the schema is one of the four, and only migrations that
\* exist are ever recorded or due.
TypeOK ==
    /\ schema \in {0} \cup Migrations
    /\ applied \in SUBSET Migrations
    /\ wal \in BOOLEAN
    /\ rows \in SUBSET Row
    /\ stored \in SUBSET (Notes \cup OldNotes)
    /\ conn \in [Conns -> Conn]
    /\ faults \in 0 .. MaxFaults

\* ORDER BY created_at: the numberings of the rows of R in that order.
Orders(R) ==
    {f \in [R -> 1 .. Cardinality(R)] :
        \A q, r \in R : /\ f[q] = f[r] => q = r
                        /\ q.created_at < r.created_at => f[q] < f[r]}

\* INSERT INTO notes_new SELECT ... ORDER BY created_at: the rows of R with
\* `seq` from 1 in that order, and without after_block_num.
Renumberings(R) ==
    {{[id |-> r.id, created_at |-> r.created_at, seq |-> f[r], block |-> FALSE] :
        r \in R} : f \in Orders(R)}

\* Mistake: the old table is dropped before it is copied.
EmptiedBy(m) == IF m = 2 THEN {{}} ELSE {rows}

\* The tables that migration m may leave.
MigratedBy(m) == IF m = 2 THEN Renumberings(rows) ELSE {rows}

\* The node is started on a new file, or on one left by any earlier version.
Init ==
    /\ schema \in {0} \cup Migrations
    /\ applied = 1 .. schema
    /\ wal \in BOOLEAN
    /\ LET old == {[id |-> n, created_at |-> CreatedAt[n], seq |-> 0, block |-> FALSE] :
                     n \in OldNotes}
       IN  \/ schema = 0 /\ rows = {}
           \/ schema = 1 /\ rows = old
           \/ schema > 1 /\ rows \in Renumberings(old)
    /\ stored = {r.id : r \in rows}
    /\ conn = [c \in Conns |-> Closed]
    /\ faults = 0

-----------------------------------------------------------------------------
Phase(c, p) == conn[c].phase = p

\* No connection is inside a write transaction or a change of journal mode.
LockFree == \A c \in Conns : conn[c].phase \notin {"switching", "migrated"}

Move(c, p) == conn' = [conn EXCEPT ![c].phase = p]

\* Mistake: the latest version comes first.
LastTodo(c) == CHOOSE m \in conn[c].todo : \A k \in conn[c].todo : k <= m

\* The pending migrations run in the order of their versions.
FirstTodo(c) == CHOOSE m \in conn[c].todo : \A k \in conn[c].todo : m <= k

\* The connection is not handed out: whoever asked for it gets an error.
GiveUp(c) == conn' = [conn EXCEPT ![c] = Closed]

\* Someone asks the pool for a connection and none is idle.
Open(c) ==
    /\ Phase(c, "closed")
    /\ Move(c, "opened")
    /\ UNCHANGED <<file, faults>>

\* PRAGMA journal_mode=WAL: nothing to do on a file in WAL mode, else an
\* exclusive lock is needed.
SwitchToWal(c) ==
    /\ Phase(c, "opened")
    /\ \/ wal /\ Move(c, "switched")
       \/ ~wal /\ LockFree /\ Move(c, "switching")
    /\ UNCHANGED <<file, faults>>

WalIsSet(c) ==
    /\ Phase(c, "switching")
    /\ wal' = TRUE
    /\ Move(c, "switched")
    /\ UNCHANGED <<schema, applied, rows, stored, faults>>

\* busy_timeout is set only after the journal mode: a locked file is an error
\* at once.
WalBusy(c) ==
    /\ Phase(c, "opened")
    /\ ~wal
    /\ ~LockFree
    /\ GiveUp(c)
    /\ UNCHANGED <<file, faults>>

\* The pending migrations are the ones not recorded now.
ReadPending(c) ==
    /\ Phase(c, "switched")
    /\ conn' = [conn EXCEPT ![c] =
                  [phase |-> "migrating", todo |-> Migrations \ applied]]
    /\ UNCHANGED <<file, faults>>

\* Mistake: a table of versions without its primary key.
RunsOnSchema(m) ==
    \/ m = 1 /\ schema = 0
    \/ m = 2 /\ schema # 0
    \/ m = 3 /\ schema = 2

\* CREATE TABLE notes wants no such table, the copy wants one, ADD COLUMN
\* wants the copy without the column; and the version must not have been
\* recorded.
Applicable(m) ==
    /\ m = 1 => schema = 0
    /\ m = 2 => schema # 0
    /\ m = 3 => schema = 2
    /\ m \notin applied

RunMigration(c) ==
    /\ Phase(c, "migrating")
    /\ conn[c].todo # {}
    /\ LockFree
    /\ Applicable(FirstTodo(c))
    /\ Move(c, "migrated")
    /\ UNCHANGED <<file, faults>>

\* Mistake: a failed migration is logged and nothing else.
RefusalIgnored(c) ==
    /\ Phase(c, "migrating")
    /\ conn[c].todo # {}
    /\ LockFree
    /\ ~Applicable(FirstTodo(c))
    /\ Move(c, "ready")
    /\ UNCHANGED <<file, faults>>

\* Mistake: a failed migration is tried again from the list read before.
RefusalRetried(c) ==
    /\ Phase(c, "migrating")
    /\ conn[c].todo # {}
    /\ LockFree
    /\ ~Applicable(FirstTodo(c))
    /\ UNCHANGED vars

\* Another connection has run the migration since: it fails, and with its
\* transaction rolled back the connection is given up.
MigrationRefused(c) ==
    /\ Phase(c, "migrating")
    /\ conn[c].todo # {}
    /\ LockFree
    /\ ~Applicable(FirstTodo(c))
    /\ GiveUp(c)
    /\ UNCHANGED <<file, faults>>

\* busy_timeout ran out; the expect() on the pending migrations panics in the
\* same way.
MigrationBusy(c) ==
    /\ conn[c].phase \in {"switched", "migrating"}
    /\ ~LockFree
    /\ GiveUp(c)
    /\ UNCHANGED <<file, faults>>

\* Mistake: the version recorded is that of the schema that comes next.
CommitAsNext(c) ==
    LET m == FirstTodo(c)
    IN  /\ Phase(c, "migrated")
        /\ schema' = m
        /\ applied' = applied \cup {m + 1}
        /\ rows' \in MigratedBy(m)
        /\ conn' = [conn EXCEPT ![c] = [phase |-> "migrating", todo |-> @.todo \ {m}]]
        /\ UNCHANGED <<wal, stored, faults>>

\* COMMIT of one migration and of the row that records it.
CommitMigration(c) ==
    LET m == FirstTodo(c)
    IN  /\ Phase(c, "migrated")
        /\ schema' = m
        /\ applied' = applied \cup {m}
        /\ rows' \in MigratedBy(m)
        /\ conn' = [conn EXCEPT ![c] = [phase |-> "migrating", todo |-> @.todo \ {m}]]
        /\ UNCHANGED <<wal, stored, faults>>

\* The pool hands the connection out.
SetupDone(c) ==
    /\ Phase(c, "migrating")
    /\ conn[c].todo = {}
    /\ Move(c, "ready")
    /\ UNCHANGED <<file, faults>>

-----------------------------------------------------------------------------
\* INSERT through a connection that was handed out (NoteTransport has the
\* details), with or without a block number.
StoreNote(c, n) ==
    /\ Phase(c, "ready")
    /\ LockFree
    /\ schema = 3
    /\ n \notin stored
    /\ \E block \in BOOLEAN :
          rows' = rows \cup {[id |-> n, created_at |-> CreatedAt[n], block |-> block,
                              seq |-> Cardinality(rows) + 1]}
    /\ stored' = stored \cup {n}
    /\ UNCHANGED <<schema, applied, wal, conn, faults>>

Fault == faults < MaxFaults /\ faults' = faults + 1

\* A connection that fails to open, or that the pool does not take back.
Discard(c) ==
    /\ ~Phase(c, "closed")
    /\ Fault
    /\ GiveUp(c)
    /\ UNCHANGED file

\* The process dies: open transactions are rolled back.
Crash ==
    /\ Fault
    /\ conn' = [c \in Conns |-> Closed]
    /\ UNCHANGED file

SetupStep(c) ==
    \/ Open(c)
    \/ SwitchToWal(c)
    \/ WalIsSet(c)
    \/ WalBusy(c)
    \/ ReadPending(c)
    \/ RunMigration(c)
    \/ MigrationRefused(c)
    \/ MigrationBusy(c)
    \/ CommitMigration(c)
    \/ SetupDone(c)

Next ==
    \/ \E c \in Conns : SetupStep(c) \/ Discard(c) \/ \E n \in Notes : StoreNote(c, n)
    \/ Crash

Spec == Init /\ [][Next]_vars

\* A connection that is being set up goes on, and whoever got an error asks
\* again.
FairSpec == Spec /\ \A c \in Conns : WF_vars(SetupStep(c))

-----------------------------------------------------------------------------
\* A connection is handed out only on a file with the schema the queries are
\* written for, whichever connection migrated it and however often it failed.
ReadyMeansMigrated ==
    \A c \in Conns : Phase(c, "ready") => schema = 3 /\ applied = Migrations

\* Through the swap of tables, races and crashes, every note ever committed is
\* in the table, once.
NotesKept ==
    /\ {r.id : r \in rows} = stored
    /\ \A q, r \in rows : q.id = r.id => q = r

\* A migration fails on its own account only if another connection has run it
\* since: the error goes away when the connection is asked for again, and no file
\* is one that nobody can migrate.
RefusedOnlyIfRun ==
    \A c \in Conns :
        Phase(c, "migrating") /\ conn[c].todo # {} =>
            Applicable(FirstTodo(c)) \/ FirstTodo(c) \in applied

\* Once a note has its `seq` it keeps it, and its block number too: the cursors
\* that clients persist stay good when a late connection finds a migration
\* still to do.
PositionsKept ==
    [][\A r \in rows : r.seq # 0 => r \in rows']_vars

\* Nobody is locked out by the others: with requests that keep coming every
\* slot of the pool gets its connection.
EveryoneConnects ==
    \A c \in Conns : Phase(c, "closed") ~> Phase(c, "ready")
=============================================================================
