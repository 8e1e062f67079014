----------------------------- MODULE NoteTable -----------------------------
(***************************************************************************)
(* The `notes` table of the node's SQLite database and the operations on   *)
(* it: INSERT with an AUTOINCREMENT primary key, the paginated SELECT      *)
(* behind FetchNotes and the streamer, and the retention DELETE.  There    *)
(* are no variables here: the modules that own a database EXTEND this one. *)
(*                                                                         *)
(* A row keeps the columns the operations read: `seq`, `id` and            *)
(* `created_at`.  The tag is a function of the note (it comes out of the   *)
(* note's header, as the id does), so it is looked up in TagOf.  Header,   *)
(* details and after_block_num are carried along and never looked at.      *)
(***************************************************************************)
EXTENDS Integers, FiniteSets

CONSTANTS
    Notes,           \* note ids
    Tags,            \* note tags
    TagOf,           \* the tag in the header of each note
    BatchSize,       \* FETCH_NOTES_BATCH_SIZE
    LegacyThreshold  \* LEGACY_CURSOR_THRESHOLD

ASSUME NotesAssumption == TagOf \in [Notes -> Tags]
ASSUME BatchAssumption == BatchSize \in Nat \ {0}
ASSUME LegacyAssumption == LegacyThreshold \in Nat

Row == [seq : Nat, id : Notes, created_at : Nat]

-----------------------------------------------------------------------------
(* INSERT.  AUTOINCREMENT takes the next value of the table's entry in     *)
(* sqlite_sequence, which outlives the rows: a deleted maximum is not      *)
(* handed out again.                                                       *)

\* Mistake: INTEGER PRIMARY KEY without AUTOINCREMENT takes the value after
\* the largest row that is still there.
NextRowid(rows, sqliteSeq) ==
    IF rows = {} THEN 1
    ELSE 1 + (CHOOSE m \in {r.seq : r \in rows} : \A r \in rows : r.seq <= m)

NextSeq(rows, sqliteSeq) == sqliteSeq + 1

\* Mistake: a table without the UNIQUE constraint on `id`.
IdNeverTaken(rows, n) == FALSE

\* The UNIQUE constraint on `id`.
IdTaken(rows, n) == \E r \in rows : r.id = n

-----------------------------------------------------------------------------
(* SELECT ... WHERE tag IN tags AND seq > cursor ORDER BY seq ASC LIMIT n. *)

\* A cursor this large is a microsecond timestamp from the schema that had
\* no `seq`, and is read as 0.
EffectiveCursor(cursor) == IF cursor > LegacyThreshold THEN 0 ELSE cursor

\* Mistake: cursors taken as they come.
MatchingAsIs(rows, tags, cursor) ==
    {r \in rows : TagOf[r.id] \in tags /\ r.seq > cursor}

\* The WHERE clause, with the cursor that is meant.
Matching(rows, tags, cursor) ==
    {r \in rows : TagOf[r.id] \in tags /\ r.seq > EffectiveCursor(cursor)}

\* Mistake: ORDER BY created_at, as before the `seq` column.
BatchByTime(rows, tags, cursor) ==
    LET M == Matching(rows, tags, cursor)
    IN  {r \in M : Cardinality({q \in M : q.created_at < r.created_at}) < BatchSize}

\* Mistake: LIMIT counts the rows of every tag.
BatchOfAllTags(rows, tags, cursor) ==
    LET ahead == Matching(rows, Tags, cursor)
    IN  {r \in Matching(rows, tags, cursor) :
            Cardinality({q \in ahead : q.seq < r.seq}) < BatchSize}

\* The first BatchSize of them in the order of `seq`.
Batch(rows, tags, cursor) ==
    LET M == Matching(rows, tags, cursor)
    IN  {r \in M : Cardinality({q \in M : q.seq < r.seq}) < BatchSize}

\* The cursor returned with a batch: the caller's own cursor raised to every
\* `seq` in the batch.  m is that maximum.
IsResponseCursor(m, cursor, batch) ==
    /\ m \in {cursor} \cup {r.seq : r \in batch}
    /\ m >= cursor
    /\ \A r \in batch : m >= r.seq

-----------------------------------------------------------------------------
(* DELETE ... WHERE created_at < cutoff.                                   *)

\* Mistake: `le` for `lt`.
NotNewerThan(rows, cutoff) == {r \in rows : r.created_at <= cutoff}

OlderThan(rows, cutoff) == {r \in rows : r.created_at < cutoff}

\* cleanup_old_notes: the timestamp before which a note is too old.
Cutoff(now, retention) == now - retention
=============================================================================
