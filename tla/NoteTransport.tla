--------------------------- MODULE NoteTransport ---------------------------
(***************************************************************************)
(* The store-and-forward core of the node on a file-backed database:       *)
(* concurrent SendNote and FetchNotes handlers, the connection pool,       *)
(* SQLite's one write transaction at a time, the retention task, and the   *)
(* clients that fetch, import and persist their cursor.                    *)
(*                                                                         *)
(* A handler is split at each `.await` and its transaction at the point    *)
(* where SQLite takes the write lock, because there other tasks get in.    *)
(* A handler dropped by the timeout layer (or by a client that goes away)  *)
(* does not stop the blocking closure it handed to the pool: the closure   *)
(* runs to its commit and keeps its connection until then.                 *)
(***************************************************************************)
EXTENDS NoteTable, Sequences, Functions

CONSTANTS
    Calls,        \* SendNote requests; a sender's retry is a call of its own
    CallNote,     \* the note each call carries
    HeaderSize,   \* bytes of a serialized NoteHeader
    DetailsSize,  \* bytes of the details of each note
    Malformed,    \* notes whose header cannot be parsed
    MaxNoteSize,  \* config.max_note_size
    Clients,      \* clients that poll FetchNotes
    AskTags,      \* the tag list each client sends, as it sends it
    MaxTags,      \* MAX_TAGS_PER_FETCH_REQUEST
    FirstCursor,  \* the cursor each client starts with
    Watchers,     \* clients that ask for Stats
    PoolSize,     \* connections in the pool
    Retention,    \* retention_days, in ticks of the clock
    MaxTime,      \* bound: the clock stops here
    MaxFaults     \* bound: timeouts, lost replies, crashes and I/O errors

ASSUME CallAssumption ==
    /\ CallNote \in [Calls -> Notes]
    /\ DetailsSize \in [Notes -> Nat]
    /\ HeaderSize \in Nat
    /\ MaxNoteSize \in Nat
ASSUME ClientAssumption ==
    /\ AskTags \in [Clients -> Seq(Tags)]
    /\ FirstCursor \in [Clients -> Nat]
    /\ \A c \in Clients : EffectiveCursor(FirstCursor[c]) = 0
\* "Two orders of magnitude above any plausible `seq`": there are not so many
\* sends that a position handed out here would be read as a timestamp.
ASSUME ThresholdAssumption ==
    IsFiniteSet(Calls) /\ Cardinality(Calls) <= LegacyThreshold
ASSUME BoundAssumption ==
    /\ PoolSize \in Nat \ {0}
    /\ Retention \in Nat
    /\ MaxTags \in Nat
    /\ MaxTime \in Nat
    /\ MaxFaults \in Nat

VARIABLES
    now,        \* Utc::now()
    rows,       \* the committed rows of `notes`
    sqliteSeq,  \* the committed sqlite_sequence entry of `notes`
    call,       \* each SendNote request and its closure
    maint,      \* the DatabaseMaintenance task
    fetch,      \* each client's FetchNotes request
    orphans,    \* read closures whose handler is gone, and the streamer's
    cursor,     \* each client's persisted cursor
    received,   \* history: the rows each client has imported
    stats,      \* each watcher's Stats request
    expired,    \* history: the rows the retention task deleted
    faults      \* how many faults happened, at most MaxFaults

dbVars     == <<rows, sqliteSeq, expired>>
clientVars == <<fetch, orphans, cursor, received, stats>>
vars       == <<now, dbVars, call, maint, clientVars, faults>>

-----------------------------------------------------------------------------
Answers == {"none", "ok", "too_large", "invalid", "duplicate", "busy",
            "error", "timeout"}

Call == [phase      : {"new", "waiting", "running", "inserted", "done"},
         answer     : Answers,
         created_at : Nat,
         seq        : Nat]

Maint == [phase  : {"due", "waiting", "running", "deleting", "sleeping"},
          cutoff : Int]

Fetch == [phase  : {"idle", "waiting", "reading", "answered", "imported"},
          notes  : SUBSET Row,
          cursor : Nat]

\* The answer, and as history the sequence entry at each of the two counts.
Stats == [phase : {"idle", "waiting", "reading", "counted", "answered"},
          notes : Nat, tags : Nat, from : Nat, to : Nat]

\* The type invariant: phases, answers, rows and cursors are what the code's
\* types allow, and the connection count never goes below zero.
TypeOK ==
    /\ now \in Nat
    /\ rows \in SUBSET Row /\ IsFiniteSet(rows)
    /\ sqliteSeq \in Nat
    /\ call \in [Calls -> Call]
    /\ maint \in Maint
    /\ fetch \in [Clients -> Fetch]
    /\ orphans \in Nat
    /\ cursor \in [Clients -> Nat]
    /\ received \in [Clients -> SUBSET Row]
    /\ stats \in [Watchers -> Stats]
    /\ expired \in SUBSET Row
    /\ faults \in Nat

NoStats == [phase |-> "idle", notes |-> 0, tags |-> 0, from |-> 0, to |-> 0]

Init ==
    /\ now = 0
    /\ rows = {}
    /\ sqliteSeq = 0
    /\ call = [k \in Calls |->
                 [phase |-> "new", answer |-> "none", created_at |-> 0, seq |-> 0]]
    /\ maint = [phase |-> "due", cutoff |-> 0]
    /\ fetch = [c \in Clients |-> [phase |-> "idle", notes |-> {}, cursor |-> 0]]
    /\ orphans = 0
    /\ cursor = FirstCursor
    /\ received = [c \in Clients |-> {}]
    /\ stats = [w \in Watchers |-> NoStats]
    /\ expired = {}
    /\ faults = 0

-----------------------------------------------------------------------------
(* The pool and the write lock.                                            *)

\* BTreeSet of the request's tags.
AskedTags(c) == Range(AskTags[c])

\* A request without tags is answered with no query.
Queries(c) == fetch[c].phase = "reading" /\ AskedTags(c) # {}

\* The connections with a closure to run.  When a handler is dropped the pool
\* takes its connection back at once, and `interact` makes the next user wait for
\* the closure; here that user waits for the connection: either way it starts
\* after the closure has ended.
InUse ==
    LET writers == {k \in Calls : call[k].phase \in {"running", "inserted"}}
        readers == {c \in Clients : Queries(c)}
        counters == {w \in Watchers : stats[w].phase \in {"reading", "counted"}}
        cleanup == IF maint.phase \in {"running", "deleting"} THEN 1 ELSE 0
    IN  Cardinality(writers) + Cardinality(readers) + Cardinality(counters)
            + orphans + cleanup

ConnectionFree == InUse < PoolSize

\* Mistake: inserts that do not wait for one another.
NoCleanupWrites == maint.phase # "deleting"

\* SQLite lets one transaction write at a time; in WAL mode readers go on.
WriteLockFree ==
    /\ \A k \in Calls : call[k].phase # "inserted"
    /\ maint.phase # "deleting"

Fault ==
    /\ faults < MaxFaults
    /\ faults' = faults + 1

-----------------------------------------------------------------------------
(* SendNote.                                                               *)

NoteSize(n) == HeaderSize + DetailsSize[n]

\* What the handler of k is told, if it is still there to be told.
Told(k, a) == IF call[k].answer = "none" THEN a ELSE call[k].answer

RejectNote(k) ==
    LET n == CallNote[k]
    IN  /\ call[k].phase = "new"
        /\ \/ /\ NoteSize(n) > MaxNoteSize
              /\ call' = [call EXCEPT ![k].phase = "done", ![k].answer = "too_large"]
           \/ /\ NoteSize(n) <= MaxNoteSize
              /\ n \in Malformed
              /\ call' = [call EXCEPT ![k].phase = "done", ![k].answer = "invalid"]
        /\ UNCHANGED <<now, dbVars, maint, clientVars, faults>>

\* The note is stamped here, before the handler waits for a connection.
AcceptNote(k) ==
    /\ call[k].phase = "new"
    /\ NoteSize(CallNote[k]) <= MaxNoteSize
    /\ CallNote[k] \notin Malformed
    /\ call' = [call EXCEPT ![k].phase = "waiting", ![k].created_at = now]
    /\ UNCHANGED <<now, dbVars, maint, clientVars, faults>>

\* pool.get() returned; the closure is handed to a blocking thread.
StartStore(k) ==
    /\ call[k].phase = "waiting"
    /\ ConnectionFree
    /\ call' = [call EXCEPT ![k].phase = "running"]
    /\ UNCHANGED <<now, dbVars, maint, clientVars, faults>>

\* Mistake: the sender is answered when the INSERT has run, before COMMIT.
InsertAndAnswer(k) ==
    /\ call[k].phase = "running"
    /\ WriteLockFree
    /\ \/ /\ IdTaken(rows, CallNote[k])
          /\ call' = [call EXCEPT ![k].phase = "done", ![k].answer = Told(k, "duplicate")]
       \/ /\ ~IdTaken(rows, CallNote[k])
          /\ call' = [call EXCEPT ![k].phase = "inserted",
                                  ![k].answer = Told(k, "ok"),
                                  ![k].seq = NextSeq(rows, sqliteSeq)]
    /\ UNCHANGED <<now, dbVars, maint, clientVars, faults>>

\* Mistake: a note that another call has inserted but not yet committed
\* counts as a duplicate.
InsertUnlessInFlight(k) ==
    LET inFlight == \E j \in Calls \ {k} :
            call[j].phase = "inserted" /\ CallNote[j] = CallNote[k]
    IN  /\ call[k].phase = "running"
        /\ inFlight \/ WriteLockFree
        /\ \/ /\ inFlight \/ IdTaken(rows, CallNote[k])
              /\ call' = [call EXCEPT ![k].phase = "done", ![k].answer = Told(k, "duplicate")]
           \/ /\ ~inFlight /\ ~IdTaken(rows, CallNote[k])
              /\ call' = [call EXCEPT ![k].phase = "inserted",
                                      ![k].seq = NextSeq(rows, sqliteSeq)]
        /\ UNCHANGED <<now, dbVars, maint, clientVars, faults>>

\* INSERT inside the transaction: it takes the write lock, and fails on a
\* note id that is already in the table.
InsertNote(k) ==
    /\ call[k].phase = "running"
    /\ WriteLockFree
    /\ \/ /\ IdTaken(rows, CallNote[k])
          /\ call' = [call EXCEPT ![k].phase = "done", ![k].answer = Told(k, "duplicate")]
       \/ /\ ~IdTaken(rows, CallNote[k])
          /\ call' = [call EXCEPT ![k].phase = "inserted",
                                  ![k].seq = NextSeq(rows, sqliteSeq)]
    /\ UNCHANGED <<now, dbVars, maint, clientVars, faults>>

\* COMMIT: the row and the sequence entry become visible together.
CommitNote(k) ==
    /\ call[k].phase = "inserted"
    /\ rows' = rows \cup {[seq |-> call[k].seq, id |-> CallNote[k],
                           created_at |-> call[k].created_at]}
    /\ sqliteSeq' = call[k].seq
    /\ call' = [call EXCEPT ![k].phase = "done", ![k].answer = Told(k, "ok")]
    /\ UNCHANGED <<now, expired, maint, clientVars, faults>>

\* busy_timeout passed while another transaction held the write lock.
StoreBusy(k) ==
    /\ call[k].phase = "running"
    /\ ~WriteLockFree
    /\ call' = [call EXCEPT ![k].phase = "done", ![k].answer = Told(k, "busy")]
    /\ UNCHANGED <<now, dbVars, maint, clientVars, faults>>

\* No connection could be opened, or the transaction failed and was rolled
\* back.
StoreFails(k) ==
    /\ call[k].phase \in {"waiting", "running", "inserted"}
    /\ Fault
    /\ call' = [call EXCEPT ![k].phase = "done", ![k].answer = Told(k, "error")]
    /\ UNCHANGED <<now, dbVars, maint, clientVars>>

\* The timeout layer, or a sender that goes away, drops the handler: a wait
\* for a connection ends with it, a closure that has started does not.
SendDropped(k) ==
    /\ call[k].phase \in {"waiting", "running", "inserted"}
    /\ call[k].answer = "none"
    /\ Fault
    /\ call' = [call EXCEPT
                  ![k].phase  = IF @ = "waiting" THEN "done" ELSE @,
                  ![k].answer = "timeout"]
    /\ UNCHANGED <<now, dbVars, maint, clientVars>>

-----------------------------------------------------------------------------
(* The retention task: DatabaseMaintenance::step around cleanup_old_notes. *)

\* The cutoff is read off the clock before a connection is asked for.
StartCleanup ==
    /\ maint.phase = "due"
    /\ maint' = [phase |-> "waiting", cutoff |-> Cutoff(now, Retention)]
    /\ UNCHANGED <<now, dbVars, call, clientVars, faults>>

StartDelete ==
    /\ maint.phase = "waiting"
    /\ ConnectionFree
    /\ maint' = [maint EXCEPT !.phase = "running"]
    /\ UNCHANGED <<now, dbVars, call, clientVars, faults>>

DeleteOld ==
    /\ maint.phase = "running"
    /\ WriteLockFree
    /\ maint' = [maint EXCEPT !.phase = "deleting"]
    /\ UNCHANGED <<now, dbVars, call, clientVars, faults>>

CommitCleanup ==
    /\ maint.phase = "deleting"
    /\ rows' = rows \ OlderThan(rows, maint.cutoff)
    /\ expired' = expired \cup OlderThan(rows, maint.cutoff)
    /\ maint' = [maint EXCEPT !.phase = "sleeping"]
    /\ UNCHANGED <<now, sqliteSeq, call, clientVars, faults>>

\* The ten minutes have passed.
WakeCleanup ==
    /\ maint.phase = "sleeping"
    /\ maint' = [maint EXCEPT !.phase = "due"]
    /\ UNCHANGED <<now, dbVars, call, clientVars, faults>>

\* Mistake: an error ends the task.
CleanupGivesUp ==
    /\ \/ /\ maint.phase = "running"
          /\ ~WriteLockFree
          /\ UNCHANGED faults
       \/ /\ maint.phase \in {"waiting", "running", "deleting"}
          /\ Fault
    /\ maint' = [maint EXCEPT !.phase = "stopped"]
    /\ UNCHANGED <<now, dbVars, call, clientVars>>

\* An error, a busy database among them, skips the sleep: the task starts
\* over at once.
CleanupFails ==
    /\ \/ /\ maint.phase = "running"
          /\ ~WriteLockFree
          /\ UNCHANGED faults
       \/ /\ maint.phase \in {"waiting", "running", "deleting"}
          /\ Fault
    /\ maint' = [maint EXCEPT !.phase = "due"]
    /\ UNCHANGED <<now, dbVars, call, clientVars>>

-----------------------------------------------------------------------------
(* FetchNotes, and the client's loop around it: fetch, import the notes,   *)
(* persist the cursor.  The request carries the persisted cursor, which    *)
(* the client does not change while the request is under way.              *)

\* A request with too many tags is turned away and changes nothing.
AskNotes(c) ==
    /\ fetch[c].phase = "idle"
    /\ Len(AskTags[c]) <= MaxTags
    /\ fetch' = [fetch EXCEPT ![c].phase = "waiting"]
    /\ UNCHANGED <<now, dbVars, call, maint, orphans, cursor, received, stats, faults>>

StartRead(c) ==
    /\ fetch[c].phase = "waiting"
    /\ AskedTags(c) # {} => ConnectionFree
    /\ fetch' = [fetch EXCEPT ![c].phase = "reading"]
    /\ UNCHANGED <<now, dbVars, call, maint, orphans, cursor, received, stats, faults>>

\* Mistake: the answer's cursor starts from 0, and not from the request's.
ReadNotesFromZero(c) ==
    LET batch == Batch(rows, AskedTags(c), cursor[c])
    IN  /\ fetch[c].phase = "reading"
        /\ \E m \in {0} \cup {r.seq : r \in batch} :
              /\ IsResponseCursor(m, 0, batch)
              /\ fetch' = [fetch EXCEPT ![c] =
                             [phase |-> "answered", notes |-> batch, cursor |-> m]]
        /\ UNCHANGED <<now, dbVars, call, maint, orphans, cursor, received, stats, faults>>

\* One SELECT for all the tags, and the handler's answer.
ReadNotes(c) ==
    LET batch == Batch(rows, AskedTags(c), cursor[c])
    IN  /\ fetch[c].phase = "reading"
        /\ \E m \in {cursor[c]} \cup {r.seq : r \in batch} :
              /\ IsResponseCursor(m, cursor[c], batch)
              /\ fetch' = [fetch EXCEPT ![c] =
                             [phase |-> "answered", notes |-> batch, cursor |-> m]]
        /\ UNCHANGED <<now, dbVars, call, maint, orphans, cursor, received, stats, faults>>

ImportNotes(c) ==
    /\ fetch[c].phase = "answered"
    /\ received' = [received EXCEPT ![c] = @ \cup fetch[c].notes]
    /\ fetch' = [fetch EXCEPT ![c].phase = "imported"]
    /\ UNCHANGED <<now, dbVars, call, maint, orphans, cursor, stats, faults>>

PersistCursor(c) ==
    /\ fetch[c].phase = "imported"
    /\ cursor' = [cursor EXCEPT ![c] = fetch[c].cursor]
    /\ fetch' = [fetch EXCEPT ![c] = [phase |-> "idle", notes |-> {}, cursor |-> 0]]
    /\ UNCHANGED <<now, dbVars, call, maint, orphans, received, stats, faults>>

\* The request times out or fails, the reply is lost, or the client crashes
\* before it has persisted the cursor.  A read that has started goes on.
FetchDropped(c) ==
    /\ fetch[c].phase # "idle"
    /\ Fault
    /\ orphans' = IF Queries(c) THEN orphans + 1 ELSE orphans
    /\ fetch' = [fetch EXCEPT ![c] = [phase |-> "idle", notes |-> {}, cursor |-> 0]]
    /\ UNCHANGED <<now, dbVars, call, maint, cursor, received, stats>>

\* query_updates takes its connections from the same pool, and a control message
\* may drop it while one is in use.  What it reads is Streamer's matter.
StreamerReads ==
    /\ ConnectionFree
    /\ orphans' = orphans + 1
    /\ UNCHANGED <<now, dbVars, call, maint, fetch, cursor, received, stats, faults>>

\* Mistake: a connection is given back twice.
OrphanReadEndsAgain ==
    /\ orphans' = orphans - 1
    /\ UNCHANGED <<now, dbVars, call, maint, fetch, cursor, received, stats, faults>>

\* Mistake: the connection of a dropped handler never comes back.
OrphanReadHangs ==
    /\ orphans > 0
    /\ UNCHANGED vars

\* A read closure without a client ends and gives back its connection.
OrphanReadEnds ==
    /\ orphans > 0
    /\ orphans' = orphans - 1
    /\ UNCHANGED <<now, dbVars, call, maint, fetch, cursor, received, stats, faults>>

-----------------------------------------------------------------------------
(* Stats: two SELECTs on one connection, in no transaction.                *)

statsOnly == <<now, dbVars, call, maint, fetch, cursor, received>>

AskStats(w) ==
    /\ stats[w].phase = "idle"
    /\ stats' = [stats EXCEPT ![w].phase = "waiting"]
    /\ UNCHANGED <<statsOnly, orphans, faults>>

StartStats(w) ==
    /\ stats[w].phase = "waiting"
    /\ ConnectionFree
    /\ stats' = [stats EXCEPT ![w].phase = "reading"]
    /\ UNCHANGED <<statsOnly, orphans, faults>>

TagsInUse == {TagOf[n] : n \in {r.id : r \in rows}}

\* Mistake: the tags are counted first.
CountTagsFirst(w) ==
    /\ \/ /\ stats[w].phase = "reading"
          /\ stats' = [stats EXCEPT ![w].phase = "counted", ![w].from = sqliteSeq,
                                    ![w].tags = Cardinality(TagsInUse)]
       \/ /\ stats[w].phase = "counted"
          /\ stats' = [stats EXCEPT ![w].phase = "answered", ![w].to = sqliteSeq,
                                    ![w].notes = Cardinality(rows)]
    /\ UNCHANGED <<statsOnly, orphans, faults>>

\* count(*), then count(distinct tag), each of what is committed by then.
CountRows(w) ==
    /\ \/ /\ stats[w].phase = "reading"
          /\ stats' = [stats EXCEPT ![w].phase = "counted", ![w].from = sqliteSeq,
                                    ![w].notes = Cardinality(rows)]
       \/ /\ stats[w].phase = "counted"
          /\ stats' = [stats EXCEPT ![w].phase = "answered", ![w].to = sqliteSeq,
                                    ![w].tags = Cardinality(TagsInUse)]
    /\ UNCHANGED <<statsOnly, orphans, faults>>

\* As FetchDropped, up to the answer.
StatsDropped(w) ==
    /\ stats[w].phase \in {"waiting", "reading", "counted"}
    /\ Fault
    /\ orphans' = IF stats[w].phase = "waiting" THEN orphans ELSE orphans + 1
    /\ stats' = [stats EXCEPT ![w] = NoStats]
    /\ UNCHANGED statsOnly

-----------------------------------------------------------------------------
Tick ==
    /\ now < MaxTime
    /\ now' = now + 1
    /\ UNCHANGED <<dbVars, call, maint, clientVars, faults>>

\* What becomes of a SendNote when the process dies.
Interrupted(k) ==
    IF call[k].phase \in {"waiting", "running", "inserted"}
    THEN [phase |-> "done", answer |-> Told(k, "timeout"),
          created_at |-> call[k].created_at, seq |-> call[k].seq]
    ELSE call[k]

\* The process dies and comes back: handlers, closures and open transactions
\* are gone, what was committed stays, and the retention task starts over.
Restart ==
    /\ Fault
    /\ call' = [k \in Calls |-> Interrupted(k)]
    /\ maint' = [maint EXCEPT !.phase = "due"]
    /\ fetch' = [c \in Clients |->
                   IF fetch[c].phase \in {"waiting", "reading"}
                   THEN [fetch[c] EXCEPT !.phase = "idle"]
                   ELSE fetch[c]]
    /\ stats' = [w \in Watchers |->
                   IF stats[w].phase = "answered" THEN stats[w] ELSE NoStats]
    /\ orphans' = 0
    /\ UNCHANGED <<now, dbVars, cursor, received>>

SendStep(k) ==
    \/ RejectNote(k)
    \/ AcceptNote(k)
    \/ StartStore(k)
    \/ InsertNote(k)
    \/ CommitNote(k)
    \/ StoreBusy(k)
    \/ StoreFails(k)
    \/ SendDropped(k)

MaintStep ==
    \/ StartCleanup
    \/ StartDelete
    \/ DeleteOld
    \/ CommitCleanup
    \/ WakeCleanup
    \/ CleanupFails

FetchStep(c) ==
    \/ AskNotes(c)
    \/ StartRead(c)
    \/ ReadNotes(c)
    \/ ImportNotes(c)
    \/ PersistCursor(c)
    \/ FetchDropped(c)

StatsStep(w) ==
    \/ AskStats(w)
    \/ StartStats(w)
    \/ CountRows(w)
    \/ StatsDropped(w)

Next ==
    \/ \E k \in Calls : SendStep(k)
    \/ MaintStep
    \/ \E c \in Clients : FetchStep(c)
    \/ \E w \in Watchers : StatsStep(w)
    \/ StreamerReads
    \/ OrphanReadEnds
    \/ Tick
    \/ Restart

Spec == Init /\ [][Next]_vars

-----------------------------------------------------------------------------
(* Fairness.  tokio and its blocking pool run what is ready; the pool's    *)
(* semaphore is first come, first served, so a task that waits for a       *)
(* connection gets one; a transaction that waits for the write lock gets   *)
(* it or gives up at busy_timeout.  Clients keep polling.                  *)

SendFairness(k) ==
    /\ SF_vars(StartStore(k))
    /\ WF_vars(InsertNote(k) \/ StoreBusy(k))
    /\ WF_vars(CommitNote(k))

MaintFairness ==
    /\ WF_vars(StartCleanup)
    /\ SF_vars(StartDelete)
    /\ SF_vars(DeleteOld)
    /\ WF_vars(CommitCleanup)
    /\ WF_vars(WakeCleanup)

FetchFairness(c) ==
    /\ WF_vars(AskNotes(c))
    /\ SF_vars(StartRead(c))
    /\ WF_vars(ReadNotes(c))
    /\ WF_vars(ImportNotes(c))
    /\ WF_vars(PersistCursor(c))

Fairness ==
    /\ \A k \in Calls : SendFairness(k)
    /\ MaintFairness
    /\ \A c \in Clients : FetchFairness(c)
    /\ \A w \in Watchers : SF_vars(StartStats(w)) /\ WF_vars(CountRows(w))
    /\ WF_vars(OrphanReadEnds)

FairSpec == Spec /\ Fairness

-----------------------------------------------------------------------------
(* Safety.                                                                 *)

\* The rows a client asks for.
Wanted(c) == {r \in rows : TagOf[r.id] \in AskedTags(c)}

\* No client's cursor ever passes a note it has not imported: whatever is
\* stored under one of its tags at or below its cursor, it has.  This is what
\* the `seq` cursor, the ordered LIMIT and the single SELECT are for: below
\* the cursor a note would be out of reach for good.
NoLeapfrog ==
    \A c \in Clients : \A r \in Wanted(c) :
        r.seq <= EffectiveCursor(cursor[c]) => r \in received[c]

\* A SendNote that was answered "ok" has its note in the table, through
\* restarts and rolled-back transactions, until the retention task deletes it.
AckedIsStored ==
    \A k \in Calls :
        call[k].answer = "ok" => \E r \in rows \cup expired : r.id = CallNote[k]

\* A sender that lost the answer and retries is told "duplicate" only if the
\* note really is, or was, in the table: it need not send the note again.
DuplicateMeansStored ==
    \A k \in Calls :
        call[k].answer = "duplicate" => \E r \in rows \cup expired : r.id = CallNote[k]

\* A note is stored at most once at a time, whatever retries overlap.
StoredOnce ==
    \A r, s \in rows : r.id = s.id \/ r.seq = s.seq => r = s

\* The two counts of a Stats answer are of two moments, and more tags than notes
\* may be reported, but not by more than were stored between the two.
StatsAgree ==
    \A w \in Watchers : stats[w].phase = "answered" =>
        stats[w].tags <= stats[w].notes + (stats[w].to - stats[w].from)

\* A row leaves the table only when it is older than the retention period at
\* that moment, however long the cleanup waited after it read the clock.
RetentionRespected ==
    [][\A r \in rows \ rows' : r.created_at < now - Retention]_vars

\* A client makes headway: its position never goes back, through empty answers,
\* dropped requests and crashes, and an answer that brought notes moves it on
\* once it is persisted, so that those notes are not sent again.  (A cursor of
\* the old schema does not move; StoredIsDelivered has that case.)
PollsAdvance ==
    [][\A c \in Clients :
          LET from == EffectiveCursor(cursor[c])
              to   == EffectiveCursor(cursor'[c])
          IN  /\ from <= to
              /\ (PersistCursor(c) /\ from = cursor[c]) =>
                     \A r \in fetch[c].notes : from < r.seq /\ r.seq <= to]_vars

\* A poll with notes to fetch brings some, however many of other tags lie in
\* between: an empty answer means that nothing wanted is ahead, and the client
\* may wait.
BacklogIsServed ==
    [][\A c \in Clients :
          /\ fetch[c].phase = "reading"
          /\ fetch'[c].phase = "answered"
          /\ \E r \in Wanted(c) : r.seq > EffectiveCursor(cursor[c])
          => fetch'[c].notes # {}]_vars

-----------------------------------------------------------------------------
(* Why the safety properties hold: the invariant that every step keeps.    *)

\* A `seq` in the table, or once in it, is at most the committed sequence
\* entry.
SeqBounded ==
    \A r \in rows \cup expired : 0 < r.seq /\ r.seq <= sqliteSeq

\* One transaction writes at a time, and the note it inserts is new and takes
\* the value after the sequence entry.
OneWriter ==
    \A k \in Calls : call[k].phase = "inserted" =>
        /\ \A j \in Calls : call[j].phase = "inserted" => j = k
        /\ maint.phase # "deleting"
        /\ ~IdTaken(rows, CallNote[k])
        /\ call[k].seq = sqliteSeq + 1

\* A cursor, persisted or in an answer, is 0 or the `seq` of a note that was
\* stored: a note committed from now on lies above it.
IsStoredPosition(m) ==
    EffectiveCursor(m) \in {0} \cup {r.seq : r \in rows \cup expired}

CursorsBounded ==
    \A c \in Clients :
        /\ IsStoredPosition(cursor[c])
        /\ IsStoredPosition(fetch[c].cursor)

\* An answer leaves out no note between the cursor it was asked with and the
\* cursor it returns, and it is imported before its cursor is persisted.
AnswerCovers ==
    \A c \in Clients :
        /\ fetch[c].phase \in {"answered", "imported"} =>
              \A r \in Wanted(c) :
                  r.seq <= EffectiveCursor(fetch[c].cursor) =>
                      r.seq <= EffectiveCursor(cursor[c]) \/ r \in fetch[c].notes
        /\ fetch[c].phase = "imported" => fetch[c].notes \subseteq received[c]

\* Clients only ever see notes that were stored under their tags.
NothingInvented ==
    \A c \in Clients : \A r \in fetch[c].notes :
        r \in rows \cup expired /\ TagOf[r.id] \in AskedTags(c)

\* The cutoff of a cleanup under way is older than the retention period.
CutoffIsOld ==
    maint.phase \in {"waiting", "running", "deleting"} =>
        maint.cutoff <= now - Retention

TableInv == SeqBounded /\ StoredOnce

SendInv ==
    /\ OneWriter
    /\ CutoffIsOld
    /\ AckedIsStored
    /\ DuplicateMeansStored

ClientInv ==
    /\ CursorsBounded
    /\ AnswerCovers
    /\ NothingInvented
    /\ NoLeapfrog

\* While a Stats request is between its counts, what the table has grown by was
\* stored since the first.
StatsInv ==
    /\ \A w \in Watchers : stats[w].phase = "counted" =>
           /\ Cardinality(rows) <= stats[w].notes + (sqliteSeq - stats[w].from)
           /\ stats[w].from <= sqliteSeq
    /\ StatsAgree

\* The inductive invariant: at every step of a handler, a closure, the
\* retention task or a client, all of the parts above hold together.
IInv == TypeOK /\ TableInv /\ SendInv /\ ClientInv

-----------------------------------------------------------------------------
(* Liveness.                                                               *)

\* Every SendNote that was accepted ends: no handler and no closure waits
\* forever for a connection or for the write lock.
SendEnds ==
    \A k \in Calls : call[k].phase = "waiting" ~> call[k].phase = "done"

\* A note older than the retention period is deleted in the end, whatever
\* errors the cleanup ran into before.
OldNotesGo ==
    \A n \in Notes :
        (\E r \in rows : r.id = n /\ r.created_at < now - Retention)
            ~> ~IdTaken(rows, n)

\* A stored note reaches every client that polls for its tag, unless it
\* expires first, in spite of timeouts, lost replies and crashes.
StoredIsDelivered ==
    \A c \in Clients : \A n \in Notes :
        (TagOf[n] \in AskedTags(c) /\ IdTaken(rows, n))
            ~> (~IdTaken(rows, n) \/ \E r \in received[c] : r.id = n)

-----------------------------------------------------------------------------
(* The mailbox the node and its clients implement.                         *)

RowPosition(r) == r.seq
RowIsFor(r, c) == TagOf[r.id] \in AskedTags(c)

Mail == INSTANCE Mailbox WITH
    Readers  <- Clients,
    Position <- RowPosition,
    IsFor    <- RowIsFor,
    posted   <- rows \cup expired,
    expired  <- expired,
    position <- [c \in Clients |-> EffectiveCursor(cursor[c])],
    inHand   <- received

\* The node implements the mailbox: rows become visible in the order of their
\* `seq`, and a client persists a cursor only over notes it has imported, or
\* that are not its own, or that have expired.
ImplementsMailbox == Mail!Spec
=============================================================================
