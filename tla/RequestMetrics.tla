--------------------------- MODULE RequestMetrics ---------------------------
(***************************************************************************)
(* What the node's counters and duration histograms say of what it did.    *)
(* Requests pass the concurrency limit and then the timeout layer; a       *)
(* handler runs under a RequestTimer, and the database call in it under a  *)
(* second one.  The retention task and the streamer time their own work.   *)
(*                                                                         *)
(* A timer counts the operation when it starts, records a duration with    *)
(* status "ok" when finish() is called, and records one with status        *)
(* "dropped" when it goes out of scope: on an early return, on an error,   *)
(* in a handler that the timeout layer drops, and after finish() as well.  *)
(***************************************************************************)
EXTENDS Integers, FiniteSets

CONSTANTS
    Sends,           \* SendNote requests
    Fetches,         \* FetchNotes requests
    LegacyFetches,   \* those with a cursor of the schema without `seq`
    MaxConnections,  \* config.max_connections
    MaxRounds        \* bound: cleanups, and fetches altogether

ASSUME MetricsAssumption ==
    /\ IsFiniteSet(Sends) /\ IsFiniteSet(Fetches) /\ Sends \cap Fetches = {}
    /\ LegacyFetches \subseteq Fetches
    /\ MaxConnections \in Nat \ {0}
    /\ MaxRounds \in Nat

Requests == Sends \cup Fetches

\* The instruments of the gRPC handlers: a counter and a histogram of durations for
\* each operation, and histograms of sizes.
GrpcOps   == {"grpc_send_note", "grpc_fetch_notes"}
GrpcSizes == {"note_size", "replied_notes_number", "replied_notes_size"}

\* Those of the database: the same for each operation, and a counter of cursors that
\* were read as 0.
DbOps    == {"db_store_note", "db_fetch_notes", "db_cleanup"}
DbEvents == {"legacy_cursor_reset"}

Ops      == GrpcOps \cup DbOps
Counters == Ops \cup DbEvents

VARIABLES
    request,  \* how far each request is
    closure,  \* the blocking closure of its database call
    permits,  \* what is left of the concurrency limit
    cleanup,  \* the retention task
    poll,     \* the streamer's database query
    count,    \* the counters
    ok,       \* durations recorded with status "ok"
    dropped,  \* durations recorded with status "dropped"
    sized     \* how many sizes were recorded

requests == <<request, closure, permits>>
tasks    == <<cleanup, poll>>
metrics  == <<count, ok, dropped, sized>>
vars     == <<requests, tasks, metrics>>

\* The type invariant; a permit is given back only by a request that has one.
TypeOK ==
    /\ request \in [Requests -> {"queued", "waiting", "working", "ended"}]
    /\ closure \in [Requests -> {"none", "running", "ok", "failed"}]
    /\ permits \in 0 .. MaxConnections
    /\ cleanup \in {"due", "cleaning", "asleep"}
    /\ poll \in {"asleep", "reading"}
    /\ count \in [Counters -> Nat] /\ sized \in [GrpcSizes -> Nat]
    /\ ok \in [Ops -> Nat] /\ dropped \in [Ops -> Nat]

Init ==
    /\ request = [r \in Requests |-> "queued"]
    /\ closure = [r \in Requests |-> "none"]
    /\ permits = MaxConnections
    /\ cleanup = "due" /\ poll = "asleep"
    /\ count   = [o \in Counters |-> 0]
    /\ ok      = [o \in Ops |-> 0]
    /\ dropped = [o \in Ops |-> 0]
    /\ sized   = [h \in GrpcSizes |-> 0]

-----------------------------------------------------------------------------
(* The timers.                                                             *)

Timers(r) == IF r \in Sends THEN {"grpc_send_note", "db_store_note"}
                            ELSE {"grpc_fetch_notes", "db_fetch_notes"}

GrpcTimer(r) == Timers(r) \cap GrpcOps

Plus(f, S) == [o \in DOMAIN f |-> IF o \in S THEN f[o] + 1 ELSE f[o]]

\* request_count_measure, for the operations in S.
Count(S) == count' = Plus(count, S)

\* A fetch whose cursor is above the threshold is counted apart.
Resets(r) == IF r \in LegacyFetches THEN DbEvents ELSE {}

\* The size of a note is recorded with its request, those of a reply after
\* finish().
NoteSizes(r)  == IF r \in Sends THEN {"note_size"} ELSE {}
ReplySizes(r) == IF r \in Fetches THEN {"replied_notes_number", "replied_notes_size"} ELSE {}
Measure(S)    == sized' = Plus(sized, S)

\* finish("ok"), and the end of the timer's scope.
Finish(S) ==
    /\ ok' = Plus(ok, S)
    /\ dropped' = Plus(dropped, S)

\* Mistake: there is no Drop, only finish() records.
Forget(S) == UNCHANGED <<ok, dropped>>

\* The end of the timer's scope without finish().
Abandon(S) ==
    /\ dropped' = Plus(dropped, S)
    /\ UNCHANGED ok

-----------------------------------------------------------------------------
(* A request.  There is no await between a handler's start and the wait    *)
(* for a connection, nor between the closure's result and the reply.       *)

\* The queue for a permit is before the timeout layer.
Enter(r) == request[r] = "queued" /\ permits > 0

\* A SendNote without a note returns before there is a timer.
RefuseMissingNote(r) ==
    /\ Enter(r)
    /\ r \in Sends
    /\ request' = [request EXCEPT ![r] = "ended"]
    /\ UNCHANGED <<closure, permits, tasks, metrics>>

\* Too large, no valid header, too many tags.
Refuse(r) ==
    /\ Enter(r)
    /\ request' = [request EXCEPT ![r] = "ended"]
    /\ Count(GrpcTimer(r))
    /\ Measure(NoteSizes(r))
    /\ Abandon(GrpcTimer(r))
    /\ UNCHANGED <<closure, permits, tasks>>

\* A FetchNotes without tags is answered without a query.
FetchNothing(r) ==
    /\ Enter(r)
    /\ r \in Fetches
    /\ request' = [request EXCEPT ![r] = "ended"]
    /\ Count(Timers(r) \cup Resets(r))
    /\ Measure(ReplySizes(r))
    /\ Finish(Timers(r))
    /\ UNCHANGED <<closure, permits, tasks>>

CallDatabase(r) ==
    /\ Enter(r)
    /\ permits' = permits - 1
    /\ request' = [request EXCEPT ![r] = "waiting"]
    /\ Count(Timers(r) \cup Resets(r))
    /\ Measure(NoteSizes(r))
    /\ UNCHANGED <<closure, tasks, ok, dropped>>

StartClosure(r) ==
    /\ request[r] = "waiting"
    /\ request' = [request EXCEPT ![r] = "working"]
    /\ closure' = [closure EXCEPT ![r] = "running"]
    /\ UNCHANGED <<permits, tasks, metrics>>

\* A closure ends whether or not there still is a handler.
EndClosure(r) ==
    /\ closure[r] = "running"
    /\ \E result \in {"ok", "failed"} : closure' = [closure EXCEPT ![r] = result]
    /\ UNCHANGED <<request, permits, tasks, metrics>>

Leave(r) ==
    /\ request' = [request EXCEPT ![r] = "ended"]
    /\ permits' = permits + 1
    /\ UNCHANGED <<closure, tasks, count>>

\* Mistake: finish() before the `?`.
ReplyFinished(r) ==
    /\ request[r] = "working"
    /\ closure[r] \in {"ok", "failed"}
    /\ Finish(Timers(r))
    /\ Measure(ReplySizes(r))
    /\ Leave(r)

\* Both timers see the result of the database call.
Reply(r) ==
    /\ request[r] = "working"
    /\ \/ closure[r] = "ok" /\ Finish(Timers(r)) /\ Measure(ReplySizes(r))
       \/ closure[r] = "failed" /\ Abandon(Timers(r)) /\ UNCHANGED sized
    /\ Leave(r)

\* Mistake: the permit is the handler's to give back.
DropWithPermit(r) ==
    /\ request[r] \in {"waiting", "working"}
    /\ request' = [request EXCEPT ![r] = "ended"]
    /\ Abandon(Timers(r))
    /\ UNCHANGED <<closure, permits, tasks, count, sized>>

\* No connection could be opened; or the timeout layer, or a peer that goes
\* away, drops the handler.
DropHandler(r) ==
    /\ request[r] \in {"waiting", "working"}
    /\ Abandon(Timers(r))
    /\ UNCHANGED sized
    /\ Leave(r)

\* Mistake: whoever leaves gives back a permit.
QuitWithPermit(r) ==
    /\ request[r] = "queued"
    /\ request' = [request EXCEPT ![r] = "ended"]
    /\ permits' = permits + 1
    /\ UNCHANGED <<closure, tasks, metrics>>

\* The peer goes away before its request has a permit.
QuitQueue(r) ==
    /\ request[r] = "queued"
    /\ request' = [request EXCEPT ![r] = "ended"]
    /\ UNCHANGED <<closure, permits, tasks, metrics>>

-----------------------------------------------------------------------------
(* The background tasks.                                                   *)

StartCleanup ==
    /\ cleanup = "due"
    /\ cleanup' = "cleaning"
    /\ count["db_cleanup"] < MaxRounds
    /\ Count({"db_cleanup"})
    /\ UNCHANGED <<requests, poll, ok, dropped, sized>>

\* finish("ok"); the timer lives on through the ten minutes' sleep.
FinishCleanup ==
    /\ cleanup = "cleaning"
    /\ cleanup' = "asleep"
    /\ ok' = Plus(ok, {"db_cleanup"})
    /\ UNCHANGED <<requests, poll, count, dropped, sized>>

\* The end of step(): after the sleep, or at an error.
EndCleanup ==
    /\ cleanup \in {"cleaning", "asleep"}
    /\ cleanup' = "due"
    /\ Abandon({"db_cleanup"})
    /\ UNCHANGED <<requests, poll, count, sized>>

StartPoll ==
    /\ poll = "asleep"
    /\ poll' = "reading"
    /\ count["db_fetch_notes"] < MaxRounds
    /\ Count({"db_fetch_notes"})
    /\ UNCHANGED <<requests, cleanup, ok, dropped, sized>>

\* The rows are there; or the query fails, or a control message drops it.
EndPoll ==
    /\ poll = "reading"
    /\ poll' = "asleep"
    /\ Finish({"db_fetch_notes"}) \/ Abandon({"db_fetch_notes"})
    /\ UNCHANGED <<requests, cleanup, count, sized>>

Serve(r) ==
    \/ RefuseMissingNote(r)
    \/ Refuse(r)
    \/ FetchNothing(r)
    \/ CallDatabase(r)

Next ==
    \/ \E r \in Requests :
          \/ Serve(r) \/ StartClosure(r) \/ EndClosure(r)
          \/ Reply(r) \/ DropHandler(r) \/ QuitQueue(r)
    \/ StartCleanup \/ FinishCleanup \/ EndCleanup
    \/ StartPoll \/ EndPoll

Spec == Init /\ [][Next]_vars

\* Permits go round in order, and the timeout layer drops what takes too long.
\* Nothing is assumed of the pool, of SQLite or of the closures.
FairSpec ==
    /\ Spec
    /\ \A r \in Requests : SF_vars(Serve(r)) /\ WF_vars(DropHandler(r))

-----------------------------------------------------------------------------
\* The timers of operation o that are in scope.
Alive(o) ==
    Cardinality({r \in Requests : request[r] \in {"waiting", "working"} /\ o \in Timers(r)})
        + (IF o = "db_cleanup" /\ cleanup # "due" THEN 1 ELSE 0)
        + (IF o = "db_fetch_notes" /\ poll = "reading" THEN 1 ELSE 0)

\* Nothing ends unmeasured, on whichever path: when an operation that was counted is
\* over, by an answer, an early return, an error or a handler that is dropped, a
\* duration was recorded for it, and not two with the same status.  (Whether "ok" and
\* "dropped" may both be there is the matter of RecordedOnce.)
EndedIsMeasured ==
    /\ \A o \in Ops :
          /\ count[o] <= ok[o] + dropped[o] + Alive(o)
          /\ ok[o] <= count[o]
          /\ dropped[o] + Alive(o) <= count[o]
    /\ sized["note_size"] = count["grpc_send_note"]
    /\ count["legacy_cursor_reset"] <= count["db_fetch_notes"]

\* The requests that were let in and are not over.
Active == {r \in Requests : request[r] \in {"waiting", "working"}}

\* The limit holds, and no permit is lost: each is free or held by one request
\* that is not over, whether it is answered, times out or is dropped.
PermitsAddUp == permits + Cardinality(Active) = MaxConnections

\* The notes that were committed, with or without a handler to say so.
Stored == {r \in Sends : closure[r] = "ok"}

\* A status of "ok" is true and nests: a SendNote that is "ok" has an "ok"
\* store_note, and an "ok" store_note a committed note, although notes are
\* committed that nobody reports; a FetchNotes is "ok" if its reply was measured.
OkIsTrue ==
    /\ ok["grpc_send_note"] <= ok["db_store_note"]
    /\ ok["db_store_note"] <= Cardinality(Stored)
    /\ ok["grpc_fetch_notes"] <= ok["db_fetch_notes"]
    /\ \A h \in {"replied_notes_number", "replied_notes_size"} :
          sized[h] = ok["grpc_fetch_notes"]

\* "Increases the request counter and measures request duration": a request
\* that was counted has one duration.
RecordedOnce ==
    \A o \in Ops : ok[o] + dropped[o] <= count[o]

\* Every request comes to an end, even if no connection ever comes free and no
\* closure ever returns: timeouts give back the permits others wait for.
RequestsEnd ==
    \A r \in Requests : request[r] = "queued" ~> request[r] = "ended"
=============================================================================
