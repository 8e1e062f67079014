------------------------------ MODULE Streamer ------------------------------
(***************************************************************************)
(* StreamNotes: the NoteStreamer task, which polls the table for the tags  *)
(* that have subscribers, and the subscriptions (`Sub`), each polled by    *)
(* the gRPC task of its client.  They meet in two kinds of bounded         *)
(* channels: one control channel into the streamer and one channel of      *)
(* updates out of it for each subscription.  All sends are try_send: a     *)
(* full channel is never waited for.                                       *)
(*                                                                         *)
(* A subscription that finds nothing to deliver sends its waker down the   *)
(* control channel and parks.  The streamer forwards an update only to     *)
(* subscriptions whose waker it holds, and uses the waker up.              *)
(***************************************************************************)
EXTENDS NoteTable, Sequences

CONSTANTS
    Subs,          \* subscriptions, by their random id
    SubTag,        \* the tag of each
    CtrlCap,       \* capacity of the control channel
    SubCap,        \* capacity of a subscription's channel
    Period,        \* the 500 ms between queries, in ticks
    MaxStored,     \* bound: notes ever stored, those stored again included
    MaxCleanups,   \* bound: cleanups that find something to delete
    MaxSpurious,   \* bound: polls of a Sub that nothing in the node caused
    MaxOthers,     \* bound: control messages of subscriptions not in Subs
    EndlessOthers, \* whether those never stop, MaxOthers notwithstanding
    MaxErrors,     \* bound: failed database queries
    MayStop        \* whether the server may shut down

ASSUME SubAssumption == SubTag \in [Subs -> Tags]
\* "Two orders of magnitude above any plausible `seq`": no position that is
\* handed out here is read as a timestamp.
ASSUME ThresholdAssumption == MaxStored \in Nat /\ MaxStored <= LegacyThreshold
ASSUME CapAssumption ==
    /\ CtrlCap \in Nat \ {0} /\ SubCap \in Nat \ {0} /\ Period \in Nat \ {0}
    /\ MaxSpurious \in Nat /\ MaxOthers \in Nat /\ MaxErrors \in Nat /\ MaxCleanups \in Nat
    /\ EndlessOthers \in BOOLEAN /\ MayStop \in BOOLEAN

VARIABLES
    rows, sqliteSeq,  \* the table
    deleted,          \* history: the rows that are no longer in it
    running,          \* whether the streamer's loop is running
    tagData,          \* manager.tags; a tag without subs is not in the map
    wakers,           \* manager.wakers
    timer,            \* ticks since the loop last began to sleep
    query,            \* query_updates: asleep, or reading tag after tag
    ctrl,             \* the control channel
    sub,              \* the client's side of each subscription
    parked,           \* whether the task that polls it waits to be woken
    chan,             \* its channel of updates
    got,              \* history: the updates it has delivered
    joined,           \* history: the last `seq` stored when it was added
    budget            \* how much of the bounds was used

table   == <<rows, sqliteSeq, deleted>>
manager == <<running, tagData, wakers, timer, query>>
clients == <<sub, parked, chan, got>>
vars    == <<table, manager, ctrl, clients, joined, budget>>

-----------------------------------------------------------------------------
Update  == [tag : Tags, notes : SUBSET Row, cursor : Nat]
Message == [kind : {"AddSub", "RemoveSub", "Waker"}, sub : Subs]
               \cup {[kind |-> "Shutdown"]}
TagEntry == [cursor : Nat, subs : SUBSET Subs]
Query    == [reading : BOOLEAN, left : SUBSET Tags, updates : SUBSET Update]

Budget   == [spurious : Nat, others : Nat, errors : Nat, cleanups : Nat]

\* TagData::new, and what stands for a tag that is not in the map.
NewTag == [cursor |-> 0, subs |-> {}]

Asleep == [reading |-> FALSE, left |-> {}, updates |-> {}]

\* The type invariant; both kinds of channels stay within their capacity.
TypeOK ==
    /\ rows \in SUBSET Row /\ sqliteSeq \in Nat /\ deleted \in SUBSET Row
    /\ running \in BOOLEAN
    /\ tagData \in [Tags -> TagEntry]
    /\ wakers \in SUBSET Subs
    /\ timer \in 0 .. Period
    /\ query \in Query
    /\ ctrl \in Seq(Message) /\ Len(ctrl) <= CtrlCap
    /\ sub \in [Subs -> {"new", "open", "ending", "closed"}]
    /\ parked \in [Subs -> BOOLEAN]
    /\ chan \in [Subs -> Seq(Update)]
    /\ \A s \in Subs : Len(chan[s]) <= SubCap
    /\ got \in [Subs -> Seq(Update)]
    /\ joined \in [Subs -> Nat]
    /\ budget \in Budget

Init ==
    /\ rows = {} /\ sqliteSeq = 0 /\ deleted = {}
    /\ running = TRUE
    /\ tagData = [t \in Tags |-> NewTag]
    /\ wakers = {}
    /\ timer = 0
    /\ query = Asleep
    /\ ctrl = <<>>
    /\ sub = [s \in Subs |-> "new"]
    /\ parked = [s \in Subs |-> FALSE]
    /\ chan = [s \in Subs |-> <<>>]
    /\ got = [s \in Subs |-> <<>>]
    /\ joined = [s \in Subs |-> 0]
    /\ budget = [spurious |-> 0, others |-> 0, errors |-> 0, cleanups |-> 0]

-----------------------------------------------------------------------------
(* The table: what others commit (NoteTransport has the details).          *)

\* Every row there ever was.
Stored == rows \cup deleted

StoreNote(n) ==
    /\ sqliteSeq < MaxStored
    /\ ~IdTaken(rows, n)
    /\ rows' = rows \cup {[seq |-> NextSeq(rows, sqliteSeq), id |-> n, created_at |-> 0]}
    /\ sqliteSeq' = NextSeq(rows, sqliteSeq)
    /\ UNCHANGED <<deleted, manager, ctrl, clients, joined, budget>>

\* Mistake: emptying the table starts its positions over.
CleanupStartsOver ==
    /\ budget.cleanups < MaxCleanups
    /\ budget' = [budget EXCEPT !.cleanups = @ + 1]
    /\ \E gone \in SUBSET rows :
          /\ gone # {}
          /\ rows' = rows \ gone
          /\ deleted' = deleted \cup gone
          /\ sqliteSeq' = IF gone = rows THEN 0 ELSE sqliteSeq
    /\ UNCHANGED <<manager, ctrl, clients, joined>>

\* The retention task commits a DELETE.  Notes are stamped before they wait
\* for the write lock, so the rows that are too old may be any of them, the
\* newest included.
Cleanup ==
    /\ budget.cleanups < MaxCleanups
    /\ budget' = [budget EXCEPT !.cleanups = @ + 1]
    /\ \E gone \in SUBSET rows :
          /\ gone # {}
          /\ rows' = rows \ gone
          /\ deleted' = deleted \cup gone
    /\ UNCHANGED <<sqliteSeq, manager, ctrl, clients, joined>>

-----------------------------------------------------------------------------
(* The streamer's loop.                                                    *)

\* The loop goes round: a new query_updates future, with its sleep ahead.
NextRound ==
    /\ timer' = 0
    /\ query' = Asleep

Tracked == {t \in Tags : tagData[t].subs # {}}

\* Mistake: a tag that loses any subscriber is set up anew for the others.
WithoutSubsOrCursor(tags, S) ==
    [t \in Tags |-> IF tags[t].subs \cap S # {}
                    THEN [cursor |-> 0, subs |-> tags[t].subs \ S]
                    ELSE tags[t]]

\* remove_sub, for the subscriptions in S: a tag that loses its last
\* subscriber leaves the map, cursor and all.
WithoutSubs(tags, S) ==
    [t \in Tags |-> IF tags[t].subs \subseteq S
                    THEN NewTag
                    ELSE [tags[t] EXCEPT !.subs = @ \ S]]

\* Mistake: the entry of a tag that has one is replaced.
AddSubAfresh(s) ==
    /\ tagData' = [tagData EXCEPT ![SubTag[s]] = [cursor |-> @.cursor, subs |-> {s}]]
    /\ joined' = [joined EXCEPT ![s] = sqliteSeq]
    /\ UNCHANGED <<wakers, parked>>

\* add_sub: a tag without an entry gets TagData::new, cursor 0.
HandleAddSub(s) ==
    /\ tagData' = [tagData EXCEPT
                      ![SubTag[s]] = [cursor |-> @.cursor, subs |-> @.subs \cup {s}]]
    /\ joined' = [joined EXCEPT ![s] = sqliteSeq]
    /\ UNCHANGED <<wakers, parked>>

\* remove_sub drops the sender, which wakes the receiver.
HandleRemoveSub(s) ==
    /\ tagData' = WithoutSubs(tagData, {s})
    /\ parked' = [parked EXCEPT ![s] = FALSE]
    /\ UNCHANGED <<wakers, joined>>

HandleWaker(s) ==
    /\ wakers' = wakers \cup {s}
    /\ UNCHANGED <<tagData, parked, joined>>

\* A control message wins the select!: whatever query_updates was doing,
\* sleeping or reading, is dropped and starts over.
HandleControl ==
    /\ running
    /\ ctrl # <<>>
    /\ LET msg == Head(ctrl)
       IN  \/ msg.kind = "AddSub" /\ HandleAddSub(msg.sub)
           \/ msg.kind = "RemoveSub" /\ HandleRemoveSub(msg.sub)
           \/ msg.kind = "Waker" /\ HandleWaker(msg.sub)
    /\ ctrl' = Tail(ctrl)
    /\ NextRound
    /\ UNCHANGED <<table, running, sub, chan, got, budget>>

\* The same for a subscription of some other client, under some other tag.
HandleOther ==
    /\ running
    /\ EndlessOthers \/ budget.others < MaxOthers
    /\ budget' = IF EndlessOthers THEN budget ELSE [budget EXCEPT !.others = @ + 1]
    /\ NextRound
    /\ UNCHANGED <<table, running, tagData, wakers, ctrl, clients, joined>>

\* Mistake: the loop ends but the manager, and its senders, live on.
StopLoopOnly ==
    /\ running
    /\ ctrl # <<>>
    /\ Head(ctrl).kind = "Shutdown"
    /\ running' = FALSE
    /\ ctrl' = <<>>
    /\ NextRound
    /\ UNCHANGED <<table, tagData, wakers, sub, parked, chan, got, joined, budget>>

\* Shutdown ends the loop and drops the manager and both ends it holds of
\* the channels.
HandleShutdown ==
    /\ running
    /\ ctrl # <<>>
    /\ Head(ctrl).kind = "Shutdown"
    /\ running' = FALSE
    /\ tagData' = [t \in Tags |-> NewTag]
    /\ wakers' = {}
    /\ ctrl' = <<>>
    /\ parked' = [s \in Subs |-> FALSE]
    /\ NextRound
    /\ UNCHANGED <<table, sub, chan, got, joined, budget>>

Tick ==
    /\ running
    /\ ~query.reading
    /\ timer < Period
    /\ timer' = timer + 1
    /\ UNCHANGED <<table, running, tagData, wakers, query, ctrl, clients, joined, budget>>

StartQuery ==
    /\ running
    /\ ~query.reading
    /\ timer = Period
    /\ query' = [reading |-> TRUE, left |-> Tracked, updates |-> {}]
    /\ UNCHANGED <<table, running, tagData, wakers, timer, ctrl, clients, joined, budget>>

\* fetch_notes for one tag.
ReadTag(t) ==
    LET batch == Batch(rows, {t}, tagData[t].cursor)
    IN  /\ query.reading
        /\ t \in query.left
        /\ \/ /\ batch = {}
              /\ query' = [query EXCEPT !.left = @ \ {t}]
           \/ /\ batch # {}
              /\ \E m \in {r.seq : r \in batch} :
                    /\ IsResponseCursor(m, tagData[t].cursor, batch)
                    /\ query' = [query EXCEPT
                         !.left = @ \ {t},
                         !.updates = @ \cup {[tag |-> t, notes |-> batch, cursor |-> m]}]
        /\ UNCHANGED <<table, running, tagData, wakers, timer, ctrl, clients, joined, budget>>

\* Mistake: subscribers are sent updates whether they have parked or not.
AllSubscribers ==
    {s \in Subs : \E u \in query.updates :
        u.tag = SubTag[s] /\ s \in tagData[u.tag].subs}

\* The subscriptions an update is sent to: those of its tag whose waker the
\* manager holds.
Receivers ==
    {s \in wakers : \E u \in query.updates :
        u.tag = SubTag[s] /\ s \in tagData[u.tag].subs}

\* Mistake: a channel without a bound.
AcceptsAlways(s) == sub[s] # "closed"

\* try_send succeeds while the receiver lives and its channel has room.
Accepts(s) == sub[s] # "closed" /\ Len(chan[s]) < SubCap

\* Mistake: the cursors stay where they are.
UnmovedTags == tagData

\* Mistake: the cursors move to the last position there is.
AdvancedToNewest ==
    [t \in Tags |-> IF \E u \in query.updates : u.tag = t
                    THEN [tagData[t] EXCEPT !.cursor = sqliteSeq]
                    ELSE tagData[t]]

\* update_timestamps: the cursor moves on whoever receives the update.
AdvancedTags ==
    [t \in Tags |-> IF \E u \in query.updates : u.tag = t
                    THEN [tagData[t] EXCEPT
                            !.cursor = (CHOOSE u \in query.updates : u.tag = t).cursor]
                    ELSE tagData[t]]

\* Mistake: the cursors of the tags already read have moved when it fails.
FailsAfterMoving ==
    /\ query.reading
    /\ query.left # {}
    /\ budget.errors < MaxErrors
    /\ budget' = [budget EXCEPT !.errors = @ + 1]
    /\ tagData' = AdvancedTags
    /\ NextRound
    /\ UNCHANGED <<table, running, wakers, ctrl, clients, joined>>

\* A failed fetch for one tag throws away the updates of all of them.
QueryFails ==
    /\ query.reading
    /\ query.left # {}
    /\ budget.errors < MaxErrors
    /\ budget' = [budget EXCEPT !.errors = @ + 1]
    /\ NextRound
    /\ UNCHANGED <<table, running, tagData, wakers, ctrl, clients, joined>>

\* query_updates is ready: the cursors move, then the updates are forwarded,
\* and the subscriptions that took none are removed.
ForwardUpdates ==
    /\ query.reading
    /\ query.left = {}
    /\ LET evicted == {s \in Receivers : ~Accepts(s)}
       IN  /\ tagData' = WithoutSubs(AdvancedTags, evicted)
           /\ chan' = [s \in Subs |->
                         IF s \in Receivers \ evicted
                         THEN Append(chan[s], CHOOSE u \in query.updates : u.tag = SubTag[s])
                         ELSE chan[s]]
    /\ wakers' = wakers \ Receivers
    /\ parked' = [s \in Subs |-> parked[s] /\ s \notin Receivers]
    /\ NextRound
    /\ UNCHANGED <<table, running, ctrl, sub, got, joined, budget>>

-----------------------------------------------------------------------------
(* The subscriptions.                                                      *)

CanSend == running /\ Len(ctrl) < CtrlCap

\* The manager holds no sender for s, and will not get one.
SenderGone(s) ==
    /\ s \notin tagData[SubTag[s]].subs
    /\ \A i \in 1 .. Len(ctrl) :
          ctrl[i].kind = "AddSub" => ctrl[i].sub # s

\* stream_notes: the request is refused when AddSub finds no room.
OpenStream(s) ==
    /\ sub[s] = "new"
    /\ \/ /\ CanSend
          /\ ctrl' = Append(ctrl, [kind |-> "AddSub", sub |-> s])
          /\ sub' = [sub EXCEPT ![s] = "open"]
       \/ /\ ~CanSend
          /\ sub' = [sub EXCEPT ![s] = "ending"]
          /\ UNCHANGED ctrl
    /\ UNCHANGED <<table, manager, parked, chan, got, joined, budget>>

Polled(s) == sub[s] = "open" /\ ~parked[s]

\* poll_next with an update in the channel.
DeliverUpdate(s) ==
    /\ Polled(s)
    /\ chan[s] # <<>>
    /\ got' = [got EXCEPT ![s] = Append(@, Head(chan[s]))]
    /\ chan' = [chan EXCEPT ![s] = Tail(@)]
    /\ UNCHANGED <<table, manager, ctrl, sub, parked, joined, budget>>

\* Mistake: park even if the waker could not be sent.
ParkRegardless(s) ==
    /\ Polled(s)
    /\ chan[s] = <<>>
    /\ ~SenderGone(s)
    /\ ctrl' = IF CanSend THEN Append(ctrl, [kind |-> "Waker", sub |-> s]) ELSE ctrl
    /\ parked' = [parked EXCEPT ![s] = TRUE]
    /\ UNCHANGED <<table, manager, sub, chan, got, joined, budget>>

\* poll_next with an empty channel: hand over the waker and park.
Park(s) ==
    /\ Polled(s)
    /\ chan[s] = <<>>
    /\ ~SenderGone(s)
    /\ CanSend
    /\ ctrl' = Append(ctrl, [kind |-> "Waker", sub |-> s])
    /\ parked' = [parked EXCEPT ![s] = TRUE]
    /\ UNCHANGED <<table, manager, sub, chan, got, joined, budget>>

\* poll_next ends the stream: the sender is gone, or the waker finds no room
\* in the control channel.
EndStream(s) ==
    /\ Polled(s)
    /\ chan[s] = <<>>
    /\ SenderGone(s) \/ ~CanSend
    /\ sub' = [sub EXCEPT ![s] = "ending"]
    /\ UNCHANGED <<table, manager, ctrl, parked, chan, got, joined, budget>>

\* The client goes away.
Disconnect(s) ==
    /\ sub[s] = "open"
    /\ sub' = [sub EXCEPT ![s] = "ending"]
    /\ UNCHANGED <<table, manager, ctrl, parked, chan, got, joined, budget>>

\* Mistake: no Drop for Sub.
DropSilently(s) ==
    /\ sub[s] = "ending"
    /\ sub' = [sub EXCEPT ![s] = "closed"]
    /\ chan' = [chan EXCEPT ![s] = <<>>]
    /\ UNCHANGED <<table, manager, ctrl, parked, got, joined, budget>>

\* Drop for Sub: one attempt to tell the manager.
DropSub(s) ==
    /\ sub[s] = "ending"
    /\ ctrl' = IF CanSend THEN Append(ctrl, [kind |-> "RemoveSub", sub |-> s]) ELSE ctrl
    /\ sub' = [sub EXCEPT ![s] = "closed"]
    /\ chan' = [chan EXCEPT ![s] = <<>>]
    /\ UNCHANGED <<table, manager, parked, got, joined, budget>>

\* The connection wakes the task that polls s: HTTP/2 window or ping frames.
SpuriousWake(s) ==
    /\ sub[s] = "open"
    /\ parked[s]
    /\ budget.spurious < MaxSpurious
    /\ budget' = [budget EXCEPT !.spurious = @ + 1]
    /\ parked' = [parked EXCEPT ![s] = FALSE]
    /\ UNCHANGED <<table, manager, ctrl, sub, chan, got, joined>>

\* Drop for StreamerCtx: Shutdown, or abort the task if there is no room.
StopServer ==
    /\ MayStop
    /\ running
    /\ \A i \in 1 .. Len(ctrl) : ctrl[i].kind # "Shutdown"
    /\ \/ /\ CanSend
          /\ ctrl' = Append(ctrl, [kind |-> "Shutdown"])
          /\ UNCHANGED <<manager, parked>>
       \/ /\ ~CanSend
          /\ running' = FALSE
          /\ tagData' = [t \in Tags |-> NewTag]
          /\ wakers' = {}
          /\ ctrl' = <<>>
          /\ parked' = [s \in Subs |-> FALSE]
          /\ NextRound
    /\ UNCHANGED <<table, sub, chan, got, joined, budget>>

-----------------------------------------------------------------------------
StreamerStep ==
    \/ HandleControl
    \/ HandleShutdown
    \/ Tick
    \/ StartQuery
    \/ \E t \in Tags : ReadTag(t)
    \/ ForwardUpdates

SubStep(s) ==
    \/ DeliverUpdate(s)
    \/ Park(s)
    \/ EndStream(s)
    \/ DropSub(s)

Next ==
    \/ \E n \in Notes : StoreNote(n)
    \/ Cleanup
    \/ StreamerStep
    \/ HandleOther
    \/ QueryFails
    \/ StopServer
    \/ \E s \in Subs : OpenStream(s) \/ SubStep(s) \/ Disconnect(s) \/ SpuriousWake(s)

Spec == Init /\ [][Next]_vars

\* The loop runs when something is ready, and select! takes a ready control
\* message sooner or later; tokio polls a woken task.
Fairness ==
    /\ WF_vars(HandleControl)
    /\ WF_vars(HandleShutdown)
    /\ WF_vars(Tick)
    /\ WF_vars(StartQuery)
    /\ \A t \in Tags : WF_vars(ReadTag(t))
    /\ WF_vars(ForwardUpdates)
    /\ \A s \in Subs : WF_vars(SubStep(s))

FairSpec == Spec /\ Fairness

-----------------------------------------------------------------------------
(* Safety.                                                                 *)

\* What s delivered and what waits in its channel, in order.
Stream(s) == got[s] \o chan[s]

\* A subscription carries each note at most once and in the order of `seq`,
\* through dropped queries, failed reads, and other subscribers of its tag
\* that come and go.
InOrderOnce ==
    \A s \in Subs : \A i, j \in 1 .. Len(Stream(s)) :
        i < j => \A q \in Stream(s)[i].notes, r \in Stream(s)[j].notes : q.seq < r.seq

Count(s, kind) == Cardinality({i \in 1 .. Len(ctrl) :
                      ctrl[i].kind = kind /\ ctrl[i].sub = s})

\* Every update costs a waker, so a channel never holds more updates than all the
\* polls without cause there were, plus one: while tasks are polled only when they
\* are woken, nobody is removed for backpressure.
OneUpdatePerWaker ==
    \A s \in Subs :
        Len(chan[s]) + Count(s, "Waker") + (IF s \in wakers THEN 1 ELSE 0)
            <= 1 + budget.spurious

\* A parked subscription is never forgotten: its waker is on its way or in
\* the manager's map, or it is already being woken.
ParkedIsKnown ==
    \A s \in Subs :
        (sub[s] = "open" /\ parked[s]) =>
            /\ Count(s, "Waker") > 0 \/ s \in wakers
            /\ ~SenderGone(s)

\* A note that is stored is ahead of the cursor of every tag, and of every
\* query that is under way, whatever was deleted before it: the streamer will
\* find it.
NewNotesAreAhead ==
    [][\A r \in rows' \ rows :
           /\ \A t \in Tags : tagData[t].cursor < r.seq
           /\ \A u \in query.updates : u.cursor < r.seq]_vars

\* A subscription misses nothing while the manager holds its waker: when the
\* cursor of its tag passes a note, the note goes into its stream.  (Notes that
\* come while it has no waker there are those that CursorWasForwarded loses.)
WaitingMissNothing ==
    [][\A s \in wakers :
          LET t == SubTag[s]
          IN  s \in tagData[t].subs /\ s \in tagData'[t].subs =>
                  \A r \in rows :
                      /\ TagOf[r.id] = t
                      /\ tagData[t].cursor < r.seq
                      /\ r.seq <= tagData'[t].cursor
                      => \E i \in 1 .. Len(Stream(s)') : r \in Stream(s)'[i].notes]_vars

\* The cursor of a tag is "the largest `seq` of notes already forwarded to
\* subscribers": a subscriber of the tag was sent every note up to there that
\* was stored while it was subscribed.
CursorWasForwarded ==
    \A s \in Subs :
        LET t == SubTag[s]
        IN  (s \in tagData[t].subs /\ sub[s] = "open") =>
                \A r \in rows :
                    (TagOf[r.id] = t /\ joined[s] < r.seq /\ r.seq <= tagData[t].cursor)
                        => \E i \in 1 .. Len(Stream(s)) : r \in Stream(s)[i].notes

-----------------------------------------------------------------------------
(* Liveness.                                                               *)

\* n is in the next batch of a subscription whose waker the manager holds.  An
\* update that was read before n was stored would use up the waker, and n be
\* passed over like any note that finds no waker.
IsWaitedFor(n, s) ==
    LET t == SubTag[s]
    IN  /\ sub[s] = "open"
        /\ s \in wakers
        /\ s \in tagData[t].subs
        /\ \E r \in Batch(rows, {t}, tagData[t].cursor) :
              /\ r.id = n
              /\ \A u \in query.updates : u.tag = t => r \in u.notes

\* A note that a subscription waits for stays the next it gets, whoever else
\* comes and goes, until it is in its stream; only a subscription whose channel
\* is full is given up.
WaitsUntilSent ==
    [][\A s \in Subs : \A n \in Notes :
          IsWaitedFor(n, s) =>
              \/ IsWaitedFor(n, s)'
              \/ \E i \in 1 .. Len(Stream(s)') : \E r \in Stream(s)'[i].notes : r.id = n
              \/ ~Accepts(s)
              \/ sub'[s] # "open"
              \/ ~running'
              \/ ~IdTaken(rows', n)]_vars

\* A note stored for a subscription that waits is delivered to it, if it is not
\* deleted first.
WaitingIsServed ==
    \A s \in Subs : \A n \in Notes :
        IsWaitedFor(n, s) ~>
            \/ sub[s] # "open"
            \/ ~running
            \/ \A r \in rows : r.id # n
            \/ \E i \in 1 .. Len(got[s]) : \E r \in got[s][i].notes : r.id = n

\* A subscription whose client is gone leaves the manager for good.
ClosedIsRemoved ==
    \A s \in Subs :
        sub[s] = "closed" ~> [](s \notin tagData[SubTag[s]].subs)

\* When the streamer has stopped every stream comes to its end.
StopEndsStreams ==
    \A s \in Subs : (~running /\ sub[s] = "open") ~> sub[s] = "closed"

-----------------------------------------------------------------------------
(* The feed that StreamNotes implements.                                   *)

RowPosition(r) == r.seq
RowIsFor(r, s) == TagOf[r.id] = SubTag[s]

Feed == INSTANCE NoteFeed WITH
    Subscribers <- Subs,
    Position    <- RowPosition,
    IsFor       <- RowIsFor,
    posted      <- Stored,
    expired     <- deleted,
    delivered   <- [s \in Subs |-> [i \in 1 .. Len(got[s]) |-> got[s][i].notes]],
    ended       <- [s \in Subs |-> sub[s] \in {"ending", "closed"}]

\* The streamer and its subscriptions implement the feed: whatever queries are
\* dropped, subscribers evicted and tags forgotten and found again, a stream
\* delivers stretches of its tag's notes, unbroken but for deleted ones, each
\* after the one before,
\* and nothing once it has ended.
ImplementsFeed == Feed!Spec
=============================================================================
