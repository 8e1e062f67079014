------------------------------ MODULE NoteFeed ------------------------------
(***************************************************************************)
(* What StreamNotes gives a subscriber, with no streamer, channels or      *)
(* wakers: a log of messages that are posted in one order, and for each    *)
(* subscriber a sequence of batches from it.  A batch is a run of the      *)
(* messages the subscriber has a claim on, with none left out but such as  *)
(* have expired, and comes after everything delivered to it before.        *)
(* Between two batches messages may be missing.  A feed that has ended     *)
(* stays ended.                                                            *)
(***************************************************************************)
EXTENDS Integers, Sequences

CONSTANTS
    Subscribers,
    Position(_),     \* the place of a message in the order
    IsFor(_, _)      \* IsFor(m, s): subscriber s has a claim on message m

VARIABLES
    posted,      \* every message ever posted
    expired,     \* those that are no longer kept
    delivered,   \* the batches each subscriber was given
    ended        \* whether its feed is over

feedVars == <<posted, expired, delivered, ended>>

Init ==
    /\ posted = {}
    /\ expired = {}
    /\ delivered = [s \in Subscribers |-> <<>>]
    /\ ended = [s \in Subscribers |-> FALSE]

\* A new message comes after all the earlier ones.
Post ==
    /\ \E m \in posted' \ posted :
          /\ posted' = posted \cup {m}
          /\ Position(m) \in Nat \ {0}
          /\ \A p \in posted : Position(p) < Position(m)
    /\ UNCHANGED <<expired, delivered, ended>>

Expire ==
    /\ expired' \subseteq posted
    /\ expired \subseteq expired'
    /\ UNCHANGED <<posted, delivered, ended>>

\* The messages s has a claim on after position i and up to position j.
Stretch(s, i, j) ==
    {m \in posted : IsFor(m, s) /\ i < Position(m) /\ Position(m) <= j}

IsNewTo(s, m) ==
    \A k \in 1 .. Len(delivered[s]) : \A d \in delivered[s][k] :
        Position(d) < Position(m)

\* Position 0 is before every message.
Deliver(s) ==
    /\ ~ended[s]
    /\ \E i, j \in {0} \cup {Position(m) : m \in posted}, missed \in SUBSET expired :
          LET batch == Stretch(s, i, j) \ missed
          IN  /\ batch # {}
              /\ \A m \in batch : IsNewTo(s, m)
              /\ delivered' = [delivered EXCEPT ![s] = Append(@, batch)]
    /\ UNCHANGED <<posted, expired, ended>>

End(s) ==
    /\ ended' = [ended EXCEPT ![s] = TRUE]
    /\ UNCHANGED <<posted, expired, delivered>>

Next ==
    \/ Post
    \/ Expire
    \/ \E s \in Subscribers : Deliver(s) \/ End(s)

Spec == Init /\ [][Next]_feedVars

-----------------------------------------------------------------------------
\* Batches hold messages that were posted and that the subscriber has a claim on,
\* and come in the order of the messages, none of them twice.
DeliveredInOrder ==
    \A s \in Subscribers : \A k \in 1 .. Len(delivered[s]) :
        \A d \in delivered[s][k] :
            /\ d \in posted /\ IsFor(d, s)
            /\ \A l \in 1 .. Len(delivered[s]) : k < l =>
                  \A e \in delivered[s][l] : Position(d) < Position(e)

\* A batch has no gaps: what lies between two messages of it, and is kept, and is
\* the subscriber's, is in it as well.
NoGapInBatch ==
    \A s \in Subscribers : \A k \in 1 .. Len(delivered[s]) :
        \A d, e \in delivered[s][k] : \A m \in posted \ expired :
            IsFor(m, s) /\ Position(d) < Position(m) /\ Position(m) < Position(e)
                => m \in delivered[s][k]
=============================================================================
