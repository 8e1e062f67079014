------------------------------ MODULE Mailbox ------------------------------
(***************************************************************************)
(* What the transport service promises a polling client, with no tables,   *)
(* pools or requests: a mailbox that messages are posted to in one order,  *)
(* expire from, and are picked up from by readers.  A reader has a         *)
(* position in the order and a set of messages in hand.  It moves its      *)
(* position over a message only when it has that message in hand, or has   *)
(* no claim on it, or the message has expired.                             *)
(***************************************************************************)
EXTENDS Integers

CONSTANTS
    Readers,
    Position(_),     \* the place of a message in the order
    IsFor(_, _)      \* IsFor(m, c): reader c has a claim on message m

VARIABLES
    posted,      \* every message ever posted
    expired,     \* those that are no longer kept
    position,    \* how far each reader has read
    inHand       \* what each reader has picked up

mailboxVars == <<posted, expired, position, inHand>>

Kept == posted \ expired

Init ==
    /\ posted = {}
    /\ expired = {}
    /\ position = [c \in Readers |-> 0]
    /\ inHand = [c \in Readers |-> {}]

\* A new message comes after all the earlier ones.
Post ==
    /\ \E m \in posted' \ posted :
          /\ posted' = posted \cup {m}
          /\ Position(m) \in Nat \ {0}
          /\ \A p \in posted : Position(p) < Position(m)
    /\ UNCHANGED <<expired, position, inHand>>

Expire ==
    /\ expired \subseteq expired'
    /\ expired' \subseteq posted
    /\ UNCHANGED <<posted, position, inHand>>

\* Readers pick up messages that were posted and that they have a claim on.
PickUp(c) ==
    /\ \E M \in {inHand'[c]} :
          /\ inHand[c] \subseteq M
          /\ \A m \in M \ inHand[c] : m \in posted /\ IsFor(m, c)
          /\ inHand' = [inHand EXCEPT ![c] = M]
    /\ UNCHANGED <<posted, expired, position>>

\* A position is 0 or that of a message, and everything kept up to there that
\* the reader has a claim on is in its hands.
Move(c) ==
    /\ \E p \in {0} \cup {Position(m) : m \in posted} :
          /\ \A m \in Kept : IsFor(m, c) /\ Position(m) <= p => m \in inHand[c]
          /\ position' = [position EXCEPT ![c] = p]
    /\ UNCHANGED <<posted, expired, inHand>>

Next ==
    \/ Post
    \/ Expire
    \/ \E c \in Readers : PickUp(c) \/ Move(c)

Spec == Init /\ [][Next]_mailboxVars

-----------------------------------------------------------------------------
\* No reader is ever past a kept message it has a claim on and does not hold.
NothingSkipped ==
    \A c \in Readers : \A m \in Kept :
        IsFor(m, c) /\ Position(m) <= position[c] => m \in inHand[c]
=============================================================================
