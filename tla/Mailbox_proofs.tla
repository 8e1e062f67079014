--------------------------- MODULE Mailbox_proofs ---------------------------
(* What the mailbox promises, whoever implements it.                       *)
EXTENDS Mailbox, TLAPS

\* Positions are natural numbers, and a reader's is 0 or that of a message
\* that was posted: a message posted from now on comes after it.
PositionsBounded ==
    /\ \A m \in posted : Position(m) \in Nat \ {0}
    /\ position \in [Readers -> {0} \cup {Position(m) : m \in posted}]
    /\ inHand \in [Readers -> SUBSET posted]

MInv == PositionsBounded /\ NothingSkipped

\* An empty mailbox satisfies the invariant.
LEMMA MInvInit == Init => MInv
BY DEF Init, MInv, PositionsBounded, NothingSkipped, Kept

\* A new message comes after every position, so no reader is past it.
LEMMA PostStep ==
    ASSUME MInv, Post
    PROVE  MInv'
PROOF
<1>1. PICK m \in posted' \ posted :
          /\ posted' = posted \cup {m}
          /\ Position(m) \in Nat \ {0}
          /\ \A p \in posted : Position(p) < Position(m)
  BY DEF Post
<1>2. UNCHANGED <<expired, position, inHand>>
  BY DEF Post
<1>3. PositionsBounded'
  BY <1>1, <1>2 DEF MInv, PositionsBounded
<1>4. \A c \in Readers : ~(Position(m) <= position[c])
  <2> SUFFICES ASSUME NEW c \in Readers PROVE ~(Position(m) <= position[c])
    OBVIOUS
  <2>1. position[c] \in {0} \cup {Position(p) : p \in posted}
    BY DEF MInv, PositionsBounded
  <2> QED BY <1>1, <2>1 DEF MInv, PositionsBounded
<1>5. NothingSkipped'
  BY <1>1, <1>2, <1>4 DEF MInv, NothingSkipped, Kept
<1> QED BY <1>3, <1>5 DEF MInv

\* Expiry only takes messages out of the claims on a reader.
LEMMA ExpireStep ==
    ASSUME MInv, Expire
    PROVE  MInv'
BY DEF MInv, Expire, PositionsBounded, NothingSkipped, Kept

\* Picking up messages only adds to what a reader holds.
LEMMA PickUpStep ==
    ASSUME MInv, NEW c \in Readers, PickUp(c)
    PROVE  MInv'
PROOF
<1>1. PICK M \in {inHand'[c]} :
          /\ inHand[c] \subseteq M
          /\ \A m \in M \ inHand[c] : m \in posted /\ IsFor(m, c)
          /\ inHand' = [inHand EXCEPT ![c] = M]
  BY DEF PickUp
<1>2. UNCHANGED <<posted, expired, position>>
  BY DEF PickUp
<1>3. M \subseteq posted
  BY <1>1 DEF MInv, PositionsBounded
<1>4. PositionsBounded'
  BY <1>1, <1>2, <1>3 DEF MInv, PositionsBounded
<1>5. NothingSkipped'
  BY <1>1, <1>2 DEF MInv, PositionsBounded, NothingSkipped, Kept
<1> QED BY <1>4, <1>5 DEF MInv

\* A reader moves only over messages it holds or has no claim on.
LEMMA MoveStep ==
    ASSUME MInv, NEW c \in Readers, Move(c)
    PROVE  MInv'
PROOF
<1>1. PICK p \in {0} \cup {Position(m) : m \in posted} :
          /\ \A m \in Kept : IsFor(m, c) /\ Position(m) <= p => m \in inHand[c]
          /\ position' = [position EXCEPT ![c] = p]
  BY DEF Move
<1>2. UNCHANGED <<posted, expired, inHand>>
  BY DEF Move
<1>3. PositionsBounded'
  BY <1>1, <1>2 DEF MInv, PositionsBounded
<1>4. NothingSkipped'
  BY <1>1, <1>2 DEF MInv, PositionsBounded, NothingSkipped, Kept
<1> QED BY <1>3, <1>4 DEF MInv

\* A mailbox never lets a reader past a kept message of its own that it does
\* not hold: what a client may rely on once it persists only returned cursors.
THEOREM MailboxSkipsNothing == Spec => []NothingSkipped
PROOF
<1>1. MInv /\ [Next]_mailboxVars => MInv'
  <2>1. ASSUME MInv, Next PROVE MInv'
    BY <2>1, PostStep, ExpireStep, PickUpStep, MoveStep DEF Next
  <2>2. ASSUME MInv, UNCHANGED mailboxVars PROVE MInv'
    BY <2>2 DEF mailboxVars, MInv, PositionsBounded, NothingSkipped, Kept
  <2> QED BY <2>1, <2>2
<1>2. MInv => NothingSkipped
  BY DEF MInv
<1> QED BY <1>1, <1>2, MInvInit, PTL DEF Spec
=============================================================================
