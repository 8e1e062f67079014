--------------------------- MODULE NoteFeed_proofs ---------------------------
(* What the feed promises a subscriber, whoever implements it.             *)
EXTENDS NoteFeed, SequenceTheorems, TLAPS

\* Positions are natural numbers, and batches are of messages that were posted.
FeedTyped ==
    /\ \A m \in posted : Position(m) \in Nat \ {0}
    /\ expired \subseteq posted
    /\ delivered \in [Subscribers -> Seq(SUBSET posted)]

FInv == FeedTyped /\ DeliveredInOrder /\ NoGapInBatch

\* An empty log has nothing to deliver.
LEMMA FInvInit == Init => FInv
BY EmptySeq DEF Init, FInv, FeedTyped, DeliveredInOrder, NoGapInBatch

\* A sequence of sets stays one when there is more to take them from.
LEMMA SeqGrows ==
    ASSUME NEW S, NEW T, S \subseteq T, NEW q \in Seq(SUBSET S)
    PROVE  q \in Seq(SUBSET T)
BY ElementOfSeq, SeqDef

\* A new message lies beyond every batch.
LEMMA PostStep ==
    ASSUME FInv, Post
    PROVE  FInv'
PROOF
<1>1. PICK m \in posted' \ posted :
          /\ posted' = posted \cup {m}
          /\ Position(m) \in Nat \ {0}
          /\ \A p \in posted : Position(p) < Position(m)
  BY DEF Post
<1>2. UNCHANGED <<expired, delivered, ended>>
  BY DEF Post
<1>3. FeedTyped'
  <2>1. posted \subseteq posted'
    BY <1>1
  <2>2. \A s \in Subscribers : delivered[s] \in Seq(SUBSET posted')
    BY <2>1, SeqGrows DEF FInv, FeedTyped
  <2> QED BY <1>1, <1>2, <2>1, <2>2 DEF FInv, FeedTyped
<1>4. DeliveredInOrder'
  BY <1>1, <1>2 DEF FInv, DeliveredInOrder
<1>5. NoGapInBatch'
  <2> SUFFICES ASSUME NEW s \in Subscribers, NEW k \in 1 .. Len(delivered[s]),
                      NEW d \in delivered[s][k], NEW e \in delivered[s][k],
                      NEW q \in posted' \ expired, IsFor(q, s),
                      Position(d) < Position(q), Position(q) < Position(e)
               PROVE  q \in delivered[s][k]
    BY <1>2 DEF NoGapInBatch
  <2>1. e \in posted
    BY DEF FInv, DeliveredInOrder
  <2>2. q # m
    BY <1>1, <2>1 DEF FInv, FeedTyped
  <2> QED BY <1>1, <2>2 DEF FInv, NoGapInBatch
<1> QED BY <1>3, <1>4, <1>5 DEF FInv

\* Expiry touches no batch, and leaves fewer messages that it might lack.
LEMMA ExpireStep ==
    ASSUME FInv, Expire
    PROVE  FInv'
BY DEF FInv, Expire, FeedTyped, DeliveredInOrder, NoGapInBatch

\* A batch that is delivered is an unbroken stretch and comes after the others.
LEMMA DeliverStep ==
    ASSUME FInv, NEW s \in Subscribers, Deliver(s)
    PROVE  FInv'
PROOF
<1>1. PICK i \in {0} \cup {Position(m) : m \in posted},
           j \in {0} \cup {Position(m) : m \in posted}, missed \in SUBSET expired :
          LET batch == Stretch(s, i, j) \ missed
          IN  /\ \A m \in batch : IsNewTo(s, m)
              /\ delivered' = [delivered EXCEPT ![s] = Append(@, batch)]
  BY DEF Deliver
<1> DEFINE batch == Stretch(s, i, j) \ missed
           n == Len(delivered[s])
<1>2. UNCHANGED <<posted, expired, ended>>
  BY DEF Deliver
<1>3. /\ delivered \in [Subscribers -> Seq(SUBSET posted)] /\ n \in Nat
      /\ i \in Nat /\ j \in Nat /\ \A m \in posted : Position(m) \in Nat
  BY DEF FInv, FeedTyped
<1>4. batch \in SUBSET posted /\ \A m \in batch : IsFor(m, s)
  BY DEF Stretch
<1>5. \A m \in batch : \A k \in 1 .. n : \A d \in delivered[s][k] : Position(d) < Position(m)
  BY <1>1 DEF IsNewTo
<1>6. \A d, e \in batch : \A m \in posted \ expired :
          IsFor(m, s) /\ Position(d) < Position(m) /\ Position(m) < Position(e) => m \in batch
  BY <1>3 DEF Stretch
<1>7. /\ delivered' \in [Subscribers -> Seq(SUBSET posted)]
      /\ delivered'[s] = Append(delivered[s], batch)
      /\ \A t \in Subscribers : t # s => delivered'[t] = delivered[t]
  BY <1>1, <1>3, <1>4
<1> HIDE DEF batch
<1>8. /\ Len(delivered'[s]) = n + 1
      /\ \A k \in 1 .. n : delivered'[s][k] = delivered[s][k]
      /\ delivered'[s][n + 1] = batch
  BY <1>3, <1>4, <1>7
<1> HIDE DEF n
<1>9. FeedTyped'
  BY <1>2, <1>7 DEF FInv, FeedTyped
<1>10. DeliveredInOrder'
  <2> SUFFICES ASSUME NEW t \in Subscribers, NEW k \in 1 .. Len(delivered'[t]),
                      NEW d \in delivered'[t][k]
               PROVE  /\ d \in posted /\ IsFor(d, t)
                      /\ \A l \in 1 .. Len(delivered'[t]) : k < l =>
                            \A e \in delivered'[t][l] : Position(d) < Position(e)
    BY <1>2 DEF DeliveredInOrder
  <2>1. CASE t # s
    BY <1>7, <2>1 DEF FInv, DeliveredInOrder
  <2>2. CASE t = s /\ k = n + 1
    BY <1>3, <1>4, <1>8, <2>2
  <2>3. CASE t = s /\ k # n + 1
    <3>1. k \in 1 .. n /\ d \in delivered[s][k]
      BY <1>3, <1>8, <2>3
    <3>2. d \in posted /\ IsFor(d, s)
      BY <3>1 DEF FInv, DeliveredInOrder, n
    <3>3. ASSUME NEW l \in 1 .. n + 1, k < l, NEW e \in delivered'[s][l]
          PROVE  Position(d) < Position(e)
      <4>1. CASE l = n + 1
        BY <1>5, <1>8, <3>1, <3>3, <4>1
      <4>2. CASE l # n + 1
        <5>1. l \in 1 .. n /\ e \in delivered[s][l]
          BY <1>3, <1>8, <3>3, <4>2
        <5> QED BY <3>1, <3>3, <5>1 DEF FInv, DeliveredInOrder, n
      <4> QED BY <4>1, <4>2
    <3> QED BY <1>8, <2>3, <3>2, <3>3
  <2> QED BY <2>1, <2>2, <2>3
<1>11. NoGapInBatch'
  <2> SUFFICES ASSUME NEW t \in Subscribers, NEW k \in 1 .. Len(delivered'[t]),
                      NEW d \in delivered'[t][k], NEW e \in delivered'[t][k],
                      NEW m \in posted \ expired, IsFor(m, t),
                      Position(d) < Position(m), Position(m) < Position(e)
               PROVE  m \in delivered'[t][k]
    BY <1>2 DEF NoGapInBatch
  <2>1. CASE t # s
    BY <1>7, <2>1 DEF FInv, NoGapInBatch
  <2>2. CASE t = s /\ k = n + 1
    BY <1>6, <1>8, <2>2
  <2>3. CASE t = s /\ k # n + 1
    <3>1. k \in 1 .. n
      BY <1>3, <1>8, <2>3
    <3> QED BY <1>8, <2>3, <3>1 DEF FInv, NoGapInBatch, n
  <2> QED BY <2>1, <2>2, <2>3
<1> QED BY <1>9, <1>10, <1>11 DEF FInv

\* A feed delivers in order, only what its subscriber may have, and without a gap
\* inside a batch: what a client may rely on between two updates and within one.
THEOREM FeedKeepsOrder == Spec => [](DeliveredInOrder /\ NoGapInBatch)
<1>1. FInv /\ [Next]_feedVars => FInv'
  <2>1. ASSUME FInv, NEW s \in Subscribers, End(s) PROVE FInv'
    BY <2>1 DEF End, FInv, FeedTyped, DeliveredInOrder, NoGapInBatch
  <2>2. ASSUME FInv, UNCHANGED feedVars PROVE FInv'
    BY <2>2 DEF feedVars, FInv, FeedTyped, DeliveredInOrder, NoGapInBatch
  <2> QED BY <2>1, <2>2, PostStep, ExpireStep, DeliverStep DEF Next
<1>2. FInv => DeliveredInOrder /\ NoGapInBatch
  BY DEF FInv
<1> QED BY <1>1, <1>2, FInvInit, PTL DEF Spec
=============================================================================
