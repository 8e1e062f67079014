--------------------------- MODULE Streamer_proofs ---------------------------
(***************************************************************************)
(* Theorems about Streamer, for every set of notes, tags and subscriptions *)
(* and every capacity, period and bound.                                   *)
(***************************************************************************)
EXTENDS Streamer, NoteTable_proofs, SequenceTheorems

\* The messages of kind k that s has in the control channel.
Sent(s, k) == {i \in 1 .. Len(ctrl) : ctrl[i].kind = k /\ ctrl[i].sub = s}

Subscribed(s) == s \in tagData[SubTag[s]].subs

\* No row there ever was lies above the last position, which is within bounds.
TableInv ==
    /\ IsFiniteSet(rows) /\ sqliteSeq <= MaxStored
    /\ \A r \in Stored : r.seq > 0 /\ r.seq <= sqliteSeq

Positions == {0} \cup {r.seq : r \in Stored}

CursorsStored == \A t \in Tags : tagData[t].cursor \in Positions

IsBetween(r, t, p, c) == TagOf[r.id] = t /\ p < r.seq /\ r.seq <= c

\* u is a stretch of its tag's notes after position p and up to its cursor:
\* all that are kept, and of the others some.
IsStretch(kept, all, u, p) ==
    /\ \A r \in kept : IsBetween(r, u.tag, p, u.cursor) => r \in u.notes
    /\ \A r \in u.notes : r \in all /\ IsBetween(r, u.tag, p, u.cursor)
    /\ \E r \in u.notes : r.seq = u.cursor

\* A query has read, for each tag it is done with, the stretch after its cursor.
QueryInv ==
    /\ \A u \in query.updates : IsStretch(rows, Stored, u, tagData[u.tag].cursor) /\ u.tag \notin query.left
    /\ \A u, v \in query.updates : u.tag = v.tag => u = v

\* What a subscription was sent is a stretch of its tag's notes, and none of it
\* is above the cursor that the next one will start from.
StreamInv ==
    \A s \in Subs : \A i \in 1 .. Len(Stream(s)) :
        LET u == Stream(s)[i]
        IN  /\ u.tag = SubTag[s]
            /\ \E p \in Positions : IsStretch(rows, Stored, u, p)
            /\ Subscribed(s) => u.cursor <= tagData[SubTag[s]].cursor

\* The updates and wakers of a subscription, all told.
Held(s) == IF s \in wakers THEN 1 ELSE 0
Load(s) == Len(chan[s]) + Count(s, "Waker") + Held(s)

\* A subscription begins with one AddSub, and nothing is sent to it before the
\* manager has seen that; after its RemoveSub it asks for nothing.
MessageInv(s) ==
    /\ sub[s] = "new" => /\ ~Subscribed(s) /\ ~parked[s] /\ s \notin wakers
                         /\ Stream(s) = <<>>
                         /\ Count(s, "AddSub") = 0 /\ Count(s, "Waker") = 0
    /\ Count(s, "AddSub") > 0 => ~Subscribed(s) /\ Stream(s) = <<>>
    /\ Count(s, "AddSub") <= 1
    /\ Count(s, "RemoveSub") > 0 => sub[s] = "closed"

\* A subscription that is about to park has used up every waker it has sent,
\* but for those of polls without cause.
LoadInv(s) ==
    /\ Load(s) <= 1 + budget.spurious
    /\ (Polled(s) /\ chan[s] = <<>> /\ ~SenderGone(s)) => Load(s) <= budget.spurious

\* A parked one has a waker on its way or in the map.
ParkedInv(s) ==
    (sub[s] = "open" /\ parked[s]) =>
        /\ Count(s, "Waker") > 0 \/ s \in wakers
        /\ ~SenderGone(s)

SubInv(s) == MessageInv(s) /\ LoadInv(s) /\ ParkedInv(s)

IInv ==
    /\ TypeOK /\ TableInv /\ CursorsStored /\ QueryInv /\ StreamInv
    /\ InOrderOnce /\ \A s \in Subs : SubInv(s)

-----------------------------------------------------------------------------
(* The table.                                                              *)

\* A row's position, and a tag's, is below the threshold for legacy cursors.
LEMMA PositionsBounded ==
    ASSUME TypeOK, TableInv
    PROVE  /\ sqliteSeq \in Nat /\ sqliteSeq <= LegacyThreshold
           /\ \A p \in Positions : p \in Nat /\ p <= sqliteSeq /\ EffectiveCursor(p) = p
PROOF
<1>1. sqliteSeq \in Nat /\ sqliteSeq <= LegacyThreshold
  BY ThresholdAssumption, LegacyAssumption DEF TypeOK, TableInv
<1>2. \A p \in Positions : p \in Nat /\ p <= sqliteSeq
  BY <1>1 DEF Positions, Stored, TypeOK, TableInv, Row
<1> QED BY <1>1, <1>2, LegacyAssumption DEF EffectiveCursor

\* What others do to the table.
TableStep == Cleanup \/ \E n \in Notes : StoreNote(n)

\* A note is stored after all there ever were, and none is forgotten.
LEMMA TableStepIs ==
    ASSUME TypeOK, TableInv, TableStep
    PROVE  /\ TableInv' /\ rows' \in SUBSET Row /\ sqliteSeq' \in Nat /\ deleted' \in SUBSET Row
           /\ Stored \subseteq Stored' /\ Positions \subseteq Positions'
           /\ \A r \in rows' : r \in rows \/ r.seq = sqliteSeq + 1
           /\ UNCHANGED <<running, tagData, wakers, timer, query, ctrl, sub, parked, chan, got, joined>>
           /\ budget' \in Budget /\ budget'.spurious = budget.spurious
PROOF
<1>1. ASSUME NEW n \in Notes, StoreNote(n)
      PROVE  /\ TableInv' /\ rows' \in SUBSET Row /\ sqliteSeq' \in Nat /\ deleted' \in SUBSET Row
             /\ Stored \subseteq Stored'
             /\ \A r \in rows' : r \in rows \/ r.seq = sqliteSeq + 1
  <2> DEFINE new == [seq |-> sqliteSeq + 1, id |-> n, created_at |-> 0]
  <2>1. /\ rows' = rows \cup {new} /\ sqliteSeq' = sqliteSeq + 1 /\ deleted' = deleted
        /\ sqliteSeq < MaxStored
    BY <1>1 DEF StoreNote, NextSeq
  <2>2. new \in Row /\ new.seq = sqliteSeq + 1
    BY DEF TypeOK, Row
  <2> HIDE DEF new
  <2>3. \A r \in Stored : r.seq \in Nat /\ r.seq > 0 /\ r.seq <= sqliteSeq
    BY DEF TypeOK, TableInv, Row, Stored
  <2>4. IsFiniteSet(rows')
    BY <2>1, FS_AddElement DEF TableInv
  <2>5. Stored' = Stored \cup {new}
    BY <2>1 DEF Stored
  <2>6. sqliteSeq \in Nat /\ sqliteSeq' <= MaxStored
    BY <2>1, ThresholdAssumption DEF TypeOK
  <2>7. \A r \in Stored' : r.seq > 0 /\ r.seq <= sqliteSeq'
    BY <2>1, <2>2, <2>3, <2>5, <2>6
  <2> QED BY <2>1, <2>2, <2>4, <2>5, <2>6, <2>7 DEF TableInv, TypeOK
<1>2. ASSUME Cleanup
      PROVE  /\ TableInv' /\ rows' \in SUBSET Row /\ sqliteSeq' \in Nat /\ deleted' \in SUBSET Row
             /\ Stored' = Stored /\ rows' \subseteq rows
  <2>1. PICK gone \in SUBSET rows :
            rows' = rows \ gone /\ deleted' = deleted \cup gone /\ sqliteSeq' = sqliteSeq
    BY <1>2 DEF Cleanup
  <2>2. Stored' = Stored /\ rows' \subseteq rows
    BY <2>1 DEF Stored
  <2>3. IsFiniteSet(rows')
    BY <2>2, FS_Subset DEF TableInv
  <2> QED BY <2>1, <2>2, <2>3 DEF TableInv, TypeOK
<1>3. Stored \subseteq Stored' => Positions \subseteq Positions'
  BY DEF Positions
<1>4. UNCHANGED <<running, tagData, wakers, timer, query, ctrl, sub, parked, chan, got, joined>>
  BY DEF TableStep, StoreNote, Cleanup, manager, clients
<1>5. budget' \in Budget /\ budget'.spurious = budget.spurious
  <2>1. budget \in Budget
    BY DEF TypeOK
  <2>2. budget' = budget \/ budget' = [budget EXCEPT !.cleanups = @ + 1]
    BY DEF TableStep, StoreNote, Cleanup
  <2> QED BY <2>1, <2>2 DEF Budget
<1> QED BY <1>1, <1>2, <1>3, <1>4, <1>5 DEF TableStep

-----------------------------------------------------------------------------
(* Streams.                                                                *)

LEMMA ClientTypes ==
    ASSUME TypeOK
    PROVE  got \in [Subs -> Seq(Update)] /\ chan \in [Subs -> Seq(Update)]
BY DEF TypeOK

\* What was delivered comes first in a stream, then what waits.
LEMMA StreamIs ==
    ASSUME TypeOK, NEW s \in Subs
    PROVE  /\ Stream(s) \in Seq(Update) /\ Len(Stream(s)) \in Nat
           /\ Len(Stream(s)) = Len(got[s]) + Len(chan[s])
           /\ \A i \in 1 .. Len(Stream(s)) :
                 Stream(s)[i] = IF i <= Len(got[s]) THEN got[s][i]
                                ELSE chan[s][i - Len(got[s])]
BY ClientTypes, ConcatProperties DEF Stream

\* The stream of s after a step is a prefix of what it was.
IsPrefixed(s) ==
    /\ Len(Stream(s)') <= Len(Stream(s))
    /\ \A i \in 1 .. Len(Stream(s)') : Stream(s)'[i] = Stream(s)[i]

LEMMA StreamKept ==
    ASSUME TypeOK, NEW s \in Subs, got'[s] = got[s], chan'[s] = chan[s]
    PROVE  Stream(s)' = Stream(s) /\ IsPrefixed(s)
PROOF
<1>1. Stream(s)' = Stream(s)
  BY DEF Stream
<1>2. Len(Stream(s)) \in Nat
  BY StreamIs
<1> QED BY <1>1, <1>2 DEF IsPrefixed

\* Delivering an update leaves the stream as it is.
LEMMA StreamDelivered ==
    ASSUME TypeOK, TypeOK', NEW s \in Subs, chan[s] # <<>>,
           got'[s] = Append(got[s], Head(chan[s])), chan'[s] = Tail(chan[s])
    PROVE  Stream(s)' = Stream(s) /\ IsPrefixed(s)
PROOF
<1>1. /\ got \in [Subs -> Seq(Update)] /\ chan \in [Subs -> Seq(Update)]
      /\ got' \in [Subs -> Seq(Update)] /\ chan' \in [Subs -> Seq(Update)]
  BY DEF TypeOK
<1>2. /\ Len(got'[s]) = Len(got[s]) + 1
      /\ \A i \in 1 .. Len(got'[s]) :
            got'[s][i] = IF i <= Len(got[s]) THEN got[s][i] ELSE chan[s][1]
  BY <1>1
<1>3. /\ Len(chan'[s]) = Len(chan[s]) - 1
      /\ \A i \in 1 .. Len(chan'[s]) : chan'[s][i] = chan[s][i + 1]
  BY <1>1
<1>4. /\ Stream(s)' \in Seq(Update) /\ Len(Stream(s)') = Len(got'[s]) + Len(chan'[s])
      /\ \A i \in 1 .. Len(Stream(s)') :
            Stream(s)'[i] = IF i <= Len(got'[s]) THEN got'[s][i]
                            ELSE chan'[s][i - Len(got'[s])]
  BY <1>1, ConcatProperties DEF Stream
<1> DEFINE g == Len(got[s])
           c == Len(chan[s])
<1>5. /\ g \in Nat /\ c \in Nat /\ c > 0
      /\ Len(got'[s]) = g + 1 /\ Len(chan'[s]) = c - 1
      /\ Len(Stream(s)) = g + c /\ Len(Stream(s)') = (g + 1) + (c - 1)
  BY <1>1, <1>2, <1>3, <1>4, StreamIs
<1> HIDE DEF g, c
<1>6. Len(Stream(s)') = Len(Stream(s))
  BY <1>5
<1>7. \A i \in 1 .. Len(Stream(s)') : Stream(s)'[i] = Stream(s)[i]
  <2> SUFFICES ASSUME NEW i \in 1 .. g + c PROVE Stream(s)'[i] = Stream(s)[i]
    BY <1>5
  <2>1. Stream(s)[i] = IF i <= g THEN got[s][i] ELSE chan[s][i - g]
    BY <1>5, StreamIs DEF g
  <2>2. Stream(s)'[i] = IF i <= g + 1 THEN got'[s][i] ELSE chan'[s][i - (g + 1)]
    <3>1. i \in 1 .. Len(Stream(s)')
      BY <1>5
    <3>2. Stream(s)'[i] = IF i <= Len(got'[s]) THEN got'[s][i] ELSE chan'[s][i - Len(got'[s])]
      BY <1>4, <3>1
    <3>3. Len(got'[s]) = g + 1
      BY <1>5
    <3> QED BY <3>2, <3>3
  <2>3. CASE i <= g + 1
    <3>1. got'[s][i] = IF i <= g THEN got[s][i] ELSE chan[s][1]
      BY <1>2, <1>5, <2>3 DEF g
    <3>2. ~(i <= g) => i - g = 1
      BY <1>5, <2>3
    <3> QED BY <2>1, <2>2, <2>3, <3>1, <3>2
  <2>4. CASE ~(i <= g + 1)
    <3>1. i - (g + 1) \in 1 .. c - 1 /\ (i - (g + 1)) + 1 = i - g /\ ~(i <= g)
      BY <1>5, <2>4
    <3>2. chan'[s][i - (g + 1)] = chan[s][i - g]
      BY <1>3, <1>5, <3>1
    <3> QED BY <2>1, <2>2, <2>4, <3>1, <3>2
  <2> QED BY <2>3, <2>4
<1>8. Stream(s)' = Stream(s)
  BY <1>4, <1>6, <1>7, StreamIs, SeqEqual
<1> QED BY <1>6, <1>7, <1>8, StreamIs DEF IsPrefixed

\* A dropped receiver takes what waits in its channel with it.
LEMMA StreamDropped ==
    ASSUME TypeOK, NEW s \in Subs, got'[s] = got[s], chan'[s] = <<>>
    PROVE  IsPrefixed(s)
PROOF
<1>1. Stream(s)' = got[s]
  BY ClientTypes, ConcatEmptySeq DEF Stream
<1>2. Len(got[s]) <= Len(Stream(s)) /\ \A i \in 1 .. Len(got[s]) : got[s][i] = Stream(s)[i]
  BY ClientTypes, StreamIs
<1> QED BY <1>1, <1>2 DEF IsPrefixed

\* A forwarded update goes to the end of the stream.
LEMMA StreamForwarded ==
    ASSUME TypeOK, TypeOK', NEW s \in Subs, NEW u \in Update,
           got'[s] = got[s], chan'[s] = Append(chan[s], u)
    PROVE  /\ Len(Stream(s)') = Len(Stream(s)) + 1
           /\ \A i \in 1 .. Len(Stream(s)) : Stream(s)'[i] = Stream(s)[i]
           /\ Stream(s)'[Len(Stream(s)) + 1] = u
PROOF
<1>1. /\ got \in [Subs -> Seq(Update)] /\ chan \in [Subs -> Seq(Update)]
      /\ chan' \in [Subs -> Seq(Update)]
  BY DEF TypeOK
<1>2. /\ Len(chan'[s]) = Len(chan[s]) + 1
      /\ \A i \in 1 .. Len(chan[s]) : chan'[s][i] = chan[s][i]
      /\ chan'[s][Len(chan[s]) + 1] = u
  BY <1>1
<1>3. /\ Len(Stream(s)') = Len(got[s]) + Len(chan'[s])
      /\ \A i \in 1 .. Len(Stream(s)') :
            Stream(s)'[i] = IF i <= Len(got[s]) THEN got[s][i]
                            ELSE chan'[s][i - Len(got[s])]
  BY <1>1, ConcatProperties DEF Stream
<1> DEFINE g == Len(got[s])
           c == Len(chan[s])
<1>4. /\ g \in Nat /\ c \in Nat /\ Len(chan'[s]) = c + 1
      /\ Len(Stream(s)) = g + c /\ Len(Stream(s)') = g + (c + 1)
  BY <1>1, <1>2, <1>3, StreamIs
<1>5. \A i \in 1 .. g + c : Stream(s)[i] = IF i <= g THEN got[s][i] ELSE chan[s][i - g]
  BY <1>4, StreamIs
<1>6. /\ \A i \in 1 .. g + (c + 1) :
            Stream(s)'[i] = IF i <= g THEN got[s][i] ELSE chan'[s][i - g]
      /\ \A i \in 1 .. c : chan'[s][i] = chan[s][i]
      /\ chan'[s][c + 1] = u
  BY <1>2, <1>3, <1>4
<1> HIDE DEF g, c
<1>7. \A i \in 1 .. g + c : Stream(s)'[i] = Stream(s)[i]
  <2> SUFFICES ASSUME NEW i \in 1 .. g + c PROVE Stream(s)'[i] = Stream(s)[i]
    OBVIOUS
  <2>1. ~(i <= g) => i - g \in 1 .. c
    BY <1>4
  <2>2. i \in 1 .. g + (c + 1)
    BY <1>4
  <2> QED BY <1>5, <1>6, <2>1, <2>2
<1>8. Stream(s)'[g + (c + 1)] = u
  <2>1. g + (c + 1) \in 1 .. g + (c + 1) /\ ~(g + (c + 1) <= g) /\ (g + (c + 1)) - g = c + 1
    BY <1>4
  <2> QED BY <1>6, <2>1
<1>9. Len(Stream(s)') = Len(Stream(s)) + 1 /\ Len(Stream(s)) + 1 = g + (c + 1)
  BY <1>4
<1> QED BY <1>4, <1>7, <1>8, <1>9

-----------------------------------------------------------------------------
(* The control channel.                                                    *)

\* A message that is sent goes behind the others.
LEMMA CtrlAppend ==
    ASSUME TypeOK, NEW m \in Message, ctrl' = Append(ctrl, m), NEW s \in Subs, NEW k,
           m.kind = k /\ m.sub = s
    PROVE  /\ Sent(s, k)' = Sent(s, k) \cup {Len(ctrl) + 1}
           /\ Count(s, k)' = Count(s, k) + 1
PROOF
<1>1. Sent(s, k)' = Sent(s, k) \cup {Len(ctrl) + 1} /\ Len(ctrl) + 1 \notin Sent(s, k)
  BY DEF Sent, TypeOK
<1>2. IsFiniteSet(Sent(s, k))
  <2>1. Sent(s, k) \in SUBSET (1 .. Len(ctrl)) /\ Len(ctrl) \in Nat
    BY DEF Sent, TypeOK
  <2>2. IsFiniteSet(1 .. Len(ctrl))
    BY <2>1, FS_Interval
  <2> QED BY <2>1, <2>2, FS_Subset
<1>3. Count(s, k) = Cardinality(Sent(s, k)) /\ Count(s, k)' = Cardinality(Sent(s, k)')
  BY DEF Count, Sent
<1>4. Cardinality(Sent(s, k)') = Cardinality(Sent(s, k)) + 1
  BY <1>1, <1>2, FS_AddElement
<1> QED BY <1>1, <1>3, <1>4

\* It adds nothing for other subscriptions or of other kinds.
LEMMA CtrlAppendOther ==
    ASSUME TypeOK, NEW m \in Message, ctrl' = Append(ctrl, m), NEW s, NEW k,
           ~(m.kind = k /\ m.sub = s)
    PROVE  Sent(s, k)' = Sent(s, k) /\ Count(s, k)' = Count(s, k)
PROOF
<1>1. Sent(s, k)' = Sent(s, k)
  BY DEF Sent, TypeOK
<1> QED BY <1>1 DEF Count, Sent

\* Receiving a message moves the others up by one.
LEMMA CtrlTail ==
    ASSUME TypeOK, ctrl # <<>>, ctrl' = Tail(ctrl), NEW s, NEW k
    PROVE  /\ \A i \in Sent(s, k)' : i + 1 \in Sent(s, k)
           /\ \A i \in Sent(s, k) : i = 1 \/ i - 1 \in Sent(s, k)'
           /\ 1 \in Sent(s, k) => Count(s, k)' = Count(s, k) - 1
           /\ 1 \notin Sent(s, k) => Count(s, k)' = Count(s, k)
           /\ Count(s, k) \in Nat /\ Count(s, k)' \in Nat
PROOF
<1>1. ctrl \in Seq(Message) /\ Len(ctrl) \in Nat /\ Len(ctrl) > 0
      /\ Len(ctrl') = Len(ctrl) - 1 /\ \A i \in 1 .. Len(ctrl') : ctrl'[i] = ctrl[i + 1]
  BY DEF TypeOK
<1>2. \A i \in Sent(s, k)' : i \in Nat /\ i + 1 \in Sent(s, k)
  BY <1>1 DEF Sent
<1>3. \A i \in Sent(s, k) : i = 1 \/ i - 1 \in Sent(s, k)'
  BY <1>1 DEF Sent
<1>4. IsFiniteSet(Sent(s, k)) /\ IsFiniteSet(Sent(s, k)')
  <2>1. Sent(s, k) \in SUBSET (1 .. Len(ctrl)) /\ Sent(s, k)' \in SUBSET (1 .. Len(ctrl'))
    BY DEF Sent
  <2>2. IsFiniteSet(1 .. Len(ctrl)) /\ IsFiniteSet(1 .. Len(ctrl'))
    BY <1>1, FS_Interval
  <2> QED BY <2>1, <2>2, FS_Subset
<1> DEFINE up == [i \in Sent(s, k)' |-> i + 1]
<1>5. up \in Bijection(Sent(s, k)', Sent(s, k) \ {1})
  <2>1. \A i \in Sent(s, k)' : i \in Nat /\ i > 0
    BY <1>1 DEF Sent
  <2>2. \A i \in Sent(s, k) : i \in Nat
    BY <1>1 DEF Sent
  <2>3. up \in [Sent(s, k)' -> Sent(s, k) \ {1}]
    BY <1>2, <2>1
  <2>4. \A i, j \in Sent(s, k)' : up[i] = up[j] => i = j
    BY <2>1
  <2>5. \A i \in Sent(s, k) \ {1} : \E j \in Sent(s, k)' : up[j] = i
    <3> SUFFICES ASSUME NEW i \in Sent(s, k) \ {1} PROVE \E j \in Sent(s, k)' : up[j] = i
      OBVIOUS
    <3>1. i - 1 \in Sent(s, k)' /\ up[i - 1] = i
      BY <1>3, <2>2
    <3> QED BY <3>1
  <2> HIDE DEF up
  <2> QED BY <2>3, <2>4, <2>5 DEF Bijection, Injection, Surjection, IsInjective
<1> HIDE DEF up
<1>6. Cardinality(Sent(s, k) \ {1}) = Cardinality(Sent(s, k)')
  <2>1. ExistsBijection(Sent(s, k)', Sent(s, k) \ {1})
    BY <1>5 DEF ExistsBijection
  <2> QED BY <1>4, <2>1, FS_Bijection
<1>7. /\ 1 \in Sent(s, k) => Cardinality(Sent(s, k) \ {1}) = Cardinality(Sent(s, k)) - 1
      /\ 1 \notin Sent(s, k) => Sent(s, k) \ {1} = Sent(s, k)
  BY <1>4, FS_RemoveElement
<1>8. Count(s, k) = Cardinality(Sent(s, k)) /\ Count(s, k)' = Cardinality(Sent(s, k)')
  BY DEF Count, Sent
<1> QED BY <1>2, <1>3, <1>4, <1>6, <1>7, <1>8, FS_CardinalityType

\* Counting messages.
LEMMA CountIs ==
    ASSUME TypeOK, NEW s, NEW k
    PROVE  Count(s, k) \in Nat /\ (Count(s, k) > 0 <=> Sent(s, k) # {})
PROOF
<1>1. Sent(s, k) \in SUBSET (1 .. Len(ctrl)) /\ Len(ctrl) \in Nat
  BY DEF Sent, TypeOK
<1>2. IsFiniteSet(Sent(s, k))
  <2>1. IsFiniteSet(1 .. Len(ctrl))
    BY <1>1, FS_Interval
  <2> QED BY <1>1, <2>1, FS_Subset
<1>3. Count(s, k) = Cardinality(Sent(s, k))
  BY DEF Count, Sent
<1> QED BY <1>2, <1>3, FS_CardinalityType, FS_EmptySet

LEMMA CountIsNext ==
    ASSUME TypeOK', NEW s, NEW k
    PROVE  Count(s, k)' \in Nat /\ (Count(s, k)' > 0 <=> Sent(s, k)' # {})
PROOF
<1>1. Sent(s, k)' \in SUBSET (1 .. Len(ctrl')) /\ Len(ctrl') \in Nat
  BY DEF Sent, TypeOK
<1>2. IsFiniteSet(Sent(s, k)')
  <2>1. IsFiniteSet(1 .. Len(ctrl'))
    BY <1>1, FS_Interval
  <2> QED BY <1>1, <2>1, FS_Subset
<1>3. Count(s, k)' = Cardinality(Sent(s, k)')
  BY DEF Count, Sent
<1> QED BY <1>2, <1>3, FS_CardinalityType, FS_EmptySet

\* A subscription is known to the manager, or is about to be.
LEMMA SenderGoneIs ==
    ASSUME TypeOK, TypeOK', NEW s
    PROVE  /\ SenderGone(s) <=> ~Subscribed(s) /\ Count(s, "AddSub") = 0
           /\ SenderGone(s)' <=> ~Subscribed(s)' /\ Count(s, "AddSub")' = 0
PROOF
<1>1. /\ SenderGone(s) <=> ~Subscribed(s) /\ Sent(s, "AddSub") = {}
      /\ SenderGone(s)' <=> ~Subscribed(s)' /\ Sent(s, "AddSub")' = {}
  BY DEF SenderGone, Subscribed, Sent
<1> QED BY <1>1, CountIs, CountIsNext

\* A message that is received no longer counts.
LEMMA CountReceived ==
    ASSUME TypeOK, ctrl # <<>>, ctrl' = Tail(ctrl), NEW s, NEW k
    PROVE  /\ (Head(ctrl).kind = k /\ Head(ctrl).sub = s)
                  => Count(s, k) > 0 /\ Count(s, k)' = Count(s, k) - 1
           /\ ~(Head(ctrl).kind = k /\ Head(ctrl).sub = s)
                  => Count(s, k)' = Count(s, k)
PROOF
<1>1. Head(ctrl) = ctrl[1] /\ 1 \in 1 .. Len(ctrl)
  BY DEF TypeOK
<1>2. 1 \in Sent(s, k) <=> Head(ctrl).kind = k /\ Head(ctrl).sub = s
  BY <1>1 DEF Sent
<1> QED BY <1>2, CtrlTail, CountIs

-----------------------------------------------------------------------------
(* The manager.                                                            *)

\* Removing subscriptions keeps the entries that have others.
LEMMA WithoutSubsIs ==
    ASSUME NEW tags \in [Tags -> TagEntry], NEW S
    PROVE  /\ WithoutSubs(tags, S) \in [Tags -> TagEntry]
           /\ \A t \in Tags :
                 /\ WithoutSubs(tags, S)[t].subs = tags[t].subs \ S
                 /\ WithoutSubs(tags, S)[t].cursor \in {0, tags[t].cursor}
                 /\ WithoutSubs(tags, S)[t].subs # {} =>
                       WithoutSubs(tags, S)[t].cursor = tags[t].cursor
PROOF
<1> SUFFICES ASSUME NEW t \in Tags
             PROVE  /\ WithoutSubs(tags, S)[t] \in TagEntry
                    /\ WithoutSubs(tags, S)[t].subs = tags[t].subs \ S
                    /\ WithoutSubs(tags, S)[t].cursor \in {0, tags[t].cursor}
                    /\ WithoutSubs(tags, S)[t].subs # {} =>
                          WithoutSubs(tags, S)[t].cursor = tags[t].cursor
  BY DEF WithoutSubs
<1>1. tags[t] \in TagEntry /\ tags[t].subs \in SUBSET Subs /\ tags[t].cursor \in Nat
  BY DEF TagEntry
<1>2. CASE tags[t].subs \subseteq S
  BY <1>1, <1>2 DEF WithoutSubs, NewTag, TagEntry
<1>3. CASE ~(tags[t].subs \subseteq S)
  BY <1>1, <1>3 DEF WithoutSubs, TagEntry
<1> QED BY <1>2, <1>3

\* There is one update for a tag.
LEMMA ChosenUpdate ==
    ASSUME QueryInv, NEW u \in query.updates, NEW t, u.tag = t
    PROVE  (CHOOSE v \in query.updates : v.tag = t) = u
BY DEF QueryInv

\* update_timestamps moves the cursors of the tags that have an update.
LEMMA AdvancedIs ==
    ASSUME TypeOK, QueryInv
    PROVE  /\ AdvancedTags \in [Tags -> TagEntry]
           /\ \A t \in Tags : AdvancedTags[t].subs = tagData[t].subs
           /\ \A u \in query.updates : AdvancedTags[u.tag].cursor = u.cursor
           /\ \A t \in Tags : (\A u \in query.updates : u.tag # t)
                                  => AdvancedTags[t] = tagData[t]
PROOF
<1>1. tagData \in [Tags -> TagEntry] /\ \A u \in query.updates : u \in Update
  BY DEF TypeOK, Query
<1>2. ASSUME NEW t \in Tags
      PROVE  /\ AdvancedTags[t] \in TagEntry /\ AdvancedTags[t].subs = tagData[t].subs
             /\ \A u \in query.updates : u.tag = t => AdvancedTags[t].cursor = u.cursor
             /\ (\A u \in query.updates : u.tag # t) => AdvancedTags[t] = tagData[t]
  <2>1. CASE \A u \in query.updates : u.tag # t
    BY <1>1, <2>1 DEF AdvancedTags
  <2>2. ASSUME NEW u \in query.updates, u.tag = t
        PROVE  AdvancedTags[t] = [tagData[t] EXCEPT !.cursor = u.cursor]
    BY <2>2, ChosenUpdate DEF AdvancedTags
  <2>3. ASSUME NEW u \in query.updates, u.tag = t
        PROVE  /\ AdvancedTags[t] \in TagEntry /\ AdvancedTags[t].subs = tagData[t].subs
               /\ AdvancedTags[t].cursor = u.cursor
    <3>1. tagData[t] \in TagEntry /\ u.cursor \in Nat
      BY <1>1 DEF Update
    <3> QED BY <2>2, <2>3, <3>1 DEF TagEntry
  <2> QED BY <2>1, <2>3
<1>3. \A u \in query.updates : u.tag \in Tags
  BY <1>1 DEF Update
<1>4. AdvancedTags \in [Tags -> TagEntry]
  BY <1>2 DEF AdvancedTags
<1> QED BY <1>2, <1>3, <1>4

\* The loop that goes round is asleep, and one that stopped has nothing.
LEMMA NextRoundType ==
    ASSUME NextRound
    PROVE  timer' \in 0 .. Period /\ query' \in Query /\ query' = Asleep
BY CapAssumption DEF NextRound, Asleep, Query

LEMMA NewTags == [t \in Tags |-> NewTag] \in [Tags -> TagEntry]
BY DEF NewTag, TagEntry

\* A message that fits.
LEMMA AppendType ==
    ASSUME TypeOK, CanSend, NEW m \in Message
    PROVE  Append(ctrl, m) \in Seq(Message) /\ Len(Append(ctrl, m)) <= CtrlCap
BY CapAssumption DEF TypeOK, CanSend

LEMMA MessageTypes ==
    ASSUME NEW s \in Subs
    PROVE  /\ [kind |-> "AddSub", sub |-> s] \in Message
           /\ [kind |-> "RemoveSub", sub |-> s] \in Message
           /\ [kind |-> "Waker", sub |-> s] \in Message
           /\ [kind |-> "Shutdown"] \in Message
BY DEF Message

\* A control message other than Shutdown names a subscription.
LEMMA HeadIs ==
    ASSUME TypeOK, ctrl # <<>>
    PROVE  /\ Head(ctrl) \in Message /\ Head(ctrl) = ctrl[1] /\ 1 \in 1 .. Len(ctrl)
           /\ Head(ctrl).kind \in {"AddSub", "RemoveSub", "Waker"} => Head(ctrl).sub \in Subs
           /\ Tail(ctrl) \in Seq(Message) /\ Len(Tail(ctrl)) <= CtrlCap
PROOF
<1>1. ctrl \in Seq(Message) /\ Len(ctrl) <= CtrlCap
  BY DEF TypeOK
<1>2. Head(ctrl) \in Message /\ Head(ctrl) = ctrl[1] /\ 1 \in 1 .. Len(ctrl)
  BY <1>1
<1>3. Tail(ctrl) \in Seq(Message) /\ Len(Tail(ctrl)) <= CtrlCap
  BY <1>1, CapAssumption
<1>4. ASSUME NEW m \in Message, m.kind \in {"AddSub", "RemoveSub", "Waker"}
      PROVE  m.sub \in Subs
  BY <1>4 DEF Message
<1> QED BY <1>2, <1>3, <1>4

\* add_sub gives the subscription its place in the map.
LEMMA AddSubIs ==
    ASSUME TypeOK, NEW s \in Subs, HandleAddSub(s)
    PROVE  /\ tagData' \in [Tags -> TagEntry]
           /\ \A t \in Tags : tagData'[t].cursor = tagData[t].cursor
           /\ \A t \in Tags : tagData'[t].subs =
                  IF t = SubTag[s] THEN tagData[t].subs \cup {s} ELSE tagData[t].subs
PROOF
<1>1. tagData \in [Tags -> TagEntry] /\ SubTag[s] \in Tags
  BY SubAssumption DEF TypeOK
<1>2. tagData[SubTag[s]].subs \in SUBSET Subs /\ tagData[SubTag[s]].cursor \in Nat
  BY <1>1 DEF TagEntry
<1> DEFINE e == [cursor |-> tagData[SubTag[s]].cursor,
                 subs |-> tagData[SubTag[s]].subs \cup {s}]
<1>3. e.subs = tagData[SubTag[s]].subs \cup {s} /\ e.cursor = tagData[SubTag[s]].cursor
      /\ e \in TagEntry
  BY <1>2 DEF TagEntry
<1>4. tagData' = [tagData EXCEPT ![SubTag[s]] = e]
  BY DEF HandleAddSub
<1> HIDE DEF e
<1> QED BY <1>1, <1>3, <1>4

-----------------------------------------------------------------------------
(* Types.                                                                  *)

LEMMA TypeInit == Init => TypeOK
BY CapAssumption DEF Init, TypeOK, NewTag, TagEntry, Asleep, Query, Budget

\* A bound that is used up.
LEMMA BudgetIs ==
    ASSUME TypeOK
    PROVE  /\ [budget EXCEPT !.spurious = @ + 1] \in Budget
           /\ [budget EXCEPT !.others = @ + 1] \in Budget
           /\ [budget EXCEPT !.errors = @ + 1] \in Budget
           /\ [budget EXCEPT !.spurious = @ + 1].spurious = budget.spurious + 1
           /\ [budget EXCEPT !.others = @ + 1].spurious = budget.spurious
           /\ [budget EXCEPT !.errors = @ + 1].spurious = budget.spurious
           /\ budget.spurious \in Nat
PROOF
<1>1. budget \in Budget
  BY DEF TypeOK
<1> QED BY <1>1 DEF Budget

\* The steps of the streamer and its queries are well typed.
LEMMA TypeStreamer ==
    ASSUME TypeOK, TableInv, QueryInv,
           \/ HandleControl \/ HandleShutdown \/ Tick \/ StartQuery
           \/ (\E t \in Tags : ReadTag(t)) \/ ForwardUpdates \/ HandleOther \/ QueryFails
    PROVE  TypeOK'
PROOF
<1> USE CapAssumption
<1>1. CASE HandleControl
  <2>1. PICK s \in Subs : HandleAddSub(s) \/ HandleRemoveSub(s) \/ HandleWaker(s)
    BY <1>1, HeadIs DEF HandleControl
  <2>2. tagData' \in [Tags -> TagEntry] /\ wakers' \in SUBSET Subs
        /\ parked' \in [Subs -> BOOLEAN] /\ joined' \in [Subs -> Nat]
    <3>1. CASE HandleAddSub(s)
      BY <3>1, AddSubIs DEF HandleAddSub, TypeOK
    <3>2. CASE HandleRemoveSub(s)
      BY <3>2, WithoutSubsIs DEF HandleRemoveSub, TypeOK
    <3>3. CASE HandleWaker(s)
      BY <3>3 DEF HandleWaker, TypeOK
    <3> QED BY <2>1, <3>1, <3>2, <3>3
  <2>3. ctrl' \in Seq(Message) /\ Len(ctrl') <= CtrlCap
    BY <1>1, HeadIs DEF HandleControl
  <2>4. timer' \in 0 .. Period /\ query' \in Query
    BY <1>1, NextRoundType DEF HandleControl
  <2>5. UNCHANGED <<rows, sqliteSeq, deleted, running, sub, chan, got, budget>>
    BY <1>1 DEF HandleControl, table
  <2> QED BY <2>2, <2>3, <2>4, <2>5 DEF TypeOK
<1>2. CASE HandleShutdown
  <2>1. timer' \in 0 .. Period /\ query' \in Query
    BY <1>2, NextRoundType DEF HandleShutdown
  <2>2. ctrl' = <<>> /\ running' = FALSE /\ wakers' = {} /\ parked' = [q \in Subs |-> FALSE]
        /\ tagData' = [t \in Tags |-> NewTag]
        /\ UNCHANGED <<rows, sqliteSeq, deleted, sub, chan, got, joined, budget>>
    BY <1>2 DEF HandleShutdown, table
  <2>3. ctrl' \in Seq(Message) /\ Len(ctrl') <= CtrlCap
    BY <2>2, EmptySeq
  <2> QED BY <2>1, <2>2, <2>3, NewTags DEF TypeOK
<1>3. CASE Tick
  BY <1>3 DEF Tick, TypeOK, table, clients
<1>4. CASE StartQuery
  <2>1. query' \in Query
    BY <1>4 DEF StartQuery, Query, Tracked
  <2> QED BY <1>4, <2>1 DEF StartQuery, TypeOK, table, clients
<1>5. ASSUME NEW t \in Tags, ReadTag(t) PROVE TypeOK'
  <2>1. Batch(rows, {t}, tagData[t].cursor) \in SUBSET Row
    BY BatchInTable DEF Matching, TypeOK
  <2>2. query' \in Query
    <3>1. query.left \in SUBSET Tags /\ query.updates \in SUBSET Update /\ query.reading \in BOOLEAN
      BY DEF TypeOK, Query
    <3> DEFINE batch == Batch(rows, {t}, tagData[t].cursor)
    <3>2. CASE batch = {} /\ query' = [query EXCEPT !.left = @ \ {t}]
      BY <3>1, <3>2 DEF TypeOK, Query
    <3>3. ASSUME NEW m \in {r.seq : r \in batch},
                 query' = [query EXCEPT !.left = @ \ {t},
                    !.updates = @ \cup {[tag |-> t, notes |-> batch, cursor |-> m]}]
          PROVE  query' \in Query
      <4>1. [tag |-> t, notes |-> batch, cursor |-> m] \in Update
        BY <2>1, <3>3 DEF Update, Row
      <4> HIDE DEF batch
      <4> QED BY <3>1, <3>3, <4>1 DEF TypeOK, Query
    <3> QED BY <1>5, <3>2, <3>3 DEF ReadTag
  <2> QED BY <1>5, <2>2 DEF ReadTag, TypeOK, table, clients
<1>6. CASE ForwardUpdates
  <2> DEFINE evicted == {s \in Receivers : ~Accepts(s)}
  <2>1. tagData' \in [Tags -> TagEntry]
    <3>1. tagData' = WithoutSubs(AdvancedTags, evicted)
      BY <1>6 DEF ForwardUpdates
    <3> QED BY <3>1, AdvancedIs, WithoutSubsIs
  <2>2. chan' \in [Subs -> Seq(Update)] /\ \A s \in Subs : Len(chan'[s]) <= SubCap
    <3>1. chan' = [s \in Subs |->
                     IF s \in Receivers \ evicted
                     THEN Append(chan[s], CHOOSE u \in query.updates : u.tag = SubTag[s])
                     ELSE chan[s]]
      BY <1>6 DEF ForwardUpdates
    <3>2. ASSUME NEW s \in Subs
          PROVE  chan'[s] \in Seq(Update) /\ Len(chan'[s]) <= SubCap
      <4>1. chan \in [Subs -> Seq(Update)] /\ Len(chan[s]) <= SubCap
        BY DEF TypeOK
      <4>2. CASE s \in Receivers \ evicted
        <5>1. PICK u \in query.updates : u.tag = SubTag[s]
          BY <4>2 DEF Receivers
        <5>2. u \in Update /\ chan'[s] = Append(chan[s], u)
          BY <3>1, <4>2, <5>1, ChosenUpdate DEF TypeOK, Query
        <5>3. Len(chan[s]) < SubCap
          BY <4>2 DEF Accepts
        <5> QED BY <4>1, <5>2, <5>3
      <4>3. CASE s \notin Receivers \ evicted
        BY <3>1, <4>1, <4>3
      <4> QED BY <4>2, <4>3
    <3> QED BY <3>1, <3>2
  <2>3. timer' \in 0 .. Period /\ query' \in Query
    BY <1>6, NextRoundType DEF ForwardUpdates
  <2>4. /\ wakers' = wakers \ Receivers
        /\ parked' = [s \in Subs |-> parked[s] /\ s \notin Receivers]
        /\ UNCHANGED <<rows, sqliteSeq, deleted, running, ctrl, sub, got, joined, budget>>
    BY <1>6 DEF ForwardUpdates, table
  <2>5. parked' \in [Subs -> BOOLEAN]
    BY <2>4
  <2> QED BY <2>1, <2>2, <2>3, <2>4, <2>5 DEF TypeOK
<1>7. CASE HandleOther
  <2>1. timer' \in 0 .. Period /\ query' \in Query
    BY <1>7, NextRoundType DEF HandleOther
  <2>2. budget' \in Budget
    BY <1>7, BudgetIs DEF HandleOther, TypeOK
  <2> QED BY <1>7, <2>1, <2>2 DEF HandleOther, TypeOK, table, clients
<1>8. CASE QueryFails
  <2>1. timer' \in 0 .. Period /\ query' \in Query
    BY <1>8, NextRoundType DEF QueryFails
  <2>2. budget' \in Budget
    BY <1>8, BudgetIs DEF QueryFails, TypeOK
  <2> QED BY <1>8, <2>1, <2>2 DEF QueryFails, TypeOK, table, clients
<1> QED BY <1>1, <1>2, <1>3, <1>4, <1>5, <1>6, <1>7, <1>8

\* So are the steps of a subscription, of the table and of the server's end.
LEMMA TypeOthers ==
    ASSUME TypeOK, TableInv,
           \/ TableStep
           \/ StopServer
           \/ \E s \in Subs : OpenStream(s) \/ SubStep(s) \/ Disconnect(s) \/ SpuriousWake(s)
    PROVE  TypeOK'
PROOF
<1>1. CASE TableStep
  BY <1>1, TableStepIs DEF TypeOK
<1>2. CASE StopServer
  <2>1. CASE CanSend /\ ctrl' = Append(ctrl, [kind |-> "Shutdown"]) /\ UNCHANGED <<manager, parked>>
    <3>1. ctrl' \in Seq(Message) /\ Len(ctrl') <= CtrlCap
      BY <2>1, AppendType, MessageTypes DEF Message
    <3> QED BY <1>2, <2>1, <3>1 DEF StopServer, TypeOK, table, manager
  <2>2. CASE ~CanSend
    <3>1. timer' \in 0 .. Period /\ query' \in Query
      BY <1>2, <2>2, NextRoundType DEF StopServer
    <3>2. ctrl' = <<>> /\ running' = FALSE /\ wakers' = {} /\ parked' = [q \in Subs |-> FALSE]
          /\ tagData' = [t \in Tags |-> NewTag]
          /\ UNCHANGED <<rows, sqliteSeq, deleted, sub, chan, got, joined, budget>>
      BY <1>2, <2>2 DEF StopServer, table
    <3>3. ctrl' \in Seq(Message) /\ Len(ctrl') <= CtrlCap
      BY <3>2, EmptySeq, CapAssumption
    <3> QED BY <3>1, <3>2, <3>3, NewTags DEF TypeOK
  <2> QED BY <1>2, <2>1, <2>2 DEF StopServer
<1>3. ASSUME NEW s \in Subs, OpenStream(s) PROVE TypeOK'
  <2>1. ctrl' \in Seq(Message) /\ Len(ctrl') <= CtrlCap
    BY <1>3, AppendType, MessageTypes DEF OpenStream, TypeOK
  <2> QED BY <1>3, <2>1 DEF OpenStream, TypeOK, table, manager
<1>4. ASSUME NEW s \in Subs, DeliverUpdate(s) PROVE TypeOK'
  <2>1. got \in [Subs -> Seq(Update)] /\ chan \in [Subs -> Seq(Update)] /\ Len(chan[s]) <= SubCap
    BY DEF TypeOK
  <2>2. /\ got' = [got EXCEPT ![s] = Append(got[s], Head(chan[s]))]
        /\ chan' = [chan EXCEPT ![s] = Tail(chan[s])] /\ chan[s] # <<>>
    BY <1>4 DEF DeliverUpdate
  <2>3. Append(got[s], Head(chan[s])) \in Seq(Update) /\ Tail(chan[s]) \in Seq(Update)
        /\ Len(Tail(chan[s])) <= SubCap
    BY <2>1, <2>2, CapAssumption
  <2> QED BY <1>4, <2>1, <2>2, <2>3 DEF DeliverUpdate, TypeOK, table, manager
<1>5. ASSUME NEW s \in Subs, Park(s) PROVE TypeOK'
  <2>1. ctrl' \in Seq(Message) /\ Len(ctrl') <= CtrlCap
    BY <1>5, AppendType, MessageTypes DEF Park
  <2> QED BY <1>5, <2>1 DEF Park, TypeOK, table, manager
<1>6. ASSUME NEW s \in Subs, EndStream(s) \/ Disconnect(s) PROVE TypeOK'
  BY <1>6 DEF EndStream, Disconnect, TypeOK, table, manager
<1>7. ASSUME NEW s \in Subs, DropSub(s) PROVE TypeOK'
  <2>1. ctrl' \in Seq(Message) /\ Len(ctrl') <= CtrlCap
    BY <1>7, AppendType, MessageTypes DEF DropSub, TypeOK
  <2> QED BY <1>7, <2>1, CapAssumption DEF DropSub, TypeOK, table, manager
<1>8. ASSUME NEW s \in Subs, SpuriousWake(s) PROVE TypeOK'
  <2>1. budget' \in Budget
    BY <1>8, BudgetIs DEF SpuriousWake, TypeOK
  <2> QED BY <1>8, <2>1 DEF SpuriousWake, TypeOK, table, manager
<1> QED BY <1>1, <1>2, <1>3, <1>4, <1>5, <1>6, <1>7, <1>8 DEF SubStep

LEMMA TypeStep ==
    ASSUME IInv, [Next]_vars
    PROVE  TypeOK'
PROOF
<1>1. CASE UNCHANGED vars
  BY <1>1 DEF IInv, TypeOK, vars, table, manager, clients
<1>2. CASE Next
  BY <1>2, TypeStreamer, TypeOthers DEF Next, StreamerStep, TableStep, IInv
<1> QED BY <1>1, <1>2

-----------------------------------------------------------------------------
(* What streams hold.                                                      *)

DataInv == TableInv /\ CursorsStored /\ QueryInv /\ StreamInv /\ InOrderOnce

\* The notes of a stretch lie after its start and up to its cursor, which is
\* the position of one of them.
LEMMA StretchIs ==
    ASSUME TypeOK, TableInv, NEW u \in Update, NEW p \in Nat, IsStretch(rows, Stored, u, p)
    PROVE  /\ u.cursor \in Positions /\ u.cursor \in Nat /\ p < u.cursor
           /\ \A r \in u.notes : r \in Stored /\ r.seq \in Nat /\ p < r.seq /\ r.seq <= u.cursor
BY DEF IsStretch, IsBetween, Update, TypeOK, Row, Positions, Stored

\* A note that is stored later is not in it, one that is deleted may be.
LEMMA StretchGrows ==
    ASSUME TypeOK, TableInv, TableStep,
           NEW u \in Update, NEW p \in Nat, IsStretch(rows, Stored, u, p)
    PROVE  IsStretch(rows', Stored', u, p)
PROOF
<1>1. u.cursor \in Nat /\ u.cursor <= sqliteSeq /\ sqliteSeq \in Nat
  BY StretchIs, PositionsBounded
<1>2. Stored \subseteq Stored' /\ \A r \in rows' : r \in rows \/ r.seq = sqliteSeq + 1
  BY TableStepIs
<1>3. \A r \in rows' : r.seq <= u.cursor => r \in rows
  BY <1>1, <1>2
<1> QED BY <1>2, <1>3 DEF IsStretch, IsBetween

LEMMA PositionsAreNat ==
    ASSUME TypeOK
    PROVE  \A p \in Positions : p \in Nat
BY DEF Positions, Stored, TypeOK, Row

LEMMA StreamsAre ==
    ASSUME TypeOK, NEW s \in Subs, NEW i \in 1 .. Len(Stream(s))
    PROVE  Stream(s)[i] \in Update
BY StreamIs, ElementOfSeq

\* A step that adds nothing to a stream, and moves no cursor of a subscription
\* that has a stream, keeps what is known of streams.
LEMMA QuietData ==
    ASSUME IInv, TypeOK', UNCHANGED table,
           \A t \in Tags : tagData'[t].cursor \in Positions,
           \/ query'.updates = {}
           \/ /\ query'.updates = query.updates /\ query'.left \subseteq query.left
              /\ tagData' = tagData,
           \A s \in Subs : IsPrefixed(s),
           \A s \in Subs : Subscribed(s)' =>
               \/ Stream(s) = <<>>
               \/ Subscribed(s) /\ tagData'[SubTag[s]].cursor = tagData[SubTag[s]].cursor
    PROVE  DataInv'
PROOF
<1>1. rows' = rows /\ sqliteSeq' = sqliteSeq /\ Stored' = Stored
  BY DEF table, Stored
<1>2. TableInv' /\ CursorsStored'
  BY <1>1 DEF IInv, TableInv, CursorsStored, Positions
<1>3. QueryInv'
  <2>1. CASE query'.updates = {}
    BY <2>1 DEF QueryInv
  <2>2. CASE /\ query'.updates = query.updates /\ query'.left \subseteq query.left
             /\ tagData' = tagData
    BY <1>1, <2>2 DEF IInv, QueryInv
  <2> QED BY <2>1, <2>2
<1>4. ASSUME NEW s \in Subs, NEW i \in 1 .. Len(Stream(s)')
      PROVE  i \in 1 .. Len(Stream(s)) /\ Stream(s)'[i] = Stream(s)[i] /\ Stream(s) # <<>>
  <2>1. Stream(s) \in Seq(Update) /\ Len(Stream(s)) \in Nat /\ Len(Stream(s)') <= Len(Stream(s))
    BY StreamIs DEF IInv, IsPrefixed
  <2>2. Stream(s)'[i] = Stream(s)[i]
    BY <1>4 DEF IsPrefixed
  <2>3. Len(Stream(s)') \in Nat
    <3>1. got' \in [Subs -> Seq(Update)] /\ chan' \in [Subs -> Seq(Update)]
      BY DEF TypeOK
    <3> QED BY <3>1, ConcatProperties DEF Stream
  <2> QED BY <2>1, <2>2, <2>3
<1>5. StreamInv'
  <2> SUFFICES ASSUME NEW s \in Subs, NEW i \in 1 .. Len(Stream(s)')
               PROVE  /\ Stream(s)'[i].tag = SubTag[s]
                      /\ \E p \in Positions' : IsStretch(rows', Stored', Stream(s)'[i], p)
                      /\ Subscribed(s)' => Stream(s)'[i].cursor <= tagData'[SubTag[s]].cursor
    BY DEF StreamInv
  <2>1. i \in 1 .. Len(Stream(s)) /\ Stream(s)'[i] = Stream(s)[i] /\ Stream(s) # <<>>
    BY <1>4
  <2>2. Positions' = Positions
    BY <1>1 DEF Positions
  <2> QED BY <1>1, <2>1, <2>2 DEF IInv, StreamInv
<1>6. InOrderOnce'
  <2> SUFFICES ASSUME NEW s \in Subs, NEW i \in 1 .. Len(Stream(s)'),
                      NEW j \in 1 .. Len(Stream(s)'), i < j,
                      NEW q \in Stream(s)'[i].notes, NEW r \in Stream(s)'[j].notes
               PROVE  q.seq < r.seq
    BY DEF InOrderOnce
  <2> QED BY <1>4 DEF IInv, InOrderOnce
<1> QED BY <1>2, <1>3, <1>5, <1>6 DEF DataInv
\* A step that leaves the table, the map and the streams alone, and of a query
\* at most the part it has still to do.
LEMMA IdleData ==
    ASSUME IInv, TypeOK', UNCHANGED <<table, tagData, got, chan>>,
           \/ query'.updates = {}
           \/ query'.updates = query.updates /\ query'.left \subseteq query.left
    PROVE  DataInv'
PROOF
<1>1. UNCHANGED table /\ tagData' = tagData /\ got' = got /\ chan' = chan
  OBVIOUS
<1>2. \A s \in Subs : IsPrefixed(s)
  BY <1>1, StreamKept DEF IInv
<1>3. \A t \in Tags : tagData'[t].cursor \in Positions
  BY <1>1 DEF IInv, CursorsStored
<1>4. \A s \in Subs : Subscribed(s)' => Subscribed(s) /\ tagData'[SubTag[s]].cursor = tagData[SubTag[s]].cursor
  BY <1>1 DEF Subscribed
<1> QED BY <1>1, <1>2, <1>3, <1>4, QuietData

\* A message to the manager that no query survives.
LEMMA DataControl ==
    ASSUME IInv, TypeOK', HandleControl \/ HandleShutdown \/ StopServer
    PROVE  DataInv'
PROOF
<1>1. UNCHANGED table /\ got' = got /\ chan' = chan
  BY DEF HandleControl, HandleShutdown, StopServer
<1>2. \A s \in Subs : IsPrefixed(s)
  BY <1>1, StreamKept DEF IInv
<1>3. CASE HandleControl
  <2>1. query'.updates = {}
    BY <1>3 DEF HandleControl, NextRound, Asleep
  <2>2. PICK s \in Subs :
          /\ \/ Head(ctrl).kind = "AddSub" /\ HandleAddSub(s)
             \/ HandleRemoveSub(s)
             \/ HandleWaker(s)
          /\ s = Head(ctrl).sub
    BY <1>3, HeadIs DEF HandleControl, IInv
  <2>3. CASE Head(ctrl).kind = "AddSub" /\ HandleAddSub(s)
    <3>1. Stream(s) = <<>>
      <4>1. 1 \in Sent(s, "AddSub")
        BY <1>3, <2>2, <2>3, HeadIs DEF HandleControl, Sent, IInv
      <4>2. Count(s, "AddSub") > 0
        BY <4>1, CountIs DEF IInv
      <4> QED BY <4>2 DEF IInv, SubInv, MessageInv
    <3>2. /\ \A t \in Tags : tagData'[t].cursor = tagData[t].cursor
          /\ \A t \in Tags : tagData'[t].subs =
                 IF t = SubTag[s] THEN tagData[t].subs \cup {s} ELSE tagData[t].subs
      BY <2>3, AddSubIs DEF IInv
    <3>3. \A q \in Subs : SubTag[q] \in Tags
      BY SubAssumption
    <3>4. \A q \in Subs : Subscribed(q)' =>
              \/ Stream(q) = <<>>
              \/ Subscribed(q) /\ tagData'[SubTag[q]].cursor = tagData[SubTag[q]].cursor
      BY <3>1, <3>2, <3>3 DEF Subscribed
    <3>5. \A t \in Tags : tagData'[t].cursor \in Positions
      BY <3>2 DEF IInv, CursorsStored
    <3> QED BY <1>1, <1>2, <2>1, <3>4, <3>5, QuietData
  <2>4. CASE HandleRemoveSub(s)
    <3>1. tagData' = WithoutSubs(tagData, {s}) /\ tagData \in [Tags -> TagEntry]
      BY <2>4 DEF HandleRemoveSub, IInv, TypeOK
    <3>2. \A t \in Tags :
             /\ tagData'[t].subs = tagData[t].subs \ {s}
             /\ tagData'[t].cursor \in {0, tagData[t].cursor}
             /\ tagData'[t].subs # {} => tagData'[t].cursor = tagData[t].cursor
      BY <3>1, WithoutSubsIs
    <3>3. \A t \in Tags : tagData'[t].cursor \in Positions
      BY <3>2 DEF IInv, CursorsStored, Positions
    <3>4. \A q \in Subs : Subscribed(q)' =>
              Subscribed(q) /\ tagData'[SubTag[q]].cursor = tagData[SubTag[q]].cursor
      BY <3>2, SubAssumption DEF Subscribed
    <3> QED BY <1>1, <1>2, <2>1, <3>3, <3>4, QuietData
  <2>5. CASE HandleWaker(s)
    BY <1>1, <2>1, <2>5, IdleData DEF HandleWaker
  <2> QED BY <2>2, <2>3, <2>4, <2>5
<1>4. CASE query'.updates = {} /\ tagData' = [t \in Tags |-> NewTag]
  <2>1. \A t \in Tags : tagData'[t].subs = {} /\ tagData'[t].cursor = 0
    BY <1>4 DEF NewTag
  <2>2. \A t \in Tags : tagData'[t].cursor \in Positions
    BY <2>1 DEF Positions
  <2>3. \A q \in Subs : ~Subscribed(q)'
    BY <2>1, SubAssumption DEF Subscribed
  <2> QED BY <1>1, <1>2, <1>4, <2>2, <2>3, QuietData
<1>5. CASE HandleShutdown
  BY <1>4, <1>5 DEF HandleShutdown, NextRound, Asleep
<1>6. CASE StopServer
  <2>1. \/ UNCHANGED manager
        \/ query'.updates = {} /\ tagData' = [t \in Tags |-> NewTag]
    BY <1>6 DEF StopServer, NextRound, Asleep
  <2>2. CASE UNCHANGED manager
    BY <1>1, <2>2, IdleData DEF manager
  <2> QED BY <1>4, <2>1, <2>2
<1> QED BY <1>3, <1>5, <1>6

\* A note that is stored or deleted leaves what was read before a stretch.
LEMMA DataTable ==
    ASSUME IInv, TypeOK', TableStep
    PROVE  DataInv'
PROOF
<1>1. TypeOK /\ TableInv
  BY DEF IInv
<1>2. UNCHANGED <<tagData, query, got, chan>>
  BY <1>1, TableStepIs
<1>3. TableInv' /\ Positions \subseteq Positions'
  BY <1>1, TableStepIs
<1>4. \A s \in Subs : Stream(s)' = Stream(s) /\ Subscribed(s)' = Subscribed(s)
  BY <1>2 DEF Stream, Subscribed
<1>5. \A p \in Positions : p \in Nat
  BY <1>1, PositionsAreNat
<1>6. CursorsStored'
  BY <1>2, <1>3 DEF IInv, CursorsStored
<1>7. QueryInv'
  <2>1. ASSUME NEW u \in query.updates PROVE IsStretch(rows', Stored', u, tagData[u.tag].cursor)
    <3>1. u \in Update /\ u.tag \in Tags
      BY DEF IInv, TypeOK, Query, Update
    <3>2. tagData[u.tag].cursor \in Nat
      BY <1>5, <3>1 DEF IInv, CursorsStored
    <3>3. IsStretch(rows, Stored, u, tagData[u.tag].cursor)
      BY DEF IInv, QueryInv
    <3> QED BY <1>1, <3>1, <3>2, <3>3, StretchGrows
  <2> QED BY <1>2, <2>1 DEF IInv, QueryInv
<1>8. StreamInv'
  <2> SUFFICES ASSUME NEW s \in Subs, NEW i \in 1 .. Len(Stream(s)')
               PROVE  /\ Stream(s)'[i].tag = SubTag[s]
                      /\ \E p \in Positions' : IsStretch(rows', Stored', Stream(s)'[i], p)
                      /\ Subscribed(s)' => Stream(s)'[i].cursor <= tagData'[SubTag[s]].cursor
    BY DEF StreamInv
  <2>1. i \in 1 .. Len(Stream(s)) /\ Stream(s)'[i] = Stream(s)[i]
    BY <1>4
  <2>2. PICK p \in Positions : IsStretch(rows, Stored, Stream(s)[i], p)
    BY <2>1 DEF IInv, StreamInv
  <2>3. IsStretch(rows', Stored', Stream(s)[i], p)
    BY <1>1, <1>5, <2>1, <2>2, StreamsAre, StretchGrows
  <2> QED BY <1>2, <1>3, <1>4, <2>1, <2>3 DEF IInv, StreamInv
<1>9. InOrderOnce'
  BY <1>4 DEF IInv, InOrderOnce
<1> QED BY <1>3, <1>6, <1>7, <1>8, <1>9 DEF DataInv

\* A query takes, for a tag, the stretch that follows its cursor.
LEMMA DataRead ==
    ASSUME IInv, TypeOK', NEW t \in Tags, ReadTag(t)
    PROVE  DataInv'
PROOF
<1> DEFINE batch == Batch(rows, {t}, tagData[t].cursor)
           c == tagData[t].cursor
<1>1. /\ TypeOK /\ TableInv /\ UNCHANGED <<table, tagData, got, chan>>
      /\ rows' = rows /\ Stored' = Stored
  BY DEF IInv, ReadTag, clients, table, Stored
<1>2. c \in Positions /\ c \in Nat /\ EffectiveCursor(c) = c
  BY <1>1, PositionsBounded DEF IInv, CursorsStored
<1>3. query \in [reading : BOOLEAN, left : SUBSET Tags, updates : SUBSET Update]
  BY <1>1 DEF TypeOK, Query
<1>4. CASE query' = [query EXCEPT !.left = @ \ {t}]
  <2>1. query'.updates = query.updates /\ query'.left \subseteq query.left
    BY <1>3, <1>4
  <2> QED BY <1>1, <2>1, IdleData
<1>5. ASSUME NEW m \in {r.seq : r \in batch}, IsResponseCursor(m, c, batch),
             query' = [query EXCEPT !.left = @ \ {t},
                !.updates = @ \cup {[tag |-> t, notes |-> batch, cursor |-> m]}]
      PROVE  DataInv'
  <2> DEFINE u == [tag |-> t, notes |-> batch, cursor |-> m]
  <2>1. query'.left = query.left \ {t} /\ query'.updates = query.updates \cup {u}
    BY <1>3, <1>5
  <2>2. IsStretch(rows, Stored, u, c)
    <3>1. PICK q \in batch : q.seq = m
      BY <1>5
    <3>2. \A r \in batch : r \in rows /\ TagOf[r.id] = t /\ c < r.seq /\ r.seq <= m
      <4>1. \A r \in batch : r \in rows /\ TagOf[r.id] = t /\ r.seq > c
        BY <1>2, BatchInTable DEF Matching
      <4>2. \A r \in batch : m >= r.seq
        BY <1>5 DEF IsResponseCursor
      <4>3. m \in Nat /\ \A r \in batch : r.seq \in Nat
        BY <1>1, <3>1, <4>1 DEF TypeOK, Row
      <4> QED BY <1>2, <4>1, <4>2, <4>3
    <3>3. ASSUME NEW r \in rows, TagOf[r.id] = t, c < r.seq, r.seq <= m PROVE r \in batch
      <4>1. r \in Matching(rows, {t}, c)
        BY <1>2, <1>1, <3>3 DEF Matching, TypeOK, Row
      <4> QED BY <1>1, <1>2, <3>1, <3>3, <4>1, BatchIsPrefix DEF TypeOK, TableInv
    <3>4. rows \subseteq Stored
      BY DEF Stored
    <3> HIDE DEF batch, c
    <3> QED BY <3>1, <3>2, <3>3, <3>4 DEF IsStretch, IsBetween
  <2>3. \A v \in query.updates : v.tag # t
    BY DEF IInv, QueryInv, ReadTag
  <2>4. u.tag = t
    OBVIOUS
  <2> HIDE DEF u, batch
  <2>5. QueryInv'
    BY <1>1, <2>1, <2>2, <2>3, <2>4 DEF IInv, QueryInv
  <2>6. \A s \in Subs : Stream(s)' = Stream(s) /\ Subscribed(s)' = Subscribed(s)
    BY <1>1 DEF Stream, Subscribed
  <2>7. TableInv' /\ CursorsStored'
    BY <1>1 DEF IInv, TableInv, CursorsStored, Positions, table
  <2>8. StreamInv' /\ InOrderOnce'
    BY <1>1, <2>6 DEF IInv, StreamInv, InOrderOnce, Positions
  <2> QED BY <2>5, <2>7, <2>8 DEF DataInv
<1> QED BY <1>4, <1>5 DEF ReadTag
\* Where forwarding the updates leaves the cursors: none goes down while its
\* tag has subscribers, and that of an update is where its notes end.
LEMMA ForwardedCursors ==
    ASSUME IInv, ForwardUpdates
    PROVE  /\ \A t \in Tags : tagData'[t].cursor \in Positions
           /\ \A t \in Tags : tagData'[t].subs \subseteq tagData[t].subs
           /\ \A t \in Tags : tagData'[t].subs # {} => tagData[t].cursor <= tagData'[t].cursor
           /\ \A u \in query.updates :
                 tagData'[u.tag].subs # {} => tagData'[u.tag].cursor = u.cursor
           /\ \A t \in Tags :
                 (tagData'[t].subs # {} /\ \A u \in query.updates : u.tag # t)
                     => tagData'[t].cursor = tagData[t].cursor
PROOF
<1> DEFINE evicted == {s \in Receivers : ~Accepts(s)}
<1>1. TypeOK /\ TableInv /\ QueryInv
  BY DEF IInv
<1>2. tagData' = WithoutSubs(AdvancedTags, evicted)
  BY DEF ForwardUpdates
<1> HIDE DEF evicted
<1>3. \A t \in Tags :
         /\ tagData'[t].subs = AdvancedTags[t].subs \ evicted
         /\ tagData'[t].cursor \in {0, AdvancedTags[t].cursor}
         /\ tagData'[t].subs # {} => tagData'[t].cursor = AdvancedTags[t].cursor
  BY <1>1, <1>2, AdvancedIs, WithoutSubsIs
<1>4. ASSUME NEW u \in query.updates
      PROVE  u.tag \in Tags /\ u.cursor \in Positions /\ tagData[u.tag].cursor <= u.cursor
  <2>1. u \in Update /\ u.tag \in Tags
    BY <1>1 DEF TypeOK, Query, Update
  <2>2. tagData[u.tag].cursor \in Nat /\ IsStretch(rows, Stored, u, tagData[u.tag].cursor)
    BY <1>1, <2>1, PositionsAreNat DEF IInv, CursorsStored, QueryInv
  <2> QED BY <1>1, <2>1, <2>2, StretchIs
<1>5. ASSUME NEW t \in Tags
      PROVE  AdvancedTags[t].cursor \in Positions /\ tagData[t].cursor <= AdvancedTags[t].cursor
  <2>1. CASE \A u \in query.updates : u.tag # t
    <3>1. AdvancedTags[t] = tagData[t]
      BY <1>1, <2>1, AdvancedIs
    <3>2. tagData[t].cursor \in Positions /\ tagData[t].cursor \in Nat
      BY <1>1, PositionsAreNat DEF IInv, CursorsStored
    <3> QED BY <3>1, <3>2
  <2>2. CASE \E u \in query.updates : u.tag = t
    BY <1>1, <1>4, <2>2, AdvancedIs
  <2> QED BY <2>1, <2>2
<1>6. \A t \in Tags : AdvancedTags[t].subs = tagData[t].subs
  BY <1>1, AdvancedIs
<1>7. \A u \in query.updates : AdvancedTags[u.tag].cursor = u.cursor
  BY <1>1, AdvancedIs
<1>8. 0 \in Positions
  BY DEF Positions
<1>9. \A t \in Tags : (\A u \in query.updates : u.tag # t) => AdvancedTags[t] = tagData[t]
  BY <1>1, AdvancedIs
<1> QED BY <1>3, <1>4, <1>5, <1>6, <1>7, <1>8, <1>9

\* A subscription gets nothing, or the update of its tag.
LEMMA ForwardedTo ==
    ASSUME IInv, ForwardUpdates, NEW s \in Subs
    PROVE  /\ got'[s] = got[s]
           /\ \/ chan'[s] = chan[s]
              \/ /\ Subscribed(s) /\ s \in wakers
                 /\ \E u \in query.updates : u.tag = SubTag[s] /\ chan'[s] = Append(chan[s], u)
PROOF
<1>1. got' = got
      /\ chan' = [q \in Subs |->
                     IF q \in Receivers \ {x \in Receivers : ~Accepts(x)}
                     THEN Append(chan[q], CHOOSE u \in query.updates : u.tag = SubTag[q])
                     ELSE chan[q]]
  BY DEF ForwardUpdates
<1>2. CASE s \in Receivers \ {x \in Receivers : ~Accepts(x)}
  <2>1. PICK u \in query.updates : u.tag = SubTag[s] /\ s \in tagData[u.tag].subs
    BY <1>2 DEF Receivers
  <2>2. chan'[s] = Append(chan[s], u)
    BY <1>1, <1>2, <2>1, ChosenUpdate DEF IInv
  <2>3. s \in wakers
    BY <1>2 DEF Receivers
  <2> QED BY <1>1, <2>1, <2>2, <2>3 DEF Subscribed
<1>3. CASE s \notin Receivers \ {x \in Receivers : ~Accepts(x)}
  BY <1>1, <1>3
<1> QED BY <1>2, <1>3

\* A subscription that waits gets the update of its tag, or is given up because
\* its channel is full.
LEMMA ForwardedWaiting ==
    ASSUME IInv, ForwardUpdates, NEW s \in wakers, Subscribed(s),
           NEW u \in query.updates, u.tag = SubTag[s]
    PROVE  /\ Accepts(s) => chan'[s] = Append(chan[s], u)
           /\ ~Accepts(s) => ~Subscribed(s)'
PROOF
<1> DEFINE evicted == {q \in Receivers : ~Accepts(q)}
<1>1. s \in Subs /\ SubTag[s] \in Tags
  BY SubAssumption DEF IInv, TypeOK
<1>2. s \in Receivers
  BY DEF Receivers, Subscribed
<1>3. CASE Accepts(s)
  <2>1. chan'[s] = Append(chan[s], CHOOSE v \in query.updates : v.tag = SubTag[s])
    BY <1>1, <1>2, <1>3 DEF ForwardUpdates
  <2> QED BY <1>3, <2>1, ChosenUpdate DEF IInv
<1>4. CASE ~Accepts(s)
  <2>1. s \in evicted
    BY <1>2, <1>4
  <2>2. tagData' = WithoutSubs(AdvancedTags, evicted)
    BY DEF ForwardUpdates
  <2>3. AdvancedTags \in [Tags -> TagEntry]
    BY AdvancedIs DEF IInv
  <2> HIDE DEF evicted
  <2>4. tagData'[SubTag[s]].subs = AdvancedTags[SubTag[s]].subs \ evicted
    BY <1>1, <2>2, <2>3, WithoutSubsIs
  <2> QED BY <1>4, <2>1, <2>4 DEF Subscribed
<1> QED BY <1>3, <1>4

\* A forwarded update starts where the stream it goes to had come to.
LEMMA DataForward ==
    ASSUME IInv, TypeOK', ForwardUpdates
    PROVE  DataInv'
PROOF
<1>1. /\ TypeOK /\ TableInv /\ rows' = rows /\ sqliteSeq' = sqliteSeq
      /\ Stored' = Stored /\ Positions' = Positions
  BY DEF IInv, ForwardUpdates, table, Positions, Stored
<1>2. TableInv' /\ CursorsStored'
  BY <1>1, ForwardedCursors DEF IInv, TableInv, CursorsStored
<1>3. QueryInv'
  BY DEF ForwardUpdates, NextRound, Asleep, QueryInv
<1>4. ASSUME NEW s \in Subs, Subscribed(s)'
      PROVE  Subscribed(s) /\ SubTag[s] \in Tags /\ tagData'[SubTag[s]].subs # {}
             /\ tagData[SubTag[s]].cursor <= tagData'[SubTag[s]].cursor
  BY <1>4, ForwardedCursors, SubAssumption DEF Subscribed
<1>5. \A t \in Tags : tagData[t].cursor \in Nat /\ tagData'[t].cursor \in Nat
  BY <1>1, ForwardedCursors, PositionsAreNat DEF IInv, CursorsStored
<1>6. ASSUME NEW s \in Subs, NEW i \in 1 .. Len(Stream(s))
      PROVE  /\ Stream(s)[i].tag = SubTag[s]
             /\ \E p \in Positions : IsStretch(rows, Stored, Stream(s)[i], p)
             /\ Subscribed(s) => \A q \in Stream(s)[i].notes :
                    q.seq \in Nat /\ q.seq <= tagData[SubTag[s]].cursor
             /\ Subscribed(s)' => Stream(s)[i].cursor <= tagData'[SubTag[s]].cursor
  <2>1. Stream(s)[i] \in Update
    BY <1>1, StreamsAre
  <2>2. PICK p \in Positions : IsStretch(rows, Stored, Stream(s)[i], p)
    BY DEF IInv, StreamInv
  <2>3. p \in Nat
    BY <1>1, PositionsAreNat
  <2>4. Stream(s)[i].cursor \in Nat
        /\ \A q \in Stream(s)[i].notes : q.seq \in Nat /\ q.seq <= Stream(s)[i].cursor
    BY <1>1, <2>1, <2>2, <2>3, StretchIs
  <2>5. Subscribed(s) => Stream(s)[i].cursor <= tagData[SubTag[s]].cursor
    BY DEF IInv, StreamInv
  <2>6. SubTag[s] \in Tags
    BY SubAssumption
  <2>7. Subscribed(s)' => Stream(s)[i].cursor <= tagData'[SubTag[s]].cursor
    BY <1>4, <1>5, <2>4, <2>5, <2>6
  <2>8. Subscribed(s) => \A q \in Stream(s)[i].notes :
            q.seq \in Nat /\ q.seq <= tagData[SubTag[s]].cursor
    BY <1>5, <2>4, <2>5, <2>6
  <2> QED BY <2>2, <2>7, <2>8 DEF IInv, StreamInv
<1>7. ASSUME NEW s \in Subs
      PROVE  /\ \A i \in 1 .. Len(Stream(s)') :
                   LET u == Stream(s)'[i]
                   IN  /\ u.tag = SubTag[s]
                       /\ \E p \in Positions : IsStretch(rows, Stored, u, p)
                       /\ Subscribed(s)' => u.cursor <= tagData'[SubTag[s]].cursor
             /\ \A i, j \in 1 .. Len(Stream(s)') :
                   i < j => \A q \in Stream(s)'[i].notes, r \in Stream(s)'[j].notes :
                               q.seq < r.seq
  <2>1. CASE chan'[s] = chan[s]
    <3>1. Stream(s)' = Stream(s)
      BY <1>1, <2>1, ForwardedTo, StreamKept
    <3> QED BY <1>6, <3>1 DEF IInv, InOrderOnce
  <2>2. ASSUME Subscribed(s), NEW u \in query.updates, u.tag = SubTag[s],
               chan'[s] = Append(chan[s], u)
        PROVE  <1>7!2
    <3> DEFINE n == Len(Stream(s))
               c == tagData[SubTag[s]].cursor
    <3>1. u \in Update
      BY <1>1 DEF TypeOK, Query
    <3>2. /\ Len(Stream(s)') = n + 1 /\ n \in Nat
          /\ \A i \in 1 .. n : Stream(s)'[i] = Stream(s)[i]
          /\ Stream(s)'[n + 1] = u
      BY <1>1, <2>2, <3>1, ForwardedTo, StreamForwarded, StreamIs
    <3>3. c \in Positions /\ c \in Nat /\ IsStretch(rows, Stored, u, c)
      BY <1>5, <2>2, SubAssumption DEF IInv, QueryInv, CursorsStored
    <3>4. \A r \in u.notes : r.seq \in Nat /\ c < r.seq
      BY <1>1, <3>1, <3>3, StretchIs
    <3>5. Subscribed(s)' => u.cursor <= tagData'[SubTag[s]].cursor
      <4>1. ASSUME Subscribed(s)' PROVE u.cursor = tagData'[SubTag[s]].cursor
        BY <1>4, <2>2, <4>1, ForwardedCursors
      <4>2. u.cursor \in Nat
        BY <3>1 DEF Update
      <4> QED BY <4>1, <4>2
    <3>6. \A i \in 1 .. n : \A q \in Stream(s)[i].notes : q.seq \in Nat /\ q.seq <= c
      BY <1>6, <2>2
    <3> HIDE DEF n, c
    <3>7. ASSUME NEW i \in 1 .. Len(Stream(s)')
          PROVE  /\ Stream(s)'[i].tag = SubTag[s]
                 /\ \E p \in Positions : IsStretch(rows, Stored, Stream(s)'[i], p)
                 /\ Subscribed(s)' => Stream(s)'[i].cursor <= tagData'[SubTag[s]].cursor
      <4>1. CASE i = n + 1
        BY <2>2, <3>2, <3>3, <3>5, <4>1
      <4>2. CASE i # n + 1
        <5>1. i \in 1 .. n
          BY <3>2, <4>2
        <5> QED BY <1>6, <3>2, <5>1 DEF n
      <4> QED BY <4>1, <4>2
    <3>8. ASSUME NEW i \in 1 .. Len(Stream(s)'), NEW j \in 1 .. Len(Stream(s)'), i < j,
                 NEW q \in Stream(s)'[i].notes, NEW r \in Stream(s)'[j].notes
          PROVE  q.seq < r.seq
      <4>1. i \in 1 .. n
        BY <3>2, <3>8
      <4>2. CASE j = n + 1
        BY <3>2, <3>3, <3>4, <3>6, <3>8, <4>1, <4>2
      <4>3. CASE j # n + 1
        <5>1. j \in 1 .. n
          BY <3>2, <4>3
        <5> QED BY <3>2, <3>8, <4>1, <5>1 DEF IInv, InOrderOnce, n
      <4> QED BY <4>2, <4>3
    <3> QED BY <3>7, <3>8
  <2> QED BY <2>1, <2>2, ForwardedTo
<1>8. StreamInv' /\ InOrderOnce'
  BY <1>1, <1>7 DEF StreamInv, InOrderOnce
<1> QED BY <1>2, <1>3, <1>8 DEF DataInv
\* An update that is delivered moves within its stream; one that waits when
\* the subscription goes is lost with what follows it.
LEMMA DataClient ==
    ASSUME IInv, TypeOK', NEW s \in Subs, DeliverUpdate(s) \/ DropSub(s)
    PROVE  DataInv'
PROOF
<1>1. UNCHANGED table /\ tagData' = tagData /\ query' = query
  BY DEF DeliverUpdate, DropSub, manager
<1>2. got \in [Subs -> Seq(Update)] /\ chan \in [Subs -> Seq(Update)]
  BY DEF IInv, TypeOK
<1>3. ASSUME NEW q \in Subs, q # s PROVE IsPrefixed(q)
  <2>1. got'[q] = got[q] /\ chan'[q] = chan[q]
    BY <1>2, <1>3 DEF DeliverUpdate, DropSub
  <2> QED BY <2>1, StreamKept DEF IInv
<1>4. IsPrefixed(s)
  <2>1. CASE DeliverUpdate(s)
    <3>1. chan[s] # <<>> /\ got'[s] = Append(got[s], Head(chan[s])) /\ chan'[s] = Tail(chan[s])
      BY <1>2, <2>1 DEF DeliverUpdate
    <3> QED BY <3>1, StreamDelivered DEF IInv
  <2>2. CASE DropSub(s)
    <3>1. got'[s] = got[s] /\ chan'[s] = <<>>
      BY <1>2, <2>2 DEF DropSub
    <3> QED BY <3>1, StreamDropped DEF IInv
  <2> QED BY <2>1, <2>2
<1>5. \A t \in Tags : tagData'[t].cursor \in Positions
  BY <1>1 DEF IInv, CursorsStored
<1>6. \A q \in Subs : Subscribed(q)' =>
          Subscribed(q) /\ tagData'[SubTag[q]].cursor = tagData[SubTag[q]].cursor
  BY <1>1 DEF Subscribed
<1>7. \A q \in Subs : IsPrefixed(q)
  BY <1>3, <1>4
<1> QED BY <1>1, <1>5, <1>6, <1>7, QuietData

LEMMA DataStep ==
    ASSUME IInv, TypeOK', [Next]_vars
    PROVE  DataInv'
PROOF
<1>1. CASE HandleControl \/ HandleShutdown \/ StopServer
  BY <1>1, DataControl
<1>2. CASE TableStep
  BY <1>2, DataTable
<1>3. CASE \E t \in Tags : ReadTag(t)
  BY <1>3, DataRead
<1>4. CASE ForwardUpdates
  BY <1>4, DataForward
<1>5. CASE \E s \in Subs : DeliverUpdate(s) \/ DropSub(s)
  BY <1>5, DataClient
<1>6. CASE Tick \/ StartQuery \/ HandleOther \/ QueryFails
  <2>1. UNCHANGED <<table, tagData, got, chan>> /\ (query' = query \/ query'.updates = {})
    BY <1>6 DEF Tick, StartQuery, HandleOther, QueryFails, NextRound, Asleep, clients
  <2> QED BY <2>1, IdleData
<1>7. ASSUME NEW s \in Subs,
             OpenStream(s) \/ Park(s) \/ EndStream(s) \/ Disconnect(s) \/ SpuriousWake(s)
      PROVE  DataInv'
  <2>1. UNCHANGED <<table, tagData, got, chan>> /\ query' = query
    BY <1>7 DEF OpenStream, Park, EndStream, Disconnect, SpuriousWake, manager
  <2> QED BY <2>1, IdleData
<1>8. CASE UNCHANGED vars
  <2>1. UNCHANGED <<table, tagData, got, chan>> /\ query' = query
    BY <1>8 DEF vars, manager, clients
  <2> QED BY <2>1, IdleData
<1> QED BY <1>1, <1>2, <1>3, <1>4, <1>5, <1>6, <1>7, <1>8
       DEF Next, StreamerStep, SubStep, TableStep
-----------------------------------------------------------------------------
(* What a subscription has sent and asked for.                             *)

\* The numbers of SubInv before and after a step.
LEMMA SubTypes ==
    ASSUME TypeOK, TypeOK', NEW s \in Subs
    PROVE  /\ Len(chan[s]) \in Nat /\ Len(chan'[s]) \in Nat
           /\ Len(chan[s]) = 0 <=> chan[s] = <<>>
           /\ Len(chan'[s]) = 0 <=> chan'[s] = <<>>
           /\ Stream(s) = <<>> => chan[s] = <<>>
           /\ budget.spurious \in Nat /\ budget'.spurious \in Nat
           /\ Held(s) \in 0 .. 1 /\ Held(s)' \in 0 .. 1
           /\ \A k : Count(s, k) \in Nat /\ Count(s, k)' \in Nat
           /\ SenderGone(s) <=> ~Subscribed(s) /\ Count(s, "AddSub") = 0
           /\ SenderGone(s)' <=> ~Subscribed(s)' /\ Count(s, "AddSub")' = 0
PROOF
<1>1. /\ chan \in [Subs -> Seq(Update)] /\ chan' \in [Subs -> Seq(Update)]
      /\ got \in [Subs -> Seq(Update)]
  BY DEF TypeOK
<1>2. /\ Len(chan[s]) \in Nat /\ Len(chan'[s]) \in Nat
      /\ Len(chan[s]) = 0 <=> chan[s] = <<>>
      /\ Len(chan'[s]) = 0 <=> chan'[s] = <<>>
  BY <1>1, EmptySeq
<1>3. Stream(s) = <<>> => chan[s] = <<>>
  <2>1. Len(Stream(s)) = Len(got[s]) + Len(chan[s]) /\ Len(got[s]) \in Nat
    BY <1>1, StreamIs
  <2>2. Stream(s) = <<>> => Len(Stream(s)) = 0
    BY EmptySeq
  <2>3. Len(Stream(s)) = 0 => Len(chan[s]) = 0
    <3> DEFINE g == Len(got[s])
               c == Len(chan[s])
    <3>1. g \in Nat /\ c \in Nat /\ Len(Stream(s)) = g + c
      BY <1>2, <2>1
    <3> HIDE DEF g, c
    <3>2. Len(Stream(s)) = 0 => c = 0
      BY <3>1
    <3> QED BY <3>2 DEF c
  <2> QED BY <1>2, <2>2, <2>3
<1>4. budget.spurious \in Nat /\ budget'.spurious \in Nat
  BY DEF TypeOK, Budget
<1>5. Held(s) \in 0 .. 1 /\ Held(s)' \in 0 .. 1
  BY DEF Held
<1>6. \A k : Count(s, k) \in Nat /\ Count(s, k)' \in Nat
  BY CountIs, CountIsNext
<1> QED BY <1>2, <1>3, <1>4, <1>5, <1>6, SenderGoneIs

\* A step that concerns other subscriptions only.
LEMMA SubQuiet ==
    ASSUME TypeOK, TypeOK', NEW s \in Subs, SubInv(s),
           sub'[s] = sub[s], parked'[s] = parked[s], got'[s] = got[s], chan'[s] = chan[s],
           s \in wakers' <=> s \in wakers, Subscribed(s)' <=> Subscribed(s),
           budget'.spurious = budget.spurious,
           \A k \in {"AddSub", "RemoveSub", "Waker"} : Count(s, k)' = Count(s, k)
    PROVE  SubInv(s)'
PROOF
<1>1. Stream(s)' = Stream(s) /\ Held(s)' = Held(s)
  BY DEF Stream, Held
<1>2. Load(s)' = Load(s)
  BY <1>1 DEF Load
<1>3. Polled(s)' <=> Polled(s)
  BY DEF Polled
<1>4. SenderGone(s)' <=> SenderGone(s)
  BY SubTypes
<1>5. MessageInv(s)'
  BY <1>1 DEF SubInv, MessageInv
<1>6. LoadInv(s)'
  BY <1>2, <1>3, <1>4 DEF SubInv, LoadInv
<1>7. ParkedInv(s)'
  BY <1>4 DEF SubInv, ParkedInv
<1> QED BY <1>5, <1>6, <1>7 DEF SubInv

\* A message leaves the control channel.
LEMMA SubControl ==
    ASSUME IInv, TypeOK', HandleControl, NEW s \in Subs
    PROVE  SubInv(s)'
PROOF
<1>1. TypeOK /\ SubInv(s) /\ ctrl # <<>> /\ ctrl' = Tail(ctrl)
      /\ UNCHANGED <<sub, chan, got, budget>>
  BY DEF IInv, HandleControl
<1>2. PICK m \in Subs :
        /\ \/ Head(ctrl).kind = "AddSub" /\ HandleAddSub(m)
           \/ Head(ctrl).kind = "RemoveSub" /\ HandleRemoveSub(m)
           \/ Head(ctrl).kind = "Waker" /\ HandleWaker(m)
        /\ m = Head(ctrl).sub
  BY <1>1, HeadIs DEF HandleControl
<1>3. Stream(s)' = Stream(s)
  BY <1>1 DEF Stream
<1>4. SubTag[s] \in Tags
  BY SubAssumption
<1>5. CASE Head(ctrl).kind = "AddSub" /\ HandleAddSub(m)
  <2>1. wakers' = wakers /\ parked' = parked /\ Held(s)' = Held(s)
        /\ (Subscribed(s)' <=> Subscribed(s) \/ s = m)
    <3>1. wakers' = wakers /\ parked' = parked
      BY <1>5 DEF HandleAddSub
    <3>2. tagData'[SubTag[s]].subs = IF SubTag[s] = SubTag[m] THEN tagData[SubTag[s]].subs \cup {m}
                                     ELSE tagData[SubTag[s]].subs
      BY <1>1, <1>4, <1>5, AddSubIs
    <3> QED BY <3>1, <3>2 DEF Held, Subscribed
  <2>2. CASE s # m
    <3>1. \A k : Count(s, k)' = Count(s, k)
      BY <1>1, <1>2, <2>2, CountReceived
    <3> QED BY <1>1, <2>1, <2>2, <3>1, SubQuiet
  <2>3. CASE s = m
    <3>1. /\ Count(s, "AddSub") > 0 /\ Count(s, "AddSub")' = Count(s, "AddSub") - 1
          /\ Count(s, "RemoveSub")' = Count(s, "RemoveSub")
          /\ Count(s, "Waker")' = Count(s, "Waker")
      BY <1>1, <1>2, <1>5, <2>3, CountReceived
    <3>2. sub[s] # "new" /\ Count(s, "AddSub")' = 0
      BY <1>1, <3>1, SubTypes DEF SubInv, MessageInv
    <3>3. MessageInv(s)'
      BY <1>1, <1>3, <3>1, <3>2 DEF SubInv, MessageInv
    <3>4. LoadInv(s)' /\ ParkedInv(s)'
      <4>1. ~SenderGone(s) /\ ~SenderGone(s)'
        BY <1>1, <2>1, <2>3, <3>1, SubTypes
      <4>2. Load(s)' = Load(s) /\ (Polled(s)' <=> Polled(s))
        BY <1>1, <2>1, <3>1 DEF Load, Polled
      <4> QED BY <1>1, <2>1, <3>1, <4>1, <4>2 DEF SubInv, LoadInv, ParkedInv
    <3> QED BY <3>3, <3>4 DEF SubInv
  <2> QED BY <2>2, <2>3
<1>6. CASE Head(ctrl).kind = "RemoveSub" /\ HandleRemoveSub(m)
  <2>1. wakers' = wakers /\ Held(s)' = Held(s)
        /\ parked' = [parked EXCEPT ![m] = FALSE]
        /\ (Subscribed(s)' <=> Subscribed(s) /\ s # m)
    <3>1. wakers' = wakers /\ parked' = [parked EXCEPT ![m] = FALSE]
          /\ tagData' = WithoutSubs(tagData, {m}) /\ tagData \in [Tags -> TagEntry]
      BY <1>1, <1>6 DEF HandleRemoveSub, TypeOK
    <3>2. tagData'[SubTag[s]].subs = tagData[SubTag[s]].subs \ {m}
      BY <1>4, <3>1, WithoutSubsIs
    <3> QED BY <3>1, <3>2 DEF Held, Subscribed
  <2>2. CASE s # m
    <3>1. \A k : Count(s, k)' = Count(s, k)
      BY <1>1, <1>2, <2>2, CountReceived
    <3>2. parked'[s] = parked[s]
      BY <1>1, <2>1, <2>2 DEF TypeOK
    <3> QED BY <1>1, <2>1, <2>2, <3>1, <3>2, SubQuiet
  <2>3. CASE s = m
    <3>1. /\ Count(s, "RemoveSub") > 0
          /\ Count(s, "AddSub")' = Count(s, "AddSub")
          /\ Count(s, "Waker")' = Count(s, "Waker")
      BY <1>1, <1>2, <1>6, <2>3, CountReceived
    <3>2. sub'[s] = "closed" /\ ~Polled(s)'
      BY <1>1, <3>1 DEF SubInv, MessageInv, Polled
    <3>3. MessageInv(s)'
      BY <1>1, <1>3, <2>1, <3>1, <3>2 DEF SubInv, MessageInv
    <3>4. Load(s)' = Load(s)
      BY <1>1, <2>1, <3>1 DEF Load
    <3> QED BY <1>1, <3>2, <3>3, <3>4 DEF SubInv, LoadInv, ParkedInv
  <2> QED BY <2>2, <2>3
<1>7. CASE Head(ctrl).kind = "Waker" /\ HandleWaker(m)
  <2>1. wakers' = wakers \cup {m} /\ tagData' = tagData /\ parked' = parked
        /\ (Subscribed(s)' <=> Subscribed(s))
    BY <1>7 DEF HandleWaker, Subscribed
  <2>2. CASE s # m
    <3>1. \A k : Count(s, k)' = Count(s, k)
      BY <1>1, <1>2, <2>2, CountReceived
    <3> QED BY <1>1, <2>1, <2>2, <3>1, SubQuiet
  <2>3. CASE s = m
    <3>1. /\ Count(s, "Waker") > 0 /\ Count(s, "Waker")' = Count(s, "Waker") - 1
          /\ Count(s, "RemoveSub")' = Count(s, "RemoveSub")
          /\ Count(s, "AddSub")' = Count(s, "AddSub")
      BY <1>1, <1>2, <1>7, <2>3, CountReceived
    <3>2. sub[s] # "new" /\ s \in wakers'
      BY <1>1, <2>1, <2>3, <3>1, SubTypes DEF SubInv, MessageInv
    <3>3. MessageInv(s)'
      BY <1>1, <1>3, <2>1, <3>1, <3>2 DEF SubInv, MessageInv
    <3>4. (SenderGone(s)' <=> SenderGone(s)) /\ (Polled(s)' <=> Polled(s))
      BY <1>1, <2>1, <3>1, SubTypes DEF Polled
    <3>5. Load(s)' <= Load(s) /\ Load(s)' \in Nat /\ Load(s) \in Nat
      <4>1. Held(s) \in 0 .. 1 /\ Held(s)' \in 0 .. 1 /\ Held(s)' <= Held(s) + 1
            /\ Len(chan[s]) \in Nat /\ Count(s, "Waker") \in Nat
        BY <1>1, SubTypes
      <4>2. Len(chan'[s]) = Len(chan[s])
        BY <1>1
      <4>3. Load(s) = Len(chan[s]) + Count(s, "Waker") + Held(s)
            /\ Load(s)' = Len(chan'[s]) + Count(s, "Waker")' + Held(s)'
        BY DEF Load
      <4> QED BY <3>1, <4>1, <4>2, <4>3
    <3>6. budget.spurious \in Nat /\ budget'.spurious = budget.spurious
      BY <1>1, SubTypes
    <3>7. LoadInv(s)'
      BY <1>1, <3>4, <3>5, <3>6 DEF SubInv, LoadInv
    <3>8. ParkedInv(s)'
      BY <1>1, <2>1, <3>2, <3>4 DEF SubInv, ParkedInv
    <3> QED BY <3>3, <3>7, <3>8 DEF SubInv
  <2> QED BY <2>2, <2>3
<1> QED BY <1>2, <1>5, <1>6, <1>7
\* The updates that a round forwards are paid for with wakers.
LEMMA SubForward ==
    ASSUME IInv, TypeOK', ForwardUpdates, NEW s \in Subs
    PROVE  SubInv(s)'
PROOF
<1> DEFINE evicted == {x \in Receivers : ~Accepts(x)}
<1>1. /\ TypeOK /\ SubInv(s) /\ UNCHANGED <<ctrl, sub, got, budget>>
      /\ wakers' = wakers \ Receivers
      /\ parked' = [q \in Subs |-> parked[q] /\ q \notin Receivers]
      /\ tagData' = WithoutSubs(AdvancedTags, evicted)
      /\ chan' = [q \in Subs |->
                     IF q \in Receivers \ evicted
                     THEN Append(chan[q], CHOOSE u \in query.updates : u.tag = SubTag[q])
                     ELSE chan[q]]
  BY DEF IInv, ForwardUpdates
<1>2. Subscribed(s)' <=> Subscribed(s) /\ s \notin evicted
  <2>1. AdvancedTags \in [Tags -> TagEntry] /\ SubTag[s] \in Tags
        /\ AdvancedTags[SubTag[s]].subs = tagData[SubTag[s]].subs
    BY <1>1, AdvancedIs, SubAssumption DEF IInv
  <2> HIDE DEF evicted
  <2>2. tagData'[SubTag[s]].subs = tagData[SubTag[s]].subs \ evicted
    BY <1>1, <2>1, WithoutSubsIs
  <2> QED BY <2>2 DEF Subscribed
<1>3. \A k : Count(s, k)' = Count(s, k)
  BY <1>1 DEF Count
<1>4. CASE s \notin Receivers
  <2>1. chan'[s] = chan[s] /\ (s \in wakers' <=> s \in wakers) /\ (Subscribed(s)' <=> Subscribed(s))
    BY <1>1, <1>2, <1>4
  <2>2. parked'[s] = parked[s]
    <3>1. parked'[s] = (parked[s] /\ s \notin Receivers) /\ parked[s] \in BOOLEAN
      BY <1>1 DEF TypeOK
    <3> QED BY <1>4, <3>1
  <2> QED BY <1>1, <1>3, <2>1, <2>2, SubQuiet
<1>5. CASE s \in Receivers
  <2>1. /\ s \in wakers /\ Subscribed(s) /\ sub[s] # "new"
        /\ Count(s, "AddSub") = 0 /\ Count(s, "AddSub")' = 0
    <3>1. s \in wakers /\ Subscribed(s)
      BY <1>5 DEF Receivers, Subscribed
    <3>2. Count(s, "AddSub") = 0
      BY <1>1, <3>1, SubTypes DEF SubInv, MessageInv
    <3> QED BY <1>1, <1>3, <3>1, <3>2 DEF SubInv, MessageInv
  <2>2. Held(s) = 1 /\ Held(s)' = 0 /\ ~parked'[s]
    BY <1>1, <1>5, <2>1 DEF Held
  <2>3. MessageInv(s)'
    BY <1>1, <1>3, <2>1 DEF SubInv, MessageInv
  <2>4. ParkedInv(s)'
    BY <2>2 DEF ParkedInv
  <2>5. Load(s) = Len(chan[s]) + Count(s, "Waker") + 1
        /\ Load(s)' = Len(chan'[s]) + Count(s, "Waker")' + 0
    BY <2>2 DEF Load
  <2>6. Len(chan[s]) \in Nat /\ Count(s, "Waker") \in Nat /\ budget.spurious \in Nat
        /\ Count(s, "Waker")' = Count(s, "Waker") /\ budget'.spurious = budget.spurious
    BY <1>1, <1>3, SubTypes
  <2>7. Load(s) <= 1 + budget.spurious
    BY <1>1 DEF SubInv, LoadInv
  <2>8. CASE s \in evicted
    <3>1. chan'[s] = chan[s]
      BY <1>1, <2>8
    <3>2. SenderGone(s)'
      BY <1>1, <1>2, <2>1, <2>8, SubTypes
    <3>3. Load(s)' <= 1 + budget'.spurious
      BY <2>5, <2>6, <2>7, <3>1
    <3> QED BY <2>3, <2>4, <3>2, <3>3 DEF SubInv, LoadInv
  <2>9. CASE s \notin evicted
    <3>1. PICK u \in query.updates : u.tag = SubTag[s]
      BY <1>5 DEF Receivers
    <3>2. chan'[s] = Append(chan[s], u) /\ u \in Update
      BY <1>1, <1>5, <2>9, <3>1, ChosenUpdate DEF IInv, TypeOK, Query
    <3>3. Len(chan'[s]) = Len(chan[s]) + 1 /\ chan'[s] # <<>>
      <4>1. chan[s] \in Seq(Update)
        BY <1>1 DEF TypeOK
      <4> QED BY <3>2, <4>1
    <3>4. Load(s)' <= 1 + budget'.spurious
      BY <2>5, <2>6, <2>7, <3>3
    <3> QED BY <2>3, <2>4, <3>3, <3>4 DEF SubInv, LoadInv
  <2> QED BY <2>8, <2>9
<1> QED BY <1>4, <1>5

\* When the streamer has ended no subscription is known to it.
LEMMA SubStopped ==
    ASSUME IInv, TypeOK', NEW s \in Subs,
           ctrl' = <<>>, wakers' = {}, tagData' = [t \in Tags |-> NewTag],
           parked' = [q \in Subs |-> FALSE], UNCHANGED <<sub, chan, got, budget>>
    PROVE  SubInv(s)'
PROOF
<1>1. TypeOK /\ SubInv(s) /\ Stream(s)' = Stream(s)
  BY DEF IInv, Stream
<1>2. ~Subscribed(s)' /\ Held(s)' = 0 /\ ~parked'[s] /\ s \notin wakers'
  BY SubAssumption DEF Subscribed, NewTag, Held
<1>3. \A k : Count(s, k)' = 0
  <2> SUFFICES ASSUME NEW k PROVE Count(s, k)' = 0
    OBVIOUS
  <2>1. Sent(s, k)' = {}
    <3>1. Len(ctrl') = 0 /\ 1 .. 0 = {}
      BY EmptySeq
    <3> QED BY <3>1 DEF Sent
  <2> QED BY <2>1, CountIsNext
<1>4. SenderGone(s)'
  BY <1>1, <1>2, <1>3, SubTypes
<1>5. MessageInv(s)'
  BY <1>1, <1>2, <1>3 DEF SubInv, MessageInv
<1>6. Load(s)' <= 1 + budget'.spurious
  <2>1. Load(s) = Len(chan[s]) + Count(s, "Waker") + Held(s)
        /\ Load(s)' = Len(chan[s]) + 0 + 0
    BY <1>2, <1>3 DEF Load
  <2>2. Len(chan[s]) \in Nat /\ Count(s, "Waker") \in Nat /\ Held(s) \in 0 .. 1
        /\ budget.spurious \in Nat /\ budget'.spurious = budget.spurious
    BY <1>1, SubTypes
  <2>3. Load(s) <= 1 + budget.spurious
    BY <1>1 DEF SubInv, LoadInv
  <2> QED BY <2>1, <2>2, <2>3
<1> QED BY <1>2, <1>4, <1>5, <1>6 DEF SubInv, LoadInv, ParkedInv

\* What a message adds to the counts.
LEMMA CountSent ==
    ASSUME TypeOK, NEW k \in {"AddSub", "RemoveSub", "Waker"}, NEW q \in Subs,
           ctrl' = Append(ctrl, [kind |-> k, sub |-> q]), NEW s \in Subs
    PROVE  /\ s = q => Count(s, k)' = Count(s, k) + 1
           /\ \A l : ~(s = q /\ l = k) => Count(s, l)' = Count(s, l)
PROOF
<1> DEFINE m == [kind |-> k, sub |-> q]
<1>1. m \in Message /\ m.kind = k /\ m.sub = q
  BY DEF Message
<1>2. ctrl' = Append(ctrl, m)
  OBVIOUS
<1> HIDE DEF m
<1> QED BY <1>1, <1>2, CtrlAppend, CtrlAppendOther

LEMMA CountShutdown ==
    ASSUME TypeOK, ctrl' = Append(ctrl, [kind |-> "Shutdown"]), NEW s \in Subs,
           NEW k \in {"AddSub", "RemoveSub", "Waker"}
    PROVE  Count(s, k)' = Count(s, k)
PROOF
<1> DEFINE m == [kind |-> "Shutdown"]
<1>1. m \in Message /\ m.kind # k
  BY DEF Message
<1>2. ctrl' = Append(ctrl, m)
  OBVIOUS
<1> HIDE DEF m
<1> QED BY <1>1, <1>2, CtrlAppendOther
\* The steps of subscription q, seen from another one.
LEMMA SubOthers ==
    ASSUME IInv, TypeOK', NEW q \in Subs, NEW s \in Subs, s # q,
           OpenStream(q) \/ SubStep(q) \/ Disconnect(q)
    PROVE  SubInv(s)'
PROOF
<1>1. TypeOK /\ SubInv(s) /\ wakers' = wakers /\ tagData' = tagData /\ budget' = budget
  BY DEF IInv, OpenStream, SubStep, DeliverUpdate, Park, EndStream, DropSub, Disconnect, manager
<1>2. /\ sub'[s] = sub[s] /\ parked'[s] = parked[s] /\ got'[s] = got[s] /\ chan'[s] = chan[s]
  BY <1>1 DEF TypeOK, OpenStream, SubStep, DeliverUpdate, Park, EndStream, DropSub, Disconnect
<1>3. \/ ctrl' = ctrl
      \/ \E k \in {"AddSub", "RemoveSub", "Waker"} : ctrl' = Append(ctrl, [kind |-> k, sub |-> q])
  BY DEF OpenStream, SubStep, DeliverUpdate, Park, EndStream, DropSub, Disconnect
<1>4. \A k \in {"AddSub", "RemoveSub", "Waker"} : Count(s, k)' = Count(s, k)
  <2>1. CASE ctrl' = ctrl
    BY <2>1 DEF Count
  <2>2. CASE \E k \in {"AddSub", "RemoveSub", "Waker"} :
                 ctrl' = Append(ctrl, [kind |-> k, sub |-> q])
    BY <1>1, <2>2, CountSent
  <2> QED BY <1>3, <2>1, <2>2
<1>5. (Subscribed(s)' <=> Subscribed(s)) /\ budget'.spurious = budget.spurious
  BY <1>1 DEF Subscribed
<1> QED BY <1>1, <1>2, <1>4, <1>5, SubQuiet

LEMMA SubOpens ==
    ASSUME IInv, TypeOK', NEW s \in Subs, OpenStream(s)
    PROVE  SubInv(s)'
PROOF
<1>1. /\ TypeOK /\ SubInv(s) /\ UNCHANGED <<tagData, wakers, parked, chan, got, budget>>
      /\ sub[s] = "new"
  BY DEF IInv, OpenStream, manager
<1>2. /\ Stream(s)' = Stream(s) /\ Held(s)' = Held(s) /\ (Subscribed(s)' <=> Subscribed(s))
      /\ ~Subscribed(s) /\ ~parked[s] /\ ~parked'[s] /\ s \notin wakers /\ Stream(s) = <<>>
      /\ Count(s, "AddSub") = 0 /\ Count(s, "Waker") = 0 /\ Count(s, "RemoveSub") = 0
  BY <1>1, SubTypes DEF Stream, Held, Subscribed, SubInv, MessageInv
<1>3. sub'[s] # "new"
  BY <1>1 DEF OpenStream, TypeOK
<1>4. /\ Count(s, "Waker")' = 0 /\ Count(s, "RemoveSub")' = 0
      /\ Count(s, "AddSub")' \in 0 .. 1
  <2>1. CASE ctrl' = Append(ctrl, [kind |-> "AddSub", sub |-> s])
    BY <1>1, <1>2, <2>1, CountSent
  <2>2. CASE ctrl' = ctrl
    BY <1>2, <2>2 DEF Count
  <2> QED BY <2>1, <2>2 DEF OpenStream
<1>5. MessageInv(s)'
  BY <1>2, <1>3, <1>4 DEF MessageInv
<1>6. Load(s)' = 0
  <2>1. Len(chan'[s]) = 0 /\ Held(s)' = 0
    BY <1>1, <1>2, SubTypes DEF Held
  <2> QED BY <1>4, <2>1 DEF Load
<1>7. LoadInv(s)'
  BY <1>1, <1>6, SubTypes DEF LoadInv
<1>8. ParkedInv(s)'
  BY <1>2 DEF ParkedInv
<1> QED BY <1>5, <1>7, <1>8 DEF SubInv

\* An update that is delivered makes room for the next waker.
LEMMA SubDelivers ==
    ASSUME IInv, TypeOK', NEW s \in Subs, DeliverUpdate(s)
    PROVE  SubInv(s)'
PROOF
<1>1. /\ TypeOK /\ SubInv(s) /\ UNCHANGED <<tagData, wakers, ctrl, sub, parked, budget>>
      /\ sub[s] = "open" /\ chan[s] # <<>> /\ ~parked[s]
  BY DEF IInv, DeliverUpdate, manager, Polled
<1>2. chan'[s] = Tail(chan[s])
  BY <1>1 DEF DeliverUpdate, TypeOK
<1>3. /\ \A k : Count(s, k)' = Count(s, k)
      /\ Held(s)' = Held(s) /\ (Subscribed(s)' <=> Subscribed(s))
  BY <1>1 DEF Count, Held, Subscribed
<1>4. Count(s, "AddSub") = 0 /\ Count(s, "AddSub")' = 0
  <2>1. Stream(s) # <<>>
    BY <1>1, SubTypes
  <2>2. ~(Count(s, "AddSub") > 0)
    BY <1>1, <2>1 DEF SubInv, MessageInv
  <2> QED BY <1>1, <1>3, <2>2, SubTypes
<1>5. MessageInv(s)'
  BY <1>1, <1>3, <1>4 DEF SubInv, MessageInv
<1>6. Load(s)' = Load(s) - 1 /\ Load(s) \in Nat
  <2>1. Len(chan'[s]) = Len(chan[s]) - 1 /\ Len(chan[s]) \in Nat
    BY <1>1, <1>2 DEF TypeOK
  <2>2. Load(s) = Len(chan[s]) + Count(s, "Waker") + Held(s)
        /\ Load(s)' = Len(chan'[s]) + Count(s, "Waker") + Held(s)
    BY <1>3 DEF Load
  <2>3. Count(s, "Waker") \in Nat /\ Held(s) \in 0 .. 1
    BY <1>1, SubTypes
  <2> QED BY <2>1, <2>2, <2>3
<1>7. LoadInv(s)'
  <2>1. Load(s) <= 1 + budget.spurious
    BY <1>1 DEF SubInv, LoadInv
  <2>2. budget.spurious \in Nat /\ budget'.spurious = budget.spurious
    BY <1>1, SubTypes
  <2>3. Load(s)' <= budget'.spurious
    BY <1>6, <2>1, <2>2
  <2>4. Load(s)' <= 1 + budget'.spurious
    BY <1>6, <2>2, <2>3
  <2> QED BY <2>3, <2>4 DEF LoadInv
<1>8. ParkedInv(s)'
  BY <1>1 DEF ParkedInv
<1> QED BY <1>5, <1>7, <1>8 DEF SubInv

\* A subscription that parks has sent one waker more.
LEMMA SubParks ==
    ASSUME IInv, TypeOK', NEW s \in Subs, Park(s)
    PROVE  SubInv(s)'
PROOF
<1>1. /\ TypeOK /\ SubInv(s) /\ UNCHANGED <<tagData, wakers, sub, chan, got, budget>>
      /\ Polled(s) /\ sub[s] = "open" /\ chan[s] = <<>> /\ ~SenderGone(s)
      /\ ctrl' = Append(ctrl, [kind |-> "Waker", sub |-> s])
  BY DEF IInv, Park, manager, Polled
<1>2. parked'[s] = TRUE
  BY <1>1 DEF Park, TypeOK
<1>3. /\ Stream(s)' = Stream(s) /\ Held(s)' = Held(s) /\ (Subscribed(s)' <=> Subscribed(s))
  BY <1>1 DEF Stream, Held, Subscribed
<1>4. /\ Count(s, "Waker")' = Count(s, "Waker") + 1
      /\ Count(s, "AddSub")' = Count(s, "AddSub")
      /\ Count(s, "RemoveSub")' = Count(s, "RemoveSub")
  BY <1>1, CountSent
<1>5. MessageInv(s)'
  BY <1>1, <1>3, <1>4 DEF SubInv, MessageInv
<1>6. Load(s)' <= 1 + budget'.spurious
  <2>1. Load(s) = Len(chan[s]) + Count(s, "Waker") + Held(s)
        /\ Load(s)' = Len(chan[s]) + (Count(s, "Waker") + 1) + Held(s)
    BY <1>1, <1>3, <1>4 DEF Load
  <2>2. Len(chan[s]) \in Nat /\ Count(s, "Waker") \in Nat /\ Held(s) \in 0 .. 1
        /\ budget.spurious \in Nat /\ budget'.spurious = budget.spurious
    BY <1>1, SubTypes
  <2>3. Load(s) <= budget.spurious
    BY <1>1 DEF SubInv, LoadInv
  <2> QED BY <2>1, <2>2, <2>3
<1>7. ~SenderGone(s)'
  BY <1>1, <1>3, <1>4, SubTypes
<1>8. Count(s, "Waker")' > 0
  BY <1>1, <1>4, SubTypes
<1> QED BY <1>2, <1>5, <1>6, <1>7, <1>8 DEF SubInv, LoadInv, ParkedInv, Polled

\* A subscription that ends, or whose client leaves, asks for nothing more.
LEMMA SubEnds ==
    ASSUME IInv, TypeOK', NEW s \in Subs, EndStream(s) \/ Disconnect(s) \/ DropSub(s)
    PROVE  SubInv(s)'
PROOF
<1>1. /\ TypeOK /\ SubInv(s) /\ UNCHANGED <<tagData, wakers, parked, got, budget>>
      /\ sub[s] \in {"open", "ending"}
  BY DEF IInv, EndStream, Disconnect, DropSub, manager, Polled
<1>2. sub'[s] = IF DropSub(s) THEN "closed" ELSE "ending"
  BY <1>1 DEF TypeOK, EndStream, Disconnect, DropSub, Polled
<1>3. Held(s)' = Held(s) /\ (Subscribed(s)' <=> Subscribed(s))
  BY <1>1 DEF Held, Subscribed
<1>4. /\ Count(s, "Waker")' = Count(s, "Waker")
      /\ Count(s, "AddSub")' = Count(s, "AddSub")
      /\ ~DropSub(s) => Count(s, "RemoveSub")' = Count(s, "RemoveSub")
  <2>1. CASE ctrl' = Append(ctrl, [kind |-> "RemoveSub", sub |-> s]) /\ DropSub(s)
    BY <1>1, <2>1, CountSent
  <2>2. CASE ctrl' = ctrl
    BY <2>2 DEF Count
  <2> QED BY <2>1, <2>2 DEF EndStream, Disconnect, DropSub
<1>5. chan'[s] = chan[s] \/ (DropSub(s) /\ chan'[s] = <<>>)
  BY <1>1 DEF TypeOK, EndStream, Disconnect, DropSub
<1>6. Stream(s) = <<>> => Stream(s)' = <<>>
  <2>1. ASSUME Stream(s) = <<>> PROVE chan'[s] = chan[s]
    BY <1>1, <1>5, <2>1, SubTypes
  <2> QED BY <1>1, <2>1 DEF Stream
<1>7. MessageInv(s)'
  <2>1. Count(s, "RemoveSub")' > 0 => sub'[s] = "closed"
    <3>1. CASE DropSub(s)
      BY <1>2, <3>1
    <3>2. CASE ~DropSub(s)
      BY <1>1, <1>4, <3>2 DEF SubInv, MessageInv
    <3> QED BY <3>1, <3>2
  <2>2. sub'[s] # "new"
    BY <1>2
  <2> QED BY <1>1, <1>3, <1>4, <1>6, <2>1, <2>2 DEF SubInv, MessageInv
<1>8. Load(s)' <= 1 + budget'.spurious
  <2>1. Load(s) = Len(chan[s]) + Count(s, "Waker") + Held(s)
        /\ Load(s)' = Len(chan'[s]) + Count(s, "Waker") + Held(s)
    BY <1>3, <1>4 DEF Load
  <2>2. Len(chan[s]) \in Nat /\ Len(chan'[s]) \in Nat /\ Len(chan'[s]) <= Len(chan[s])
        /\ Count(s, "Waker") \in Nat /\ Held(s) \in 0 .. 1
        /\ budget.spurious \in Nat /\ budget'.spurious = budget.spurious
    BY <1>1, <1>5, SubTypes
  <2>3. Load(s) <= 1 + budget.spurious
    BY <1>1 DEF SubInv, LoadInv
  <2> QED BY <2>1, <2>2, <2>3
<1> QED BY <1>2, <1>7, <1>8 DEF SubInv, LoadInv, ParkedInv, Polled

LEMMA SubWakes ==
    ASSUME IInv, TypeOK', NEW q \in Subs, SpuriousWake(q), NEW s \in Subs
    PROVE  SubInv(s)'
PROOF
<1>1. /\ TypeOK /\ SubInv(s) /\ UNCHANGED <<tagData, wakers, ctrl, sub, chan, got>>
      /\ budget'.spurious = budget.spurious + 1 /\ parked' = [parked EXCEPT ![q] = FALSE]
  BY BudgetIs DEF IInv, SpuriousWake, manager
<1>2. /\ \A k : Count(s, k)' = Count(s, k)
      /\ Stream(s)' = Stream(s) /\ Held(s)' = Held(s) /\ (Subscribed(s)' <=> Subscribed(s))
  BY <1>1 DEF Count, Stream, Held, Subscribed
<1>3. parked'[s] => parked[s]
  BY <1>1 DEF TypeOK
<1>4. SenderGone(s)' <=> SenderGone(s)
  BY <1>1, <1>2, SubTypes
<1>5. MessageInv(s)'
  BY <1>1, <1>2, <1>3 DEF SubInv, MessageInv
<1>6. Load(s)' <= 1 + budget'.spurious /\ Load(s)' <= budget'.spurious
  <2>1. Load(s)' = Load(s) /\ Load(s) = Len(chan[s]) + Count(s, "Waker") + Held(s)
    BY <1>1, <1>2 DEF Load
  <2>2. Len(chan[s]) \in Nat /\ Count(s, "Waker") \in Nat /\ Held(s) \in 0 .. 1
        /\ budget.spurious \in Nat
    BY <1>1, SubTypes
  <2>3. Load(s) <= 1 + budget.spurious
    BY <1>1 DEF SubInv, LoadInv
  <2> QED BY <1>1, <2>1, <2>2, <2>3
<1>7. ParkedInv(s)'
  BY <1>1, <1>2, <1>3, <1>4 DEF SubInv, ParkedInv
<1> QED BY <1>5, <1>6, <1>7 DEF SubInv, LoadInv
LEMMA SubsStep ==
    ASSUME IInv, TypeOK', [Next]_vars, NEW s \in Subs
    PROVE  SubInv(s)'
PROOF
<1>1. TypeOK /\ SubInv(s)
  BY DEF IInv
<1>2. ASSUME UNCHANGED <<tagData, wakers, ctrl, sub, parked, chan, got>>,
             budget'.spurious = budget.spurious
      PROVE  SubInv(s)'
  <2>1. (Subscribed(s)' <=> Subscribed(s)) /\ \A k : Count(s, k)' = Count(s, k)
    BY <1>2 DEF Subscribed, Count
  <2> QED BY <1>1, <1>2, <2>1, SubQuiet
<1>3. CASE HandleControl
  BY <1>3, SubControl
<1>4. CASE ForwardUpdates
  BY <1>4, SubForward
<1>5. CASE HandleShutdown
  BY <1>5, SubStopped DEF HandleShutdown
<1>6. CASE StopServer
  <2>1. CASE ctrl' = Append(ctrl, [kind |-> "Shutdown"]) /\ UNCHANGED <<manager, parked>>
    <3>1. /\ UNCHANGED <<tagData, wakers, sub, parked, chan, got>>
          /\ budget'.spurious = budget.spurious
      BY <1>6, <2>1 DEF StopServer, manager
    <3>2. \A k \in {"AddSub", "RemoveSub", "Waker"} : Count(s, k)' = Count(s, k)
      BY <1>1, <2>1, CountShutdown
    <3>3. Subscribed(s)' <=> Subscribed(s)
      BY <3>1 DEF Subscribed
    <3> QED BY <1>1, <3>1, <3>2, <3>3, SubQuiet
  <2>2. CASE ~CanSend
    BY <1>6, <2>2, SubStopped DEF StopServer
  <2> QED BY <1>6, <2>1, <2>2 DEF StopServer
<1>7. CASE \/ Tick \/ StartQuery \/ HandleOther \/ QueryFails
           \/ \E t \in Tags : ReadTag(t)
           \/ TableStep
  <2>1. UNCHANGED <<tagData, wakers, ctrl, sub, parked, chan, got>>
    BY <1>7, TableStepIs DEF IInv, Tick, StartQuery, HandleOther, QueryFails, ReadTag, clients
  <2>2. budget'.spurious = budget.spurious
    <3>1. CASE HandleOther
      BY <1>1, <3>1, BudgetIs DEF HandleOther
    <3>2. CASE QueryFails
      BY <1>1, <3>2, BudgetIs DEF QueryFails
    <3>3. CASE ~HandleOther /\ ~QueryFails
      BY <1>7, <3>3, TableStepIs DEF IInv, Tick, StartQuery, ReadTag
    <3> QED BY <3>1, <3>2, <3>3
  <2> QED BY <1>2, <2>1, <2>2
<1>8. ASSUME NEW q \in Subs, OpenStream(q) \/ SubStep(q) \/ Disconnect(q) \/ SpuriousWake(q)
      PROVE  SubInv(s)'
  <2>1. CASE SpuriousWake(q)
    BY <2>1, SubWakes
  <2>2. CASE s # q /\ ~SpuriousWake(q)
    BY <1>8, <2>2, SubOthers
  <2>3. CASE s = q /\ ~SpuriousWake(q)
    BY <1>8, <2>3, SubOpens, SubDelivers, SubParks, SubEnds DEF SubStep
  <2> QED BY <2>1, <2>2, <2>3
<1>9. CASE UNCHANGED vars
  BY <1>2, <1>9 DEF vars, manager, clients
<1> QED BY <1>3, <1>4, <1>5, <1>6, <1>7, <1>8, <1>9 DEF Next, StreamerStep, TableStep

-----------------------------------------------------------------------------
(* The invariant.                                                          *)

LEMMA InitInv == Init => IInv
PROOF
<1> SUFFICES ASSUME Init PROVE IInv
  OBVIOUS
<1>1. TypeOK
  BY TypeInit
<1>2. TableInv
  BY FS_EmptySet, ThresholdAssumption DEF Init, TableInv, Stored
<1>3. CursorsStored /\ QueryInv
  BY DEF Init, CursorsStored, Positions, NewTag, QueryInv, Asleep
<1>4. ASSUME NEW s \in Subs PROVE Stream(s) = <<>> /\ Len(Stream(s)) = 0
  <2>1. got[s] = <<>> /\ chan[s] = <<>>
    BY DEF Init
  <2> QED BY <2>1 DEF Stream
<1>5. StreamInv /\ InOrderOnce
  BY <1>4 DEF StreamInv, InOrderOnce
<1>6. ASSUME NEW s \in Subs PROVE SubInv(s)
  <2>1. sub[s] = "new" /\ ~parked[s] /\ s \notin wakers /\ chan[s] = <<>> /\ budget.spurious = 0
    BY DEF Init
  <2>2. ~Subscribed(s)
    BY SubAssumption DEF Init, Subscribed, NewTag
  <2>3. \A k : Count(s, k) = 0
    <3> SUFFICES ASSUME NEW k PROVE Count(s, k) = 0
      OBVIOUS
    <3>1. Sent(s, k) = {}
      <4>1. ctrl = <<>> /\ Len(ctrl) = 0 /\ 1 .. 0 = {}
        BY DEF Init
      <4> QED BY <4>1 DEF Sent
    <3> QED BY <1>1, <3>1, CountIs
  <2>4. MessageInv(s)
    BY <1>4, <2>1, <2>2, <2>3 DEF MessageInv
  <2>5. Load(s) = 0 /\ ~Polled(s)
    BY <2>1, <2>3 DEF Load, Held, Polled
  <2> QED BY <2>1, <2>4, <2>5 DEF SubInv, LoadInv, ParkedInv
<1> QED BY <1>1, <1>2, <1>3, <1>5, <1>6 DEF IInv

LEMMA NextInv == IInv /\ [Next]_vars => IInv'
PROOF
<1> SUFFICES ASSUME IInv, [Next]_vars PROVE IInv'
  OBVIOUS
<1>1. TypeOK'
  BY TypeStep
<1>2. DataInv'
  BY <1>1, DataStep
<1>3. \A s \in Subs : SubInv(s)'
  BY <1>1, SubsStep
<1> QED BY <1>1, <1>2, <1>3 DEF IInv, DataInv

\* The inductive invariant: the table, the cursors, the query under way, what
\* the streams hold, and the messages and wakers of every subscription.
THEOREM InvariantHolds == Spec => []IInv
BY InitInv, NextInv, PTL DEF Spec

\* The variables keep their types, and both kinds of channels their capacity.
THEOREM TypeCorrect == Spec => []TypeOK
PROOF
<1>1. IInv => TypeOK
  BY DEF IInv
<1> QED BY <1>1, InvariantHolds, PTL

\* No stream repeats a note or goes back, whatever happens to the queries and
\* to the other subscribers of its tag.
THEOREM StreamsInOrder == Spec => []InOrderOnce
PROOF
<1>1. IInv => InOrderOnce
  BY DEF IInv
<1> QED BY <1>1, InvariantHolds, PTL

\* Every update in a channel cost a waker: beyond the first there are no more than
\* polls without cause, those of other subscriptions included.
THEOREM UpdatesCostWakers == Spec => []OneUpdatePerWaker
PROOF
<1>1. IInv => OneUpdatePerWaker
  BY DEF IInv, SubInv, LoadInv, Load, Held, OneUpdatePerWaker
<1> QED BY <1>1, InvariantHolds, PTL

\* No parked subscription is forgotten: its waker is on its way or held.
THEOREM ParkedAreKnown == Spec => []ParkedIsKnown
PROOF
<1>1. IInv => ParkedIsKnown
  BY DEF IInv, SubInv, ParkedInv, ParkedIsKnown
<1> QED BY <1>1, InvariantHolds, PTL

\* No cursor, of a tag or of an update about to go out, is at or past a note
\* that is yet to be stored, though the newest may be deleted before.
THEOREM NewNotesFound == Spec => NewNotesAreAhead
PROOF
<1> DEFINE A == \A r \in rows' \ rows :
                    /\ \A t \in Tags : tagData[t].cursor < r.seq
                    /\ \A u \in query.updates : u.cursor < r.seq
<1>1. ASSUME IInv, [Next]_vars PROVE A
  <2>1. CASE TableStep
    <3>1. TypeOK /\ TableInv
      BY <1>1 DEF IInv
    <3>2. \A r \in rows' \ rows : r.seq = sqliteSeq + 1
      BY <2>1, <3>1, TableStepIs
    <3>3. sqliteSeq \in Nat /\ \A p \in Positions : p \in Nat /\ p <= sqliteSeq
      BY <3>1, PositionsBounded
    <3>4. \A t \in Tags : tagData[t].cursor \in Positions
      BY <1>1 DEF IInv, CursorsStored
    <3>5. ASSUME NEW u \in query.updates PROVE u.cursor \in Positions
      <4>1. u \in Update /\ u.tag \in Tags
        BY <3>1 DEF TypeOK, Query, Update
      <4>2. IsStretch(rows, Stored, u, tagData[u.tag].cursor)
        BY <1>1 DEF IInv, QueryInv
      <4> QED BY <3>1, <3>3, <3>4, <4>1, <4>2, StretchIs
    <3> QED BY <3>2, <3>3, <3>4, <3>5
  <2>2. CASE UNCHANGED table
    BY <2>2 DEF table
  <2>3. TableStep \/ UNCHANGED table
    BY <1>1 DEF Next, StreamerStep, SubStep, TableStep, HandleControl, HandleShutdown, Tick,
          StartQuery, ReadTag, ForwardUpdates, HandleOther, QueryFails, StopServer, OpenStream,
          DeliverUpdate, Park, EndStream, DropSub, Disconnect, SpuriousWake, vars
  <2> QED BY <2>1, <2>2, <2>3
<1>2. IInv /\ [Next]_vars => [A]_vars
  BY <1>1
<1> QED BY <1>2, InvariantHolds, PTL DEF Spec, NewNotesAreAhead

-----------------------------------------------------------------------------
(* Subscriptions that wait.                                                *)

\* Only forwarding raises a cursor.
LEMMA CursorsMove ==
    ASSUME IInv, [Next]_vars, ~ForwardUpdates, NEW t \in Tags
    PROVE  tagData'[t].cursor \in {0, tagData[t].cursor}
PROOF
<1>1. TypeOK /\ tagData \in [Tags -> TagEntry]
  BY DEF IInv, TypeOK
<1>2. CASE HandleControl
  <2>1. PICK s \in Subs : HandleAddSub(s) \/ HandleRemoveSub(s) \/ HandleWaker(s)
    BY <1>1, <1>2, HeadIs DEF HandleControl
  <2>2. CASE HandleRemoveSub(s)
    BY <1>1, <2>2, WithoutSubsIs DEF HandleRemoveSub
  <2> QED BY <1>1, <2>1, <2>2, AddSubIs DEF HandleWaker
<1>3. CASE HandleShutdown \/ StopServer
  BY <1>3 DEF HandleShutdown, StopServer, NewTag, manager
<1>4. CASE ~HandleControl /\ ~HandleShutdown /\ ~StopServer
  <2>1. tagData' = tagData
    BY <1>4 DEF Next, StreamerStep, SubStep, StoreNote, Cleanup, Tick, StartQuery,
       ReadTag, HandleOther, QueryFails, OpenStream, DeliverUpdate, Park, EndStream,
       DropSub, Disconnect, SpuriousWake, vars, manager
  <2> QED BY <2>1
<1> QED BY <1>2, <1>3, <1>4

\* A forwarded update is the last of its stream.
LEMMA SentIsLast ==
    ASSUME IInv, TypeOK', ForwardUpdates, NEW s \in wakers, Subscribed(s), Accepts(s),
           NEW u \in query.updates, u.tag = SubTag[s]
    PROVE  \E i \in 1 .. Len(Stream(s)') : Stream(s)'[i] = u
PROOF
<1>1. TypeOK /\ s \in Subs /\ u \in Update
  BY DEF IInv, TypeOK, Query
<1>2. got'[s] = got[s] /\ chan'[s] = Append(chan[s], u)
  BY ForwardedWaiting DEF ForwardUpdates
<1>3. Len(Stream(s)') = Len(Stream(s)) + 1 /\ Stream(s)'[Len(Stream(s)) + 1] = u
      /\ Len(Stream(s)) \in Nat
  BY <1>1, <1>2, StreamForwarded, StreamIs
<1> QED BY <1>3

\* What a cursor passes over goes to the subscriptions that wait: update_timestamps
\* and forward_updates take the same updates.
THEOREM WaitingAreSent == Spec => WaitingMissNothing
<1>1. IInv /\ [Next]_vars =>
        [\A s \in wakers :
            LET t == SubTag[s]
            IN  s \in tagData[t].subs /\ s \in tagData'[t].subs =>
                    \A r \in rows :
                        /\ TagOf[r.id] = t
                        /\ tagData[t].cursor < r.seq
                        /\ r.seq <= tagData'[t].cursor
                        => \E i \in 1 .. Len(Stream(s)') : r \in Stream(s)'[i].notes]_vars
  <2> SUFFICES ASSUME IInv, [Next]_vars, NEW s \in wakers, Subscribed(s), Subscribed(s)',
                      NEW r \in rows, TagOf[r.id] = SubTag[s],
                      tagData[SubTag[s]].cursor < r.seq,
                      r.seq <= tagData'[SubTag[s]].cursor
               PROVE  \E i \in 1 .. Len(Stream(s)') : r \in Stream(s)'[i].notes
    BY DEF Subscribed
  <2> DEFINE t == SubTag[s]
  <2>1. /\ TypeOK /\ TypeOK' /\ s \in Subs /\ t \in Tags
        /\ tagData[t].cursor \in Nat /\ r.seq \in Nat
    BY SubAssumption, NextInv, PositionsAreNat DEF IInv, TypeOK, Row, CursorsStored
  <2>2. ForwardUpdates
    <3>1. ~(tagData'[t].cursor \in {0, tagData[t].cursor})
      BY <2>1
    <3> QED BY <2>1, <3>1, CursorsMove
  <2>3. tagData'[t].subs # {}
    BY DEF Subscribed
  <2>4. PICK u \in query.updates : u.tag = t
    <3>1. tagData'[t].cursor # tagData[t].cursor
      BY <2>1
    <3> QED BY <2>1, <2>2, <2>3, <3>1, ForwardedCursors
  <2>5. u.cursor = tagData'[t].cursor
    BY <2>2, <2>3, <2>4, ForwardedCursors
  <2>6. r \in u.notes
    BY <2>4, <2>5 DEF IInv, QueryInv, IsStretch, IsBetween
  <2>7. \E i \in 1 .. Len(Stream(s)') : Stream(s)'[i] = u
    BY <2>1, <2>2, <2>4, ForwardedWaiting, SentIsLast
  <2> QED BY <2>6, <2>7
<1> QED BY <1>1, InvariantHolds, PTL DEF Spec, WaitingMissNothing

\* The UNIQUE constraint on `id`.
IdsUnique == \A q, r \in rows : q.id = r.id => q = r

LEMMA IdsStayUnique == IInv /\ IdsUnique /\ [Next]_vars => IdsUnique'
PROOF
<1> SUFFICES ASSUME IInv, IdsUnique, [Next]_vars PROVE IdsUnique'
    OBVIOUS
<1>1. ASSUME NEW n \in Notes, StoreNote(n) PROVE IdsUnique'
  BY <1>1 DEF StoreNote, IdTaken, IdsUnique
<1>2. CASE Cleanup
  BY <1>2 DEF Cleanup, IdsUnique
<1>3. CASE ~TableStep
  <2>1. rows' = rows
    BY <1>3 DEF TableStep, Next, StreamerStep, SubStep, HandleControl, HandleShutdown,
       StopServer, Tick, StartQuery, ReadTag, ForwardUpdates, HandleOther, QueryFails,
       OpenStream, DeliverUpdate, Park, EndStream, DropSub, Disconnect, SpuriousWake,
       vars, table
  <2> QED BY <2>1 DEF IdsUnique
<1> QED BY <1>1, <1>2, <1>3 DEF TableStep

\* A note is waited for as long as nobody touches the table, the cursor and the
\* subscription; a query may be dropped, or read it.
LEMMA WaitGoesOn ==
    ASSUME NEW s \in Subs, NEW n \in Notes, IsWaitedFor(n, s),
           rows' = rows, tagData'[SubTag[s]].cursor = tagData[SubTag[s]].cursor,
           Subscribed(s)', s \in wakers', sub'[s] = "open",
           \A u \in query'.updates :
               u \in query.updates
               \/ (u.tag = SubTag[s] =>
                       u.notes = Batch(rows, {SubTag[s]}, tagData[SubTag[s]].cursor))
    PROVE  IsWaitedFor(n, s)'
BY DEF IsWaitedFor, Subscribed

\* Notes that come or go do not take another note's turn.
LEMMA WaitInTable ==
    ASSUME IInv, IdsUnique, TableStep, NEW s \in Subs, NEW n \in Notes,
           IsWaitedFor(n, s), IdTaken(rows', n)
    PROVE  IsWaitedFor(n, s)'
PROOF
<1> DEFINE t == SubTag[s]
           c == tagData[t].cursor
<1>1. PICK r \in Batch(rows, {t}, c) :
          r.id = n /\ \A u \in query.updates : u.tag = t => r \in u.notes
  BY DEF IsWaitedFor
<1>2. /\ rows \in SUBSET Row /\ IsFiniteSet(rows) /\ sqliteSeq \in Nat
      /\ \A q \in rows : q.seq \in Nat /\ q.seq <= sqliteSeq
  BY DEF IInv, TypeOK, TableInv, Stored, Row
<1>3. r \in rows
  BY <1>1 DEF Batch, Matching
<1>4. r \in rows'
  <2>1. CASE Cleanup
    <3>1. rows' \subseteq rows
      BY <2>1 DEF Cleanup
    <3> QED BY <1>1, <1>3, <3>1 DEF IdTaken, IdsUnique
  <2>2. ASSUME NEW m \in Notes, StoreNote(m) PROVE r \in rows'
    BY <1>3, <2>2 DEF StoreNote
  <2> QED BY <2>1, <2>2 DEF TableStep
<1>5. \A q \in rows' : q.seq < r.seq => q \in rows
  <2>1. \A q \in rows' : q \in rows \/ q.seq = sqliteSeq + 1
    BY TableStepIs DEF IInv
  <2> QED BY <1>2, <1>3, <2>1
<1>6. r \in Batch(rows', {t}, c)
  BY <1>1, <1>2, <1>4, <1>5, BatchKept
<1>7. UNCHANGED <<tagData, wakers, query, sub>>
  BY TableStepIs DEF IInv
<1> QED BY <1>1, <1>6, <1>7 DEF IsWaitedFor

\* A control message of another subscription does not end a wait.
LEMMA WaitInControl ==
    ASSUME IInv, HandleControl, NEW s \in Subs, NEW n \in Notes, IsWaitedFor(n, s)
    PROVE  IsWaitedFor(n, s)'
PROOF
<1>1. /\ TypeOK /\ tagData \in [Tags -> TagEntry] /\ SubTag[s] \in Tags
      /\ Subscribed(s) /\ s \in wakers /\ sub[s] = "open"
  BY SubAssumption DEF IInv, TypeOK, IsWaitedFor, Subscribed
<1>2. rows' = rows /\ sub' = sub /\ query'.updates = {}
  BY DEF HandleControl, table, NextRound, Asleep
<1>3. PICK q \in Subs :
          /\ \/ HandleAddSub(q)
             \/ Head(ctrl).kind = "RemoveSub" /\ HandleRemoveSub(q)
             \/ HandleWaker(q)
          /\ q = Head(ctrl).sub
  BY <1>1, HeadIs DEF HandleControl
<1>4. CASE Head(ctrl).kind = "RemoveSub" /\ HandleRemoveSub(q)
  <2>1. q # s
    <3>1. SUFFICES ASSUME q = s PROVE FALSE
      OBVIOUS
    <3>2. 1 \in Sent(s, "RemoveSub")
      BY <1>1, <1>3, <1>4, <3>1, HeadIs DEF Sent, HandleControl
    <3>3. Count(s, "RemoveSub") > 0
      BY <1>1, <3>2, CountIs
    <3> QED BY <1>1, <3>3 DEF IInv, SubInv, MessageInv
  <2>2. /\ tagData'[SubTag[s]].subs = tagData[SubTag[s]].subs \ {q}
        /\ tagData'[SubTag[s]].subs # {} =>
               tagData'[SubTag[s]].cursor = tagData[SubTag[s]].cursor
    BY <1>1, <1>4, WithoutSubsIs DEF HandleRemoveSub
  <2>3. Subscribed(s)' /\ tagData'[SubTag[s]].cursor = tagData[SubTag[s]].cursor
    BY <1>1, <2>1, <2>2 DEF Subscribed
  <2> QED BY <1>1, <1>2, <1>4, <2>3, WaitGoesOn DEF HandleRemoveSub
<1>5. CASE HandleAddSub(q)
  <2>1. Subscribed(s)' /\ tagData'[SubTag[s]].cursor = tagData[SubTag[s]].cursor
    BY <1>1, <1>5, AddSubIs DEF Subscribed
  <2> QED BY <1>1, <1>2, <1>5, <2>1, WaitGoesOn DEF HandleAddSub
<1>6. CASE HandleWaker(q)
  BY <1>1, <1>2, <1>6, WaitGoesOn DEF HandleWaker, Subscribed
<1> QED BY <1>3, <1>4, <1>5, <1>6

\* A round of updates brings the note, or is not about its tag.
LEMMA WaitInForward ==
    ASSUME IInv, TypeOK', ForwardUpdates, NEW s \in Subs, NEW n \in Notes,
           IsWaitedFor(n, s), Accepts(s)
    PROVE  \/ IsWaitedFor(n, s)'
           \/ \E i \in 1 .. Len(Stream(s)') : \E r \in Stream(s)'[i].notes : r.id = n
PROOF
<1>1. /\ TypeOK /\ SubTag[s] \in Tags /\ Subscribed(s) /\ s \in wakers /\ sub[s] = "open"
  BY SubAssumption DEF IInv, IsWaitedFor, Subscribed
<1>2. ASSUME NEW u \in query.updates, u.tag = SubTag[s]
      PROVE  \E i \in 1 .. Len(Stream(s)') : \E r \in Stream(s)'[i].notes : r.id = n
  <2>1. \E r \in u.notes : r.id = n
    BY <1>2 DEF IsWaitedFor
  <2>2. \E i \in 1 .. Len(Stream(s)') : Stream(s)'[i] = u
    BY <1>1, <1>2, SentIsLast
  <2> QED BY <2>1, <2>2
<1>3. CASE \A u \in query.updates : u.tag # SubTag[s]
  <2>1. s \notin Receivers
    BY <1>3 DEF Receivers
  <2>2. s \in wakers' /\ sub' = sub /\ rows' = rows /\ query'.updates = {}
    BY <1>1, <2>1 DEF ForwardUpdates, table, NextRound, Asleep
  <2>3. Subscribed(s)'
    <3> DEFINE evicted == {q \in Receivers : ~Accepts(q)}
    <3>1. s \notin evicted
      BY <2>1
    <3>2. tagData' = WithoutSubs(AdvancedTags, evicted)
      BY DEF ForwardUpdates
    <3>3. AdvancedTags \in [Tags -> TagEntry] /\ AdvancedTags[SubTag[s]].subs = tagData[SubTag[s]].subs
      BY <1>1, AdvancedIs DEF IInv
    <3> HIDE DEF evicted
    <3>4. tagData'[SubTag[s]].subs = AdvancedTags[SubTag[s]].subs \ evicted
      BY <1>1, <3>2, <3>3, WithoutSubsIs
    <3> QED BY <1>1, <3>1, <3>3, <3>4 DEF Subscribed
  <2>4. tagData'[SubTag[s]].cursor = tagData[SubTag[s]].cursor
    BY <1>1, <1>3, <2>3, ForwardedCursors DEF Subscribed
  <2> QED BY <1>1, <2>2, <2>3, <2>4, WaitGoesOn
<1> QED BY <1>2, <1>3

\* A note that is waited for is not passed over: no query, no other subscription
\* and no cleanup of other notes comes between it and the stream.
THEOREM WaitsEndInStream == Spec => WaitsUntilSent
<1>1. Init => IdsUnique
  BY DEF Init, IdsUnique
<1>2. IInv /\ IdsUnique /\ [Next]_vars =>
        [\A s \in Subs : \A n \in Notes :
            IsWaitedFor(n, s) =>
                \/ IsWaitedFor(n, s)'
                \/ \E i \in 1 .. Len(Stream(s)') : \E r \in Stream(s)'[i].notes : r.id = n
                \/ ~Accepts(s)
                \/ sub'[s] # "open"
                \/ ~running'
                \/ ~IdTaken(rows', n)]_vars
  <2> SUFFICES ASSUME IInv, IdsUnique, [Next]_vars, NEW s \in Subs, NEW n \in Notes,
                      IsWaitedFor(n, s), Accepts(s), sub'[s] = "open", running',
                      IdTaken(rows', n)
               PROVE  \/ IsWaitedFor(n, s)'
                      \/ \E i \in 1 .. Len(Stream(s)') : \E r \in Stream(s)'[i].notes : r.id = n
    OBVIOUS
  <2>1. TypeOK /\ TypeOK' /\ Subscribed(s) /\ s \in wakers
    BY NextInv DEF IInv, IsWaitedFor, Subscribed
  <2>2. CASE TableStep
    BY <2>2, WaitInTable
  <2>3. CASE HandleControl
    BY <2>3, WaitInControl
  <2>4. CASE ForwardUpdates
    BY <2>1, <2>4, WaitInForward
  <2>5. ASSUME NEW t \in Tags, ReadTag(t) PROVE IsWaitedFor(n, s)'
    <3> DEFINE batch == Batch(rows, {t}, tagData[t].cursor)
    <3>1. UNCHANGED <<table, tagData, wakers>>
      BY <2>5 DEF ReadTag
    <3>2. \A u \in query'.updates : u \in query.updates \/ (u.tag = t /\ u.notes = batch)
      <4> HIDE DEF batch
      <4>1. query \in [reading : BOOLEAN, left : SUBSET Tags, updates : SUBSET Update]
        BY <2>1 DEF TypeOK, Query
      <4>2. CASE query' = [query EXCEPT !.left = @ \ {t}]
        BY <4>1, <4>2
      <4>3. ASSUME NEW m,
                   query' = [query EXCEPT !.left = @ \ {t},
                      !.updates = @ \cup {[tag |-> t, notes |-> batch, cursor |-> m]}]
            PROVE  \A u \in query'.updates : u \in query.updates \/ (u.tag = t /\ u.notes = batch)
        <5> DEFINE u == [tag |-> t, notes |-> batch, cursor |-> m]
        <5>1. query'.updates = query.updates \cup {u}
          BY <4>1, <4>3
        <5>2. u.tag = t /\ u.notes = batch
          OBVIOUS
        <5> HIDE DEF u
        <5> QED BY <5>1, <5>2
      <4> QED BY <2>5, <4>2, <4>3 DEF ReadTag, batch
    <3> QED BY <2>1, <3>1, <3>2, WaitGoesOn DEF table, Subscribed
  <2>6. CASE StopServer
    BY <2>1, <2>6, WaitGoesOn DEF StopServer, table, manager, Subscribed
  <2>7. CASE HandleShutdown
    BY <2>7 DEF HandleShutdown
  <2>8. CASE Tick \/ StartQuery \/ HandleOther \/ QueryFails
    <3>1. UNCHANGED <<rows, tagData, wakers>>
      BY <2>8 DEF Tick, StartQuery, HandleOther, QueryFails, table
    <3>2. query' = query \/ query'.updates = {}
      <4>1. CASE Tick
        BY <4>1 DEF Tick
      <4>2. CASE StartQuery
        BY <4>2 DEF StartQuery
      <4>3. CASE HandleOther \/ QueryFails
        <5>1. NextRound
          BY <4>3 DEF HandleOther, QueryFails
        <5> QED BY <5>1 DEF NextRound, Asleep
      <4> QED BY <2>8, <4>1, <4>2, <4>3
    <3> QED BY <2>1, <3>1, <3>2, WaitGoesOn DEF Subscribed
  <2>9. CASE \/ UNCHANGED vars
             \/ \E q \in Subs : OpenStream(q) \/ SubStep(q) \/ Disconnect(q) \/ SpuriousWake(q)
    <3>1. UNCHANGED <<rows, tagData, wakers, query>>
      BY <2>9 DEF SubStep, OpenStream, DeliverUpdate, Park, EndStream, DropSub,
         Disconnect, SpuriousWake, table, manager, vars
    <3> QED BY <2>1, <3>1, WaitGoesOn DEF Subscribed
  <2> QED BY <2>2, <2>3, <2>4, <2>5, <2>6, <2>7, <2>8, <2>9
       DEF Next, StreamerStep, TableStep
<1> QED BY <1>1, <1>2, IdsStayUnique, InvariantHolds, PTL DEF Spec, WaitsUntilSent

\* A query that has a tag to read can read it: there is a cursor for what it finds.
QueriesAnswerable ==
    \A t \in query.left :
        LET batch == Batch(rows, {t}, tagData[t].cursor)
        IN  batch # {} => \E m \in {r.seq : r \in batch} :
                             IsResponseCursor(m, tagData[t].cursor, batch)

\* query_updates finds the new cursor in what it has read, and it is that of a note.
THEOREM QueriesHaveAnswers == Spec => []QueriesAnswerable
<1>1. IInv => QueriesAnswerable
  <2> SUFFICES ASSUME IInv, NEW t \in query.left,
                      Batch(rows, {t}, tagData[t].cursor) # {}
               PROVE  \E m \in {r.seq : r \in Batch(rows, {t}, tagData[t].cursor)} :
                          IsResponseCursor(m, tagData[t].cursor,
                                           Batch(rows, {t}, tagData[t].cursor))
    BY DEF QueriesAnswerable
  <2>1. t \in Tags /\ rows \in SUBSET Row /\ IsFiniteSet(rows)
    BY DEF IInv, TypeOK, TableInv, Query
  <2>2. tagData[t].cursor \in Nat /\ EffectiveCursor(tagData[t].cursor) = tagData[t].cursor
    BY <2>1, PositionsBounded DEF IInv, CursorsStored
  <2> QED BY <2>1, <2>2, LastOfBatchExists
<1> QED BY <1>1, InvariantHolds, PTL

-----------------------------------------------------------------------------
(* The feed.                                                               *)

\* The batches of notes that s has been given.
Given(s) == [i \in 1 .. Len(got[s]) |-> got[s][i].notes]

Delivered == [s \in Subs |-> Given(s)]
Ended     == [s \in Subs |-> sub[s] \in {"ending", "closed"}]

LEMMA FeedInit == Init => Feed!Init
PROOF
<1> SUFFICES ASSUME Init PROVE Feed!Init
  OBVIOUS
<1>1. ASSUME NEW s \in Subs PROVE Given(s) = <<>>
  <2>1. got[s] = <<>> /\ Len(got[s]) = 0 /\ 1 .. 0 = {}
    BY DEF Init
  <2>2. DOMAIN Given(s) = {}
    BY <2>1 DEF Given
  <2> QED BY <2>1, EmptySeq, SMT DEF Given
<1>2. \A s \in Subs : sub[s] = "new"
  BY DEF Init
<1>3. Stored = {} /\ deleted = {}
  BY DEF Init, Stored
<1>4. Delivered = [s \in Subs |-> <<>>]
  BY <1>1 DEF Delivered
<1>5. Ended = [s \in Subs |-> FALSE]
  <2>1. \A s \in Subs : (sub[s] \in {"ending", "closed"}) = FALSE
    BY <1>2
  <2> QED BY <2>1, Zenon DEF Ended
<1> QED BY <1>3, <1>4, <1>5 DEF Feed!Init, Delivered, Given, Ended

\* A stored note is posted.
LEMMA FeedPosts ==
    ASSUME IInv, NEW n \in Notes, StoreNote(n)
    PROVE  Feed!Post
PROOF
<1>1. TypeOK /\ TableInv
  BY DEF IInv
<1> DEFINE new == [seq |-> sqliteSeq + 1, id |-> n, created_at |-> 0]
<1>2. rows' = rows \cup {new} /\ deleted' = deleted
  BY DEF StoreNote, NextSeq
<1>3. new.seq = sqliteSeq + 1
  OBVIOUS
<1> HIDE DEF new
<1>4. /\ RowPosition(new) \in Nat \ {0}
      /\ \A r \in Stored : RowPosition(r) < RowPosition(new)
  BY <1>1, <1>3 DEF TypeOK, TableInv, Row, RowPosition, Stored
<1>5. Stored' = Stored \cup {new} /\ new \in Stored' \ Stored
  <2>1. new \notin Stored
    BY <1>1, <1>3 DEF TypeOK, TableInv
  <2> QED BY <1>2, <2>1 DEF Stored
<1>6. UNCHANGED <<got, sub>>
  BY DEF StoreNote, clients
<1> QED BY <1>2, <1>4, <1>5, <1>6 DEF Feed!Post

\* A deleted note expires.
LEMMA FeedExpires ==
    ASSUME IInv, Cleanup
    PROVE  Feed!Expire
PROOF
<1>1. PICK gone \in SUBSET rows : rows' = rows \ gone /\ deleted' = deleted \cup gone
  BY DEF Cleanup
<1>2. Stored' = Stored /\ deleted \subseteq deleted' /\ deleted' \subseteq Stored
  BY <1>1 DEF Stored
<1>3. UNCHANGED <<got, sub>>
  BY DEF Cleanup, clients
<1> QED BY <1>2, <1>3 DEF Feed!Expire

\* A delivered update is a stretch of what there is, and new.
LEMMA FeedDelivers ==
    ASSUME IInv, NEW s \in Subs, DeliverUpdate(s)
    PROVE  Feed!Deliver(s)
PROOF
<1>1. /\ TypeOK /\ TableInv /\ UNCHANGED <<rows, deleted, sub>> /\ Stored' = Stored
      /\ sub[s] = "open" /\ chan[s] # <<>>
      /\ got' = [got EXCEPT ![s] = Append(got[s], Head(chan[s]))]
  BY DEF IInv, DeliverUpdate, table, Polled, Stored
<1>2. got \in [Subs -> Seq(Update)] /\ chan \in [Subs -> Seq(Update)]
  BY <1>1 DEF TypeOK
<1> DEFINE u == Head(chan[s])
           n == Len(got[s])
<1>3. n \in Nat /\ u \in Update /\ u = chan[s][1]
  BY <1>1, <1>2
<1>4. /\ n + 1 \in 1 .. Len(Stream(s)) /\ Stream(s)[n + 1] = u
      /\ \A k \in 1 .. n : k \in 1 .. Len(Stream(s)) /\ Stream(s)[k] = got[s][k]
  <2> DEFINE c == Len(chan[s])
  <2>1. /\ Len(Stream(s)) = n + c /\ c \in Nat /\ c > 0
        /\ \A i \in 1 .. Len(Stream(s)) :
              Stream(s)[i] = IF i <= n THEN got[s][i] ELSE chan[s][i - n]
    <3>1. TypeOK /\ chan[s] # <<>>
      BY <1>1
    <3>2. c \in Nat /\ c > 0
      BY <1>2, <3>1
    <3> QED BY <3>1, <3>2, StreamIs
  <2> HIDE DEF n, c
  <2>2. n + 1 \in 1 .. Len(Stream(s)) /\ \A k \in 1 .. n : k \in 1 .. Len(Stream(s))
    BY <1>3, <2>1
  <2>3. Stream(s)[n + 1] = chan[s][1]
    <3>1. ~(n + 1 <= n) /\ (n + 1) - n = 1
      BY <1>3
    <3> QED BY <2>1, <2>2, <3>1
  <2>4. \A k \in 1 .. n : Stream(s)[k] = got[s][k]
    BY <1>3, <2>1, <2>2
  <2> QED BY <1>3, <2>2, <2>3, <2>4
<1>5. PICK p \in Positions : IsStretch(rows, Stored, u, p)
  BY <1>4 DEF IInv, StreamInv
<1>6. u.tag = SubTag[s]
  BY <1>4 DEF IInv, StreamInv
<1>7. p \in Nat /\ u.cursor \in Positions
  BY <1>1, <1>3, <1>5, PositionsAreNat, StretchIs
<1>8. /\ u.notes # {}
      /\ \A r \in rows : (RowIsFor(r, s) /\ p < RowPosition(r) /\ RowPosition(r) <= u.cursor)
                             => r \in u.notes
      /\ \A r \in u.notes : r \in Stored /\ RowIsFor(r, s) /\ p < RowPosition(r)
                             /\ RowPosition(r) <= u.cursor
  BY <1>5, <1>6 DEF IsStretch, IsBetween, RowIsFor, RowPosition
<1>9. \A r \in u.notes : \A k \in 1 .. Len(Given(s)) : \A d \in Given(s)[k] :
          RowPosition(d) < RowPosition(r)
  <2>1. Len(Given(s)) = n /\ \A k \in 1 .. n : Given(s)[k] = got[s][k].notes
    BY <1>2 DEF Given
  <2>2. \A k \in 1 .. n : k < n + 1
    BY <1>3
  <2> HIDE DEF u, n
  <2>3. \A k \in 1 .. n : \A d \in got[s][k].notes, r \in u.notes : d.seq < r.seq
    BY <1>4, <2>2 DEF IInv, InOrderOnce
  <2> QED BY <2>1, <2>3 DEF RowPosition
<1>10. Delivered' = [Delivered EXCEPT ![s] = Append(Given(s), u.notes)]
  <2>1. ASSUME NEW q \in Subs, q # s PROVE Given(q)' = Given(q)
    <3>1. got'[q] = got[q]
      BY <1>1, <1>2, <2>1
    <3> QED BY <3>1 DEF Given
  <2>2. Given(s)' = Append(Given(s), u.notes)
    <3>1. /\ got'[s] = Append(got[s], u)
          /\ Len(got'[s]) = n + 1
          /\ \A k \in 1 .. n + 1 : got'[s][k] = IF k = n + 1 THEN u ELSE got[s][k]
      BY <1>1, <1>2, <1>3
    <3> HIDE DEF u
    <3>2. Given(s) = [k \in 1 .. n |-> got[s][k].notes]
          /\ Given(s)' = [k \in 1 .. n + 1 |-> got'[s][k].notes]
      BY <3>1 DEF Given
    <3> HIDE DEF n
    <3>3. Given(s) \in Seq(SUBSET Row) /\ Len(Given(s)) = n /\ u.notes \in SUBSET Row
      <4>1. ASSUME NEW k \in 1 .. n PROVE got[s][k].notes \in SUBSET Row
        <5>1. got[s][k] \in Update
          BY <1>2, ElementOfSeq DEF n
        <5> QED BY <5>1 DEF Update
      <4>2. u.notes \in SUBSET Row
        BY <1>3 DEF Update
      <4> QED BY <1>3, <3>2, <4>1, <4>2
    <3>4. /\ Append(Given(s), u.notes) \in Seq(SUBSET Row)
          /\ Len(Append(Given(s), u.notes)) = n + 1
          /\ \A k \in 1 .. n + 1 :
                Append(Given(s), u.notes)[k] = IF k = n + 1 THEN u.notes ELSE Given(s)[k]
      BY <1>3, <3>3
    <3>5. \A k \in 1 .. n + 1 : got'[s][k].notes = IF k = n + 1 THEN u.notes ELSE Given(s)[k]
      BY <1>3, <3>1, <3>2
    <3>6. Given(s)' \in Seq(SUBSET Row) /\ Len(Given(s)') = n + 1
          /\ \A k \in 1 .. n + 1 : Given(s)'[k] = IF k = n + 1 THEN u.notes ELSE Given(s)[k]
      <4>1. \A k \in 1 .. n : Given(s)[k] \in SUBSET Row
        BY <3>3, <1>3
      <4>2. \A k \in 1 .. n + 1 : got'[s][k].notes \in SUBSET Row
        BY <1>3, <3>3, <3>5, <4>1
      <4>3. n + 1 \in Nat
        BY <1>3
      <4>4. Given(s)' \in [1 .. n + 1 -> SUBSET Row]
        BY <3>2, <4>2
      <4>5. Given(s)' \in Seq(SUBSET Row) /\ Len(Given(s)') = n + 1
        BY <4>3, <4>4
      <4> QED BY <3>2, <3>5, <4>5
    <3> QED BY <3>3, <3>4, <3>6, SeqEqual
  <2> QED BY <2>1, <2>2 DEF Delivered
<1>11. ~Ended[s] /\ Ended' = Ended
  BY <1>1 DEF Ended
<1>12. Delivered[s] = Given(s)
  BY DEF Delivered
<1> HIDE DEF u
<1>13. \E i, j \in {0} \cup {RowPosition(m) : m \in Stored}, missed \in SUBSET deleted :
           LET batch == Feed!Stretch(s, i, j) \ missed
           IN  /\ batch # {}
               /\ \A m \in batch : Feed!IsNewTo(s, m)
               /\ Delivered' = [Delivered EXCEPT ![s] = Append(@, batch)]
  <2>1. p \in {0} \cup {RowPosition(m) : m \in Stored}
        /\ u.cursor \in {0} \cup {RowPosition(m) : m \in Stored}
    BY <1>7 DEF Positions, RowPosition
  <2> DEFINE gaps == Feed!Stretch(s, p, u.cursor) \ u.notes
  <2>2. gaps \in SUBSET deleted /\ Feed!Stretch(s, p, u.cursor) \ gaps = u.notes
    BY <1>8 DEF Feed!Stretch, Stored
  <2> HIDE DEF gaps
  <2>3. \A m \in u.notes : Feed!IsNewTo(s, m)
    BY <1>9, <1>12 DEF Feed!IsNewTo, Delivered, Given
  <2> QED BY <1>8, <1>10, <1>12, <2>1, <2>2, <2>3
<1> QED BY <1>1, <1>11, <1>13 DEF Feed!Deliver, Delivered, Given, Ended
\* A stream that ends, or is refused, is over.
LEMMA FeedEnds ==
    ASSUME IInv, NEW s \in Subs, UNCHANGED <<table, got>>, sub' = [sub EXCEPT ![s] = "ending"]
    PROVE  Feed!End(s)
PROOF
<1>1. sub \in [Subs -> {"new", "open", "ending", "closed"}]
  BY DEF IInv, TypeOK
<1>2. \A q \in Subs : sub'[q] = IF q = s THEN "ending" ELSE sub[q]
  BY <1>1
<1>3. Ended' = [q \in Subs |-> sub'[q] \in {"ending", "closed"}]
  BY DEF Ended
<1>4. Ended' = [Ended EXCEPT ![s] = TRUE]
  <2>1. (sub'[s] \in {"ending", "closed"}) = TRUE
    BY <1>2
  <2>2. \A q \in Subs : q # s => (sub'[q] \in {"ending", "closed"}) = Ended[q]
    BY <1>2 DEF Ended
  <2>3. Ended = [q \in Subs |-> Ended[q]]
    BY DEF Ended
  <2>4. [Ended EXCEPT ![s] = TRUE] = [q \in Subs |-> IF q = s THEN TRUE ELSE Ended[q]]
    BY <2>3, Zenon
  <2>5. \A q \in Subs : (sub'[q] \in {"ending", "closed"}) = IF q = s THEN TRUE ELSE Ended[q]
    BY <2>1, <2>2, Zenon
  <2> QED BY <1>3, <2>4, <2>5, Zenon
<1>5. Stored' = Stored /\ deleted' = deleted /\ got' = got
  BY DEF table, Stored
<1> QED BY <1>4, <1>5 DEF Feed!End, Ended

\* Any other step shows nothing.
LEMMA FeedRests ==
    ASSUME UNCHANGED <<table, got>>,
           \A s \in Subs : sub'[s] \in {"ending", "closed"} <=> sub[s] \in {"ending", "closed"}
    PROVE  UNCHANGED Feed!feedVars
PROOF
<1>1. Ended' = Ended
  <2>1. \A s \in Subs : (sub'[s] \in {"ending", "closed"}) = (sub[s] \in {"ending", "closed"})
    OBVIOUS
  <2> QED BY <2>1, Zenon DEF Ended
<1>2. Stored' = Stored /\ deleted' = deleted /\ got' = got
  BY DEF table, Stored
<1> QED BY <1>1, <1>2 DEF Feed!feedVars, Ended

LEMMA FeedStep ==
    ASSUME IInv, [Next]_vars
    PROVE  [Feed!Next]_(Feed!feedVars)
PROOF
<1>1. ASSUME NEW n \in Notes, StoreNote(n) PROVE Feed!Next
  BY <1>1, FeedPosts DEF Feed!Next
<1>2. ASSUME NEW s \in Subs, DeliverUpdate(s) PROVE Feed!Next
  BY <1>2, FeedDelivers DEF Feed!Next
<1>8. ASSUME Cleanup PROVE Feed!Next
  BY <1>8, FeedExpires DEF Feed!Next
<1>3. ASSUME NEW s \in Subs,
             \/ EndStream(s) \/ Disconnect(s)
             \/ OpenStream(s) /\ sub' = [sub EXCEPT ![s] = "ending"]
      PROVE  Feed!Next
  <2>1. UNCHANGED <<table, got>> /\ sub' = [sub EXCEPT ![s] = "ending"]
    BY <1>3 DEF EndStream, Disconnect, OpenStream
  <2> QED BY <2>1, FeedEnds DEF Feed!Next
<1>4. sub \in [Subs -> {"new", "open", "ending", "closed"}]
  BY DEF IInv, TypeOK
<1>5. ASSUME NEW s \in Subs,
             \/ DropSub(s)
             \/ OpenStream(s) /\ sub' = [sub EXCEPT ![s] = "open"]
      PROVE  UNCHANGED Feed!feedVars
  <2>1. UNCHANGED <<table, got>>
    BY <1>5 DEF DropSub, OpenStream
  <2>2. \A q \in Subs : sub'[q] \in {"ending", "closed"} <=> sub[q] \in {"ending", "closed"}
    BY <1>4, <1>5 DEF DropSub, OpenStream
  <2> QED BY <2>1, <2>2, FeedRests
<1>6. CASE \/ HandleControl \/ HandleShutdown \/ Tick \/ StartQuery \/ ForwardUpdates
           \/ HandleOther \/ QueryFails \/ StopServer
           \/ \E t \in Tags : ReadTag(t)
           \/ \E s \in Subs : Park(s) \/ SpuriousWake(s)
           \/ UNCHANGED vars
  <2>1. UNCHANGED <<table, got, sub>>
    BY <1>6 DEF HandleControl, HandleShutdown, Tick, StartQuery, ForwardUpdates, HandleOther,
                QueryFails, StopServer, ReadTag, Park, SpuriousWake, vars, clients
  <2> QED BY <2>1, FeedRests
<1>7. \A s \in Subs : OpenStream(s) =>
          sub' = [sub EXCEPT ![s] = "open"] \/ sub' = [sub EXCEPT ![s] = "ending"]
  BY DEF OpenStream
<1> QED BY <1>1, <1>2, <1>3, <1>5, <1>6, <1>7, <1>8 DEF Next, StreamerStep, SubStep

\* The streamer implements the feed: every step of it is a step of the feed or
\* shows nothing.
THEOREM FeedImplemented == Spec => ImplementsFeed
PROOF
<1>1. Init => Feed!Init
  BY FeedInit
<1>2. IInv /\ [Next]_vars => [Feed!Next]_(Feed!feedVars)
  BY FeedStep
<1> QED BY <1>1, <1>2, InvariantHolds, PTL DEF Spec, ImplementsFeed, Feed!Spec

\* What is proved of every feed, read for the streamer's variables.
FeedFacts == INSTANCE NoteFeed_proofs WITH
    Subscribers <- Subs,
    Position    <- RowPosition,
    IsFor       <- RowIsFor,
    posted      <- Stored,
    expired     <- deleted,
    delivered   <- [s \in Subs |-> [i \in 1 .. Len(got[s]) |-> got[s][i].notes]],
    ended       <- [s \in Subs |-> sub[s] \in {"ending", "closed"}]

\* What poll_next has handed out to a subscriber of a tag is notes of that tag that
\* were stored, each update after the one before; and an update leaves out no note
\* that is still stored and lies between two of its own.
THEOREM StreamsKeepOrder == Spec => [](Feed!DeliveredInOrder /\ Feed!NoGapInBatch)
PROOF
<1>1. FeedFacts!Spec => [](FeedFacts!DeliveredInOrder /\ FeedFacts!NoGapInBatch)
  BY FeedFacts!FeedKeepsOrder
<1>2. Feed!Init => FeedFacts!Init
  BY DEF Feed!Init, FeedFacts!Init
<1>3. [Feed!Next]_(Feed!feedVars) => [FeedFacts!Next]_(FeedFacts!feedVars)
  BY DEF Feed!Next, Feed!Post, Feed!Expire, Feed!Deliver, Feed!Stretch, Feed!IsNewTo,
         Feed!End, Feed!feedVars,
         FeedFacts!Next, FeedFacts!Post, FeedFacts!Expire, FeedFacts!Deliver,
         FeedFacts!Stretch, FeedFacts!IsNewTo, FeedFacts!End, FeedFacts!feedVars
<1>4. FeedFacts!DeliveredInOrder /\ FeedFacts!NoGapInBatch
      => Feed!DeliveredInOrder /\ Feed!NoGapInBatch
  BY DEF Feed!DeliveredInOrder, FeedFacts!DeliveredInOrder,
         Feed!NoGapInBatch, FeedFacts!NoGapInBatch
<1>5. Feed!Spec => [](Feed!DeliveredInOrder /\ Feed!NoGapInBatch)
  BY <1>1, <1>2, <1>3, <1>4, PTL DEF Feed!Spec, FeedFacts!Spec
<1> QED BY <1>5, FeedImplemented, PTL DEF ImplementsFeed
=============================================================================
