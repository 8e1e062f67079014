-------------------------- MODULE MCNoteTransport --------------------------
(***************************************************************************)
(* Instances of NoteTransport for TLC.  Each note has a tag of its own.     *)
(* k2 is the retry of k1: both carry n1.                                   *)
(***************************************************************************)
EXTENDS NoteTransport, TLC

CONSTANTS n1, n2, n3, t1, t2, t3, k1, k2, k3, k4, a, b, d

MCTagOf == n1 :> t1 @@ n2 :> t2 @@ n3 :> t3
MCCallNote == [k \in Calls |-> IF k \in {k1, k2} THEN n1 ELSE IF k = k3 THEN n2 ELSE n3]
MCHeaderSize == 1

\* n3 is the large one.
MCDetailsSize == n1 :> 1 @@ n2 :> 1 @@ n3 :> 2

\* The clients ask for two of the tags, one of them twice in one request; d asks
\* for none.
MCAskTags == [c \in Clients |-> IF c = d THEN <<>> ELSE <<t1, t2, t1>>]

\* a is a new client; b kept the cursor of the schema without `seq`.
MCLegacyThreshold == 9
MCFirstCursor == [c \in Clients |-> IF c = b THEN MCLegacyThreshold + 1 ELSE 0]

=============================================================================
