----------------------------- MODULE MCStreamer -----------------------------
(***************************************************************************)
(* Instances of Streamer for TLC.  n2 is under t2, the other notes under   *)
(* t1; s1 and s2 subscribe to t1, s3 to t2.                                *)
(***************************************************************************)
EXTENDS Streamer, TLC

CONSTANTS n1, n2, n3, t1, t2, s1, s2, s3

MCTagOf == [n \in Notes |-> IF n = n2 THEN t2 ELSE t1]
MCSubTag == [s \in Subs |-> IF s = s3 THEN t2 ELSE t1]

\* Notes under one tag, and its two subscribers, are alike.
MCSymmetry == Permutations({n1, n3}) \cup Permutations({s1, s2})
=============================================================================
