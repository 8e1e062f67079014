-------------------------- MODULE MCConnectionSetup --------------------------
(***************************************************************************)
(* Instances of ConnectionSetup for TLC: o1 is older than o2, and n1 is    *)
(* sent to the new node.                                                   *)
(***************************************************************************)
EXTENDS ConnectionSetup, TLC

CONSTANTS o1, o2, n1

MCCreatedAt == o1 :> 1 @@ o2 :> 2 @@ n1 :> 3
=============================================================================
