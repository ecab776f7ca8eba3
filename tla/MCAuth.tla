------------------------------- MODULE MCAuth -------------------------------
(***************************************************************************)
(* Small instances of Auth for TLC.                                        *)
(***************************************************************************)
EXTENDS Auth, TLC

CONSTANTS t1, t2, b1, b2, alice, bob

(* Two tabs of one browser; two browsers with one tab each. *)
SharedJar == [t \in {t1, t2} |-> b1]
TwoJars   == t1 :> b1 @@ t2 :> b2
OneTab    == t1 :> b1

(* A server west of Greenwich. *)
West == -1

WorkerSymmetry == Permutations(Workers)
=============================================================================
