---------------------------- MODULE RefreshChain ----------------------------
(***************************************************************************)
(* What /api/auth/refresh promises, with no time, no HTTP, no database and *)
(* no processes: refresh tokens form chains.  A token enters the ledger    *)
(* either at the head of a chain (a login) or as the one successor of a    *)
(* token that was claimed before; a claim is taken once and ends either in *)
(* that successor or in nothing.                                           *)
(*                                                                         *)
(* Auth.tla is the handler-level specification that implements this one.   *)
(***************************************************************************)
CONSTANTS Ids,     \* names of refresh tokens (their jti)
          None     \* the predecessor of a token that starts a chain

ASSUME NoneIsNoId == None \notin Ids

VARIABLES issued,  \* the tokens minted so far
          from,    \* the token each one was exchanged for
          spent,   \* the tokens somebody has claimed
          pending  \* claims not yet settled

chain == <<issued, from, spent, pending>>

TypeOK ==
  /\ issued \subseteq Ids
  /\ from \in [Ids -> Ids \cup {None}]
  /\ spent \subseteq issued
  /\ pending \subseteq spent

Init ==
  /\ issued = {}
  /\ from = [i \in Ids |-> None]
  /\ spent = {}
  /\ pending = {}

(* A login starts a chain. *)
Issue(i) ==
  /\ i \notin issued
  /\ issued' = issued \cup {i}
  /\ UNCHANGED <<from, spent, pending>>

(* Mutants: a claim on any token; a claim on one that is not issued. *)
ClaimAgain(i) ==
  /\ i \in issued
  /\ spent' = spent \cup {i}
  /\ pending' = pending \cup {i}
  /\ UNCHANGED <<issued, from>>
ClaimUnissued(i) ==
  /\ i \notin spent
  /\ spent' = spent \cup {i}
  /\ pending' = pending \cup {i}
  /\ UNCHANGED <<issued, from>>

(* A refresh takes the only claim there will ever be on token i. *)
Claim(i) ==
  /\ i \in issued \ spent
  /\ spent' = spent \cup {i}
  /\ pending' = pending \cup {i}
  /\ UNCHANGED <<issued, from>>

(* Mutant: the claim is left open. *)
GrantOpen(i, j) ==
  /\ i \in pending
  /\ j \in Ids \ issued
  /\ issued' = issued \cup {j}
  /\ from' = [from EXCEPT ![j] = i]
  /\ UNCHANGED <<spent, pending>>

(* The claim on i ends in its successor j. *)
Grant(i, j) ==
  /\ i \in pending
  /\ j \in Ids \ issued
  /\ issued' = issued \cup {j}
  /\ from' = [from EXCEPT ![j] = i]
  /\ pending' = pending \ {i}
  /\ UNCHANGED spent

(* The claim on i ends in nothing: an error answer or a crash. *)
Abandon(i) ==
  /\ i \in pending
  /\ pending' = pending \ {i}
  /\ UNCHANGED <<issued, from, spent>>

Next ==
  \E i \in Ids : \/ Issue(i)
                 \/ Claim(i)
                 \/ Abandon(i)
                 \/ \E j \in Ids : Grant(i, j)

Spec == Init /\ [][Next]_chain

-----------------------------------------------------------------------------
(* No token is exchanged twice: the chains do not fork. *)
NoFork == \A i, j \in issued : (from[i] = from[j] /\ from[i] # None) => i = j

(* Only settled claims have a successor. *)
SettledHaveSuccessor ==
  \A j \in issued : from[j] # None => from[j] \in spent \ pending
=============================================================================
