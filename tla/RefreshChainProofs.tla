------------------------- MODULE RefreshChainProofs -------------------------
(***************************************************************************)
(* The chains of RefreshChain do not fork, for every set of token names.   *)
(*                                                                         *)
(* NoFork alone is not inductive: a token that has a successor could still *)
(* be pending and get another one.  SettledHaveSuccessor excludes that,    *)
(* and Unborn keeps a token that is not issued yet from having a           *)
(* predecessor before it has one.                                          *)
(***************************************************************************)
EXTENDS RefreshChain, TLAPS

Unborn == \A i \in Ids \ issued : from[i] = None

Chained == TypeOK /\ NoFork /\ SettledHaveSuccessor /\ Unborn

(* Each action keeps the chains; the steps that matter are Issue, which    *)
(* needs Unborn, and Grant, which needs SettledHaveSuccessor.              *)
LEMMA ChainedStep == Chained /\ [Next]_chain => Chained'
<1> SUFFICES ASSUME Chained, [Next]_chain PROVE Chained'
  OBVIOUS
<1> USE NoneIsNoId DEF Chained, TypeOK, NoFork, SettledHaveSuccessor, Unborn
<1>1. ASSUME NEW i \in Ids, Issue(i) PROVE Chained'
  BY <1>1 DEF Issue
<1>2. ASSUME NEW i \in Ids, Claim(i) PROVE Chained'
  BY <1>2 DEF Claim
<1>3. ASSUME NEW i \in Ids, NEW j \in Ids, Grant(i, j) PROVE Chained'
  <2>1. /\ i \in pending /\ i \in spent /\ i \in issued /\ i # None
        /\ j \notin issued /\ i # j
        /\ issued' = issued \cup {j} /\ spent' = spent
        /\ pending' = pending \ {i}
        /\ from' = [from EXCEPT ![j] = i]
    BY <1>3 DEF Grant
  <2>2. \A k \in Ids : from'[k] = IF k = j THEN i ELSE from[k]
    BY <2>1
  <2>3. \A k \in issued : from[k] # i
    BY <2>1
  <2>4. TypeOK'
    BY <2>1
  <2>5. NoFork' /\ SettledHaveSuccessor' /\ Unborn'
    BY <2>1, <2>2, <2>3
  <2> QED BY <2>4, <2>5
<1>4. ASSUME NEW i \in Ids, Abandon(i) PROVE Chained'
  BY <1>4 DEF Abandon
<1>5. CASE UNCHANGED chain
  BY <1>5 DEF chain
<1> QED BY <1>1, <1>2, <1>3, <1>4, <1>5 DEF Next

LEMMA AlwaysChained == Spec => []Chained
<1>1. Init => Chained
  BY NoneIsNoId DEF Init, Chained, TypeOK, NoFork, SettledHaveSuccessor, Unborn
<1> QED BY <1>1, ChainedStep, PTL DEF Spec

(* A refresh token has at most one successor, and only once its claim is   *)
(* settled: what get_refresh (auth.c:607-762) promises with no time, no    *)
(* processes and no database in it.                                        *)
THEOREM ChainsDoNotFork == Spec => [](NoFork /\ SettledHaveSuccessor)
<1>1. Chained => NoFork /\ SettledHaveSuccessor
  BY DEF Chained
<1> QED BY <1>1, AlwaysChained, PTL

(* The ledger stays one: what is pending was claimed, what was claimed was *)
(* issued (auth.c:627-650).                                                *)
THEOREM LedgerIsOne == Spec => []TypeOK
<1>1. Chained => TypeOK
  BY DEF Chained
<1> QED BY <1>1, AlwaysChained, PTL
=============================================================================
