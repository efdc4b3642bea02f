------------------------ MODULE ReconcileLoop_proofs ------------------------
(***************************************************************************)
(* Proofs about ReconcileLoop: for any number of rows and sweeps, and      *)
(* whatever rows each of them looks at, a transaction is settled once and  *)
(* no two sweeps work on it.  What excludes them is the lock of the row:   *)
(* it is held from the claim to the commit that takes the flag away.       *)
(***************************************************************************)
EXTENDS ReconcileLoop, TLAPS

\* A sweep at work holds the lock of its row, which is still flagged.
ClaimsAreLocked ==
  \A w \in Sweepers : pc[w] = "inquire" =>
    lock[row[w]] = w /\ row[w] \in flagged

\* A flagged row has not been settled.
FlaggedIsOpen == \A r \in flagged : settlements[r] = 0

IInv == TypeOK /\ ClaimsAreLocked /\ FlaggedIsOpen /\ SettledOnce

\* The sweeps start asleep, with no row settled.
LEMMA InitIInv == Init => IInv
<1> SUFFICES ASSUME Init PROVE IInv
  OBVIOUS
<1>1. Nobody \notin Sweepers /\ Nobody \notin Rows
  BY LoopAssumption
<1> QED BY <1>1 DEF Init, IInv, TypeOK, ClaimsAreLocked, FlaggedIsOpen, SettledOnce, SettleBound

-----------------------------------------------------------------------------
\* A handler flags a row, the provider decides, a request is closed.
LEMMA OutsideIInv ==
  ASSUME IInv, NEW r \in Rows, Flag(r) \/ Decide(r) \/ CloseRequest(r)
  PROVE  IInv'
<1> USE DEF IInv
<1>1. CASE Flag(r)
  BY <1>1 DEF Flag, TypeOK, ClaimsAreLocked, FlaggedIsOpen, SettledOnce
<1>2. CASE Decide(r)
  BY <1>2 DEF Decide, TypeOK, ClaimsAreLocked, FlaggedIsOpen, SettledOnce
<1>3. CASE CloseRequest(r)
  BY <1>3 DEF CloseRequest, TypeOK, ClaimsAreLocked, FlaggedIsOpen, SettledOnce
<1> QED BY <1>1, <1>2, <1>3

\* Waking up and finding nothing to claim change no row.
LEMMA IdleIInv ==
  ASSUME IInv, NEW w \in Sweepers,
         Wake(w) \/ NothingToClaim(w) \/ HeadLocked(w)
  PROVE  IInv'
<1>1. /\ pc[w] # "inquire" /\ pc' = [pc EXCEPT ![w] = pc'[w]]
      /\ pc'[w] \in {"asleep", "claim"}
      /\ UNCHANGED <<flagged, answer, orphaned, settlements, lock, row>>
  BY DEF Wake, NothingToClaim, HeadLocked, Goto, IInv, TypeOK
<1> QED BY <1>1 DEF IInv, TypeOK, ClaimsAreLocked, FlaggedIsOpen, SettledOnce

\* A claim takes the lock of a flagged row nobody works on.
LEMMA ClaimIInv ==
  ASSUME IInv, NEW w \in Sweepers, claim_next(w)
  PROVE  IInv'
<1> USE DEF IInv
<1>1. PICK r \in Lowest(Eligible(w)) :
        lock[r] = Nobody /\ lock' = [lock EXCEPT ![r] = w] /\ row' = [row EXCEPT ![w] = r]
  BY DEF claim_next
<1>2. r \in Rows /\ r \in flagged /\ r # Nobody /\ w # Nobody
  BY <1>1, LoopAssumption DEF Lowest, Eligible, TypeOK
<1>3. /\ pc[w] = "claim" /\ pc' = [pc EXCEPT ![w] = "inquire"]
      /\ UNCHANGED <<flagged, answer, orphaned, settlements>>
  BY DEF claim_next, Goto
<1>4. TypeOK'
  <2>1. \A x \in Sweepers : (pc'[x] = "inquire") = (row'[x] # Nobody)
    BY <1>1, <1>2, <1>3 DEF TypeOK
  <2>2. ASSUME NEW q \in Rows, lock'[q] # Nobody
        PROVE  row'[lock'[q]] = q
    <3>1. CASE q = r
      BY <3>1, <1>1, <1>2 DEF TypeOK
    <3>2. CASE q # r
      <4>1. lock'[q] = lock[q] /\ lock[q] \in Sweepers /\ row[lock[q]] = q
        BY <3>2, <2>2, <1>1, <1>2 DEF TypeOK
      <4>2. lock[q] # w
        BY <4>1, <1>2, <1>3, LoopAssumption DEF TypeOK
      <4> QED BY <4>1, <4>2, <1>1 DEF TypeOK
    <3> QED BY <3>1, <3>2
  <2> QED BY <2>1, <2>2, <1>1, <1>2, <1>3 DEF TypeOK
<1>5. ClaimsAreLocked'
  BY <1>1, <1>2, <1>3, LoopAssumption DEF ClaimsAreLocked, TypeOK
<1> QED BY <1>3, <1>4, <1>5 DEF FlaggedIsOpen, SettledOnce

\* A sweep lets go of its row: no other sweep had claimed it.
LEMMA ReleaseIInv ==
  ASSUME IInv, NEW w \in Sweepers,
         Settle(w) \/ SettleReturns(w) \/ StillPending(w) \/ Raises(w)
  PROVE  IInv'
<1> USE DEF IInv
<1> DEFINE r == row[w]
<1>1. /\ pc[w] = "inquire" /\ r \in Rows /\ lock[r] = w /\ r \in flagged
      /\ settlements[r] = 0 /\ w # Nobody
  BY LoopAssumption DEF Settle, SettleReturns, StillPending, Raises, TypeOK, ClaimsAreLocked, FlaggedIsOpen
<1>2. /\ lock' = [lock EXCEPT ![r] = Nobody] /\ row' = [row EXCEPT ![w] = Nobody]
      /\ pc' = [pc EXCEPT ![w] = pc'[w]] /\ pc'[w] \in {"asleep", "claim"}
      /\ UNCHANGED <<answer, orphaned>>
  BY <1>1 DEF Settle, SettleReturns, StillPending, Raises, Unclaim, Goto, TypeOK
<1>3. \/ UNCHANGED <<flagged, settlements>>
      \/ flagged' = flagged \ {r} /\ settlements' = [settlements EXCEPT ![r] = 1]
  BY <1>1 DEF Settle, SettleReturns, StillPending, Raises, SettleBound, TypeOK
<1>4. \A x \in Sweepers \ {w} : pc[x] = "inquire" => row[x] # r
  BY <1>1 DEF ClaimsAreLocked
<1>5. TypeOK'
  <2>1. /\ lock' \in [Rows -> Sweepers \cup {Nobody}]
        /\ row' \in [Sweepers -> Rows \cup {Nobody}]
        /\ pc' \in [Sweepers -> {"asleep", "claim", "inquire"}]
    BY <1>1, <1>2 DEF TypeOK
  <2>2. flagged' \subseteq Rows /\ settlements' \in [Rows -> 0..SettleBound]
    BY <1>1, <1>3 DEF TypeOK, SettleBound
  <2>3. \A x \in Sweepers : (pc'[x] = "inquire") = (row'[x] # Nobody)
    BY <1>1, <1>2 DEF TypeOK
  <2>4. \A q \in Rows : lock'[q] # Nobody => row'[lock'[q]] = q
    BY <1>1, <1>2 DEF TypeOK
  <2> QED BY <1>2, <2>1, <2>2, <2>3, <2>4 DEF TypeOK
<1>6. ClaimsAreLocked'
  BY <1>1, <1>2, <1>3, <1>4 DEF ClaimsAreLocked, TypeOK
<1>7. FlaggedIsOpen' /\ SettledOnce'
  BY <1>1, <1>3 DEF FlaggedIsOpen, SettledOnce, TypeOK
<1> QED BY <1>5, <1>6, <1>7

-----------------------------------------------------------------------------
LEMMA NextIInv == IInv /\ [Next]_vars => IInv'
<1> SUFFICES ASSUME IInv, [Next]_vars PROVE IInv'
  OBVIOUS
<1>1. ASSUME NEW r \in Rows, Flag(r) \/ Decide(r) \/ CloseRequest(r)
      PROVE  IInv'
  BY <1>1, OutsideIInv
<1>2. ASSUME NEW w \in Sweepers, Wake(w) \/ NothingToClaim(w) \/ HeadLocked(w)
      PROVE  IInv'
  BY <1>2, IdleIInv
<1>3. ASSUME NEW w \in Sweepers, claim_next(w)
      PROVE  IInv'
  BY <1>3, ClaimIInv
<1>4. ASSUME NEW w \in Sweepers, Settle(w) \/ SettleReturns(w) \/ StillPending(w) \/ Raises(w)
      PROVE  IInv'
  BY <1>4, ReleaseIInv
<1>5. CASE UNCHANGED vars
  BY <1>5 DEF vars, IInv, TypeOK, ClaimsAreLocked, FlaggedIsOpen, SettledOnce
<1> QED BY <1>1, <1>2, <1>3, <1>4, <1>5 DEF Next

LEMMA SpecIInv == Spec => []IInv
BY InitIInv, NextIInv, PTL DEF Spec

\* Every variable keeps its type, and a lock that is held is held by the
\* sweep that works on its row.
THEOREM LoopTypeCorrect == Spec => []TypeOK
<1>1. IInv => TypeOK
  BY DEF IInv
<1> QED BY <1>1, SpecIInv, PTL

\* No transaction is settled twice, however many sweeps run.
THEOREM SettledAtMostOnce == Spec => []SettledOnce
<1>1. IInv => SettledOnce
  BY DEF IInv
<1> QED BY <1>1, SpecIInv, PTL

\* Two sweeps never work on one row, nor one sweep on a row that is settled.
THEOREM ClaimsAreExclusive == Spec => []ClaimsExclude
<1>1. IInv => ClaimsExclude
  BY DEF IInv, ClaimsAreLocked, ClaimsExclude
<1> QED BY <1>1, SpecIInv, PTL
=============================================================================
