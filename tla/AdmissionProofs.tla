--------------------------- MODULE AdmissionProofs ---------------------------
(***************************************************************************)
(* Proofs about Admission, for any number of calls, any batches and any    *)
(* capacity.                                                               *)
(***************************************************************************)
EXTENDS Admission, FiniteSetTheorems, TLAPS

(* Conservation is not inductive alone: a grant must not hand out an item   *)
(* that is already held.  A held item belongs to a call whose reserve has   *)
(* returned true, so a call still contending finds its batch free.          *)
HeldByGranted ==
  \A i \in held : \E c \in Calls : rpc[c] = "granted" /\ i \in Batch[c]

IInv == TypeOK /\ Conservation /\ NoLostWakeup /\ HeldByGranted

(* Batches and the held set are finite, so their sizes are natural numbers. *)
LEMMA FiniteParts ==
  ASSUME NEW S \in SUBSET Items
  PROVE  IsFiniteSet(S) /\ Cardinality(S) \in Nat
  BY AdmissionAssumption, FS_Subset, FS_CardinalityType

(* The number of units a call asks for is a natural number. *)
LEMMA CountType ==
  ASSUME NEW c \in Calls
  PROVE  Batch[c] \in SUBSET Items /\ Count(c) \in Nat
  BY AdmissionAssumption, FiniteParts DEF Count

(* A grant adds exactly Count(c) new items to held: no item of a call that   *)
(* is still contending is held by another call.                             *)
LEMMA GrantAddsCount ==
  ASSUME IInv, NEW c \in Calls, Contending(c)
  PROVE  Cardinality(held \cup Batch[c]) = Cardinality(held) + Count(c)
<1>1. held \cap Batch[c] = {}
  BY AdmissionAssumption DEF IInv, HeldByGranted, Contending, TypeOK
<1>2. IsFiniteSet(held) /\ IsFiniteSet(Batch[c])
  BY FiniteParts, CountType DEF IInv, TypeOK
<1>3. Cardinality(held \cup Batch[c])
        = Cardinality(held) + Cardinality(Batch[c]) - Cardinality(held \cap Batch[c])
  BY <1>2, FS_Union
<1>4. Cardinality(held) \in Nat /\ Cardinality(Batch[c]) \in Nat
  BY <1>2, FS_CardinalityType
<1>5. Cardinality(held \cap Batch[c]) = 0
  BY <1>1, FS_EmptySet, Zenon
<1>6. QED
  BY <1>3, <1>4, <1>5 DEF Count

(* Releasing items that are held adds exactly their number to `available`:   *)
(* the saturation of release is not reached.                                 *)
LEMMA ReleaseExact ==
  ASSUME IInv, NEW R \in SUBSET held, Release(R)
  PROVE  /\ available' = available + Cardinality(R)
         /\ available' \in 0..Capacity
         /\ Cardinality(held') = Cardinality(held) - Cardinality(R)
<1>1. IsFiniteSet(held) /\ Cardinality(held) \in Nat /\ Cardinality(R) \in Nat
  BY FiniteParts DEF IInv, TypeOK
<1>2. Cardinality(R) <= Cardinality(held)
  BY <1>1, FS_Subset
<1>3. Cardinality(held \ R) = Cardinality(held) - Cardinality(held \cap R)
  BY <1>1, FS_Difference
<1>4. held \cap R = R
  OBVIOUS
<1>5. Cardinality(held') = Cardinality(held) - Cardinality(R)
  BY <1>3, <1>4 DEF Release
<1>6. available + Cardinality(R) <= Capacity /\ available \in Nat /\ Capacity \in Nat
  BY <1>1, <1>2, AdmissionAssumption DEF IInv, TypeOK, Conservation
<1>7. available' = available + Cardinality(R)
  BY <1>1, <1>6 DEF Release
<1>8. QED
  BY <1>1, <1>5, <1>6, <1>7

(* Every lock region that changes `available` or `closed` leaves nobody      *)
(* asleep.                                                                   *)
LEMMA NotifyAllWakes ==
  ASSUME TypeOK, NotifyAll
  PROVE  /\ rpc' \in [Calls -> {"idle", "entering", "awake"} \cup Returned]
         /\ \A c \in Calls : rpc[c] = "granted" => rpc'[c] = "granted"
  BY DEF TypeOK, NotifyAll, Returned

(* A release of held items preserves the invariant. *)
LEMMA ReleasePreserves ==
  ASSUME IInv, NEW R \in SUBSET held, Release(R)
  PROVE  IInv'
<1> USE DEF IInv
<1>1. TypeOK'
  BY ReleaseExact, NotifyAllWakes DEF Release, TypeOK
<1>2. Conservation'
  <2>1. Cardinality(held) \in Nat /\ Cardinality(R) \in Nat
    BY FiniteParts DEF TypeOK
  <2>2. QED
    BY <2>1, ReleaseExact, AdmissionAssumption DEF Conservation, TypeOK
<1>3. NoLostWakeup'
  BY NotifyAllWakes DEF NoLostWakeup, Release, Returned
<1>4. HeldByGranted'
  BY NotifyAllWakes DEF HeldByGranted, Release
<1>5. QED
  BY <1>1, <1>2, <1>3, <1>4

(* Every step of the admission gate preserves the invariant. *)
LEMMA StepPreserves == IInv /\ [Next]_vars => IInv'
<1> SUFFICES ASSUME IInv, [Next]_vars PROVE IInv'
  OBVIOUS
<1> USE DEF IInv
<1>1. ASSUME NEW c \in Calls, ReserveEnter(c) PROVE IInv'
  BY <1>1 DEF ReserveEnter, TypeOK, Conservation, NoLostWakeup, HeldByGranted,
              Returned, Count
<1>2. ASSUME NEW c \in Calls, ReserveGrant(c) PROVE IInv'
  <2>1. TypeOK'
    BY <1>2, CountType, AdmissionAssumption DEF ReserveGrant, TypeOK, Returned
  <2>2. Conservation'
    <3>1. Cardinality(held) \in Nat /\ Count(c) \in Nat
      BY FiniteParts, CountType DEF TypeOK
    <3>2. QED
      BY <1>2, <3>1, GrantAddsCount, AdmissionAssumption
      DEF ReserveGrant, Conservation, TypeOK
  <2>3. NoLostWakeup'
    <3> SUFFICES ASSUME NEW d \in Calls, rpc'[d] = "asleep"
                 PROVE  available' < Count(d) /\ ~closed'
      BY DEF NoLostWakeup, Count
    <3>1. d # c /\ rpc[d] = "asleep"
      BY <1>2 DEF ReserveGrant, TypeOK
    <3>2. available < Count(d) /\ ~closed
      BY <3>1 DEF NoLostWakeup
    <3>3. Count(c) \in Nat /\ Count(d) \in Nat
      BY CountType
    <3>4. QED
      BY <1>2, <3>2, <3>3, AdmissionAssumption DEF ReserveGrant, TypeOK
  <2>4. HeldByGranted'
    BY <1>2 DEF ReserveGrant, HeldByGranted, TypeOK
  <2>5. QED
    BY <2>1, <2>2, <2>3, <2>4
<1>3. ASSUME NEW c \in Calls, ReserveRefuse(c) PROVE IInv'
  BY <1>3 DEF ReserveRefuse, Contending, TypeOK, Conservation, NoLostWakeup,
              HeldByGranted, Returned, Count
<1>4. ASSUME NEW c \in Calls, ReserveSleep(c) PROVE IInv'
  BY <1>4 DEF ReserveSleep, Contending, TypeOK, Conservation, NoLostWakeup,
              HeldByGranted, Returned, Count
<1>5. ASSUME NEW c \in Calls, WakeUp(c) PROVE IInv'
  BY <1>5 DEF WakeUp, TypeOK, Conservation, NoLostWakeup, HeldByGranted,
              Returned, Count
<1>6. ASSUME NEW c \in Calls, DeadlinePasses(c) PROVE IInv'
  BY <1>6 DEF DeadlinePasses, TypeOK, Conservation, NoLostWakeup, HeldByGranted,
              Returned, Count
<1>7. ASSUME NEW c \in Calls, ReleaseBatch(c) PROVE IInv'
  BY <1>7, ReleasePreserves DEF ReleaseBatch
<1>8. ASSUME NEW i \in Items, ReleaseOne(i) PROVE IInv'
  BY <1>8, ReleasePreserves DEF ReleaseOne
<1>9. CASE Close
  <2>1. TypeOK' /\ NoLostWakeup' /\ HeldByGranted'
    BY <1>9, NotifyAllWakes
    DEF Close, TypeOK, NoLostWakeup, HeldByGranted, Returned
  <2>2. QED
    BY <1>9, <2>1 DEF Close, Conservation
<1>10. CASE UNCHANGED vars
  BY <1>10 DEF vars, TypeOK, Conservation, NoLostWakeup, HeldByGranted, Count
<1>11. QED
  BY <1>1, <1>2, <1>3, <1>4, <1>5, <1>6, <1>7, <1>8, <1>9, <1>10 DEF Next

(* The strengthened invariant holds initially. *)
LEMMA InitIInv == Init => IInv
<1>1. Cardinality({}) = 0
  BY FS_EmptySet, Zenon
<1>2. Init => TypeOK
  <2>1. Init => available \in 0..Capacity
    BY AdmissionAssumption DEF Init
  <2>2. Init => rpc \in [Calls -> {"idle", "entering", "asleep", "awake"} \cup Returned]
    BY DEF Init
  <2>3. Init => closed \in BOOLEAN /\ expired \subseteq Calls /\ held \subseteq Items
    BY Zenon DEF Init
  <2>4. QED
    BY <2>1, <2>2, <2>3 DEF TypeOK
<1>3. Init => Conservation
  <2>1. SUFFICES ASSUME Init PROVE Conservation
    OBVIOUS
  <2>2. Cardinality(held) = 0
    BY <1>1, <2>1, Zenon DEF Init
  <2>3. QED
    BY <2>1, <2>2, AdmissionAssumption DEF Init, Conservation
<1>4. Init => NoLostWakeup /\ HeldByGranted
  BY DEF Init, NoLostWakeup, HeldByGranted
<1>5. QED
  BY <1>2, <1>3, <1>4 DEF IInv

(* The strengthened invariant holds in every reachable state. *)
THEOREM AdmissionInvariant == Safety => []IInv
BY InitIInv, StepPreserves, PTL DEF Safety

(* Type correctness of the gate: `available` stays between zero and the     *)
(* capacity whatever the calls do.                                          *)
THEOREM AdmissionTypeCorrect == Safety => []TypeOK
<1>1. IInv => TypeOK
  BY DEF IInv
<1>2. QED
  BY <1>1, AdmissionInvariant, PTL

(* Units are conserved by reserve and release, for every capacity.          *)
THEOREM UnitsConserved == Safety => []Conservation
<1>1. IInv => Conservation
  BY DEF IInv
<1>2. QED
  BY <1>1, AdmissionInvariant, PTL

(* The condition variable loses no wakeup.                                  *)
THEOREM WakeupsNotLost == Safety => []NoLostWakeup
<1>1. IInv => NoLostWakeup
  BY DEF IInv
<1>2. QED
  BY <1>1, AdmissionInvariant, PTL

(* Once closed, the gate stays closed and grants nothing.                   *)
THEOREM ClosedStaysClosed == Safety => ClosedAdmitsNothing
<1>1. TypeOK /\ [Next]_vars => [closed => closed' /\ held' \subseteq held]_vars
  BY DEF TypeOK, Next, vars, ReserveEnter, ReserveGrant, ReserveRefuse,
         ReserveSleep, WakeUp, DeadlinePasses, ReleaseBatch, ReleaseOne,
         Release, Close
<1>2. QED
  BY <1>1, AdmissionTypeCorrect, PTL DEF Safety, ClosedAdmitsNothing
=============================================================================
