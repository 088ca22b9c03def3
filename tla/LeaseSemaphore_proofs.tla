---------------------- MODULE LeaseSemaphore_proofs -----------------------
(***************************************************************************)
(* The semaphore of leases never exceeds a limit, for every set of locks,  *)
(* resources and limits.                                                   *)
(***************************************************************************)
EXTENDS LeaseSemaphore, FiniteSetTheorems, TLAPS

(* One more element adds at most one to a finite cardinality.              *)
LEMMA CardinalityAdd ==
  ASSUME NEW S, IsFiniteSet(S), NEW x
  PROVE  /\ IsFiniteSet(S \cup {x})
         /\ Cardinality(S) \in Nat
         /\ Cardinality(S \cup {x}) \in Nat
         /\ Cardinality(S \cup {x}) <= Cardinality(S) + 1
         /\ x \notin S => Cardinality(S \cup {x}) = Cardinality(S) + 1
<1>1. Cardinality(S) \in Nat
  BY FS_CardinalityType
<1>2. /\ IsFiniteSet(S \cup {x})
      /\ Cardinality(S \cup {x}) =
            IF x \in S THEN Cardinality(S) ELSE Cardinality(S) + 1
  BY FS_AddElement
<1>3. QED
  BY <1>1, <1>2

(* A subset of a finite set has no more elements.                          *)
LEMMA CardinalitySubset ==
  ASSUME NEW S, IsFiniteSet(S), NEW T, T \subseteq S
  PROVE  /\ IsFiniteSet(T)
         /\ Cardinality(S) \in Nat
         /\ Cardinality(T) \in Nat
         /\ Cardinality(T) <= Cardinality(S)
<1>1. T \in SUBSET S
  OBVIOUS
<1>2. IsFiniteSet(T) /\ Cardinality(T) <= Cardinality(S)
  BY <1>1, FS_Subset
<1>3. QED
  BY <1>2, FS_CardinalityType

(* Granting or ending leases keeps the type of the lease table.            *)
LEMMA SemaphoreTyping == Spec => []TypeOK
<1>1. Init => TypeOK
  BY DEF Init, TypeOK
<1>2. TypeOK /\ [Next]_leases => TypeOK'
  BY DEF TypeOK, Next, Grant, End
<1>3. QED
  BY <1>1, <1>2, PTL DEF Spec

(* The holders of a resource are finitely many.                            *)
LEMMA HoldersFinite ==
  ASSUME SemaphoreConstants, NEW r
  PROVE  /\ IsFiniteSet(Holders(r))
         /\ Cardinality(Holders(r)) \in Nat
<1>1. Holders(r) \subseteq Lock
  BY DEF Holders
<1>2. QED
  BY <1>1, CardinalitySubset DEF SemaphoreConstants

(* No step of the semaphore takes a resource over its limit.               *)
THEOREM SemaphoreLimit ==
  ASSUME SemaphoreConstants
  PROVE  Spec => []LimitRespected
<1>1. Init => LimitRespected
  <2>1. ASSUME Init, NEW r \in Resource
        PROVE  Cardinality(Holders(r)) <= Limit[r]
    <3>1. Holders(r) = {}
      BY <2>1 DEF Init, Holders
    <3>2. QED
      BY <3>1, FS_EmptySet DEF SemaphoreConstants
  <2>2. QED
    BY <2>1 DEF LimitRespected
<1>2. TypeOK /\ LimitRespected /\ [Next]_leases => LimitRespected'
  <2> SUFFICES ASSUME TypeOK, LimitRespected, [Next]_leases,
                      NEW r \in Resource
               PROVE  Cardinality(Holders(r)') <= Limit[r]
    BY DEF LimitRespected
  <2> Limit[r] \in Nat
    BY DEF SemaphoreConstants
  <2>1. CASE \E l \in Lock, R \in SUBSET Resource : Grant(l, R)
    <3>1. PICK l \in Lock, R \in SUBSET Resource : Grant(l, R)
      BY <2>1
    <3>2. CASE r \in R
      <4>1. Holders(r)' = Holders(r) \cup {l}
        BY <3>1, <3>2 DEF Holders, Grant, TypeOK
      <4>2. Cardinality(Holders(r)) < Limit[r]
        BY <3>1, <3>2 DEF Grant
      <4>3. IsFiniteSet(Holders(r))
        BY HoldersFinite
      <4>4. /\ Cardinality(Holders(r)) \in Nat
            /\ Cardinality(Holders(r) \cup {l}) \in Nat
            /\ Cardinality(Holders(r) \cup {l}) <= Cardinality(Holders(r)) + 1
        BY <4>3, CardinalityAdd
      <4>5. QED
        BY <4>1, <4>2, <4>4
    <3>3. CASE r \notin R
      <4>1. Holders(r)' = Holders(r)
        BY <3>1, <3>3 DEF Holders, Grant, TypeOK
      <4>2. QED
        BY <4>1 DEF LimitRespected
    <3>4. QED
      BY <3>2, <3>3
  <2>2. CASE \E S \in SUBSET Lock : End(S)
    <3>1. PICK S \in SUBSET Lock : End(S)
      BY <2>2
    <3>2. Holders(r)' \subseteq Holders(r)
      BY <3>1 DEF Holders, End, TypeOK
    <3>3. /\ Cardinality(Holders(r)') \in Nat
          /\ Cardinality(Holders(r)') <= Cardinality(Holders(r))
      BY <3>2, HoldersFinite, CardinalitySubset
    <3>4. QED
      BY <3>3, HoldersFinite DEF LimitRespected
  <2>3. CASE UNCHANGED leases
    <3>1. Holders(r)' = Holders(r)
      BY <2>3 DEF Holders
    <3>2. QED
      BY <3>1 DEF LimitRespected
  <2>4. QED
    BY <2>1, <2>2, <2>3 DEF Next
<1>3. QED
  BY <1>1, <1>2, SemaphoreTyping, PTL DEF Spec
=============================================================================
