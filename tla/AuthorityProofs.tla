--------------------------- MODULE AuthorityProofs ---------------------------
(***************************************************************************)
(* Proofs about Authority for every set of identities and every bound:     *)
(* type correctness, that the table and its gate implement                 *)
(* AuthorityContract, that the watermark is the largest accepted number,   *)
(* that gaps counts the holes below it, and that max_publishers bounds the *)
(* identities with authority.                                              *)
(***************************************************************************)
EXTENDS Authority, GateProofs, FiniteSetTheorems

(* The first state is well typed.                                           *)
LEMMA InitType == Init => TypeOK
<1> SUFFICES ASSUME Init PROVE TypeOK
  OBVIOUS
<1>1. GateTypeOK
  BY GateAssumption DEF Init, GateInit, GateTypeOK, Epoch
<1>2. 0 \in Sequence
  BY GateAssumption DEF Sequence
<1> QED BY <1>1, <1>2 DEF Init, TypeOK

(* Every step of Authority keeps every variable in its type.                *)
LEMMA StepType == TypeOK /\ [Next]_vars => TypeOK'
<1> SUFFICES ASSUME TypeOK, [Next]_vars PROVE TypeOK'
  OBVIOUS
<1> USE DEF TypeOK
<1>1. ASSUME NEW ctx \in PublicationContext, Register(ctx) PROVE TypeOK'
  <2>1. GateTypeOK'
    BY <1>1, RegisterType DEF Register, register_publisher
  <2>2. ctx.key \in Keys /\ ctx.sequence \in Sequence
    BY DEF PublicationContext
  <2>3. gaps' \in [Keys -> Nat] /\ accepted' \in [Keys -> SUBSET Sequence]
        /\ base' \in [Keys -> Sequence]
    BY <1>1, <2>2 DEF Register, Accepts, GapsAfter
  <2> QED BY <2>1, <2>3
<1>2. ASSUME NEW ctx \in PublicationContext, Publish(ctx) PROVE TypeOK'
  <2>1. GateTypeOK'
    BY <1>2, FinishType DEF Publish
  <2>2. ctx.key \in Keys /\ ctx.sequence \in Sequence
    BY DEF PublicationContext
  <2>3. gaps' \in [Keys -> Nat] /\ accepted' \in [Keys -> SUBSET Sequence]
        /\ base' \in [Keys -> Sequence]
    BY <1>2, <2>2 DEF Publish, Accepts, GapsAfter
  <2> QED BY <2>1, <2>3
<1>3. ASSUME NEW k \in Keys, Fence(k) PROVE TypeOK'
  BY <1>3, FenceType DEF Fence
<1>4. CASE Invalidate
  BY <1>4, InvalidateType DEF Invalidate
<1>5. CASE Restart
  <2>1. GateTypeOK'
    BY <1>5, RestoreType DEF Restart
  <2>2. \A k \in Keys : (IF Known(k) THEN publishers[k].watermark ELSE 0) \in Sequence
    BY GateAssumption DEF GateTypeOK, Known, PublisherAuthority, Sequence
  <2> QED BY <1>5, <2>1, <2>2 DEF Restart
<1>6. CASE UNCHANGED vars
  BY <1>6 DEF vars, GateTypeOK
<1> QED BY <1>1, <1>2, <1>3, <1>4, <1>5, <1>6 DEF Next

(* The table, the epoch and the counters keep their types under every       *)
(* sequence of registrations, publications, fences and restarts.            *)
THEOREM TypeCorrect == Spec => []TypeOK
<1> QED BY InitType, StepType, PTL DEF Spec

-----------------------------------------------------------------------------
(* One step of Authority is one step, or a stutter, of the contract.        *)
LEMMA StepContract ==
  ASSUME TypeOK, [Next]_vars
  PROVE  [Contract!Next]_Contract!contractVars
<1>0. GateTypeOK
  BY DEF TypeOK
<1>1. ASSUME NEW ctx \in PublicationContext, Register(ctx) \/ Publish(ctx)
      PROVE  Contract!Next
  <2>1. Contract!Accept(ctx.key, ctx.sequence)
    BY <1>0, <1>1, RegisterAccepts, FinishAccepts DEF Register, Publish, register_publisher
  <2> QED BY <2>1 DEF Contract!Next, PublicationContext
<1>2. ASSUME NEW k \in Keys, Fence(k) PROVE Contract!Next
  BY <1>0, <1>2, FenceFences DEF Fence, Contract!Next
<1>3. CASE Invalidate
  BY <1>0, <1>3, InvalidateStutters DEF Invalidate
<1>4. CASE Restart
  BY <1>0, <1>4, RestoreAdvances DEF Restart, Contract!Next
<1>5. CASE UNCHANGED vars
  BY <1>5 DEF vars, Contract!contractVars, FencedKeys, Watermark, Known
<1> QED BY <1>1, <1>2, <1>3, <1>4, <1>5 DEF Next

(* For every number of identities, federations, sequence numbers and        *)
(* restarts: the registrations, the gate, the fences and the clean restart  *)
(* implement AuthorityContract.                                             *)
THEOREM AuthorityImplementsContract == Spec => ImplementsContract
<1>1. Init => Contract!Init
  BY GateInitContract DEF Init
<1>2. TypeOK /\ [Next]_vars => [Contract!Next]_Contract!contractVars
  BY StepContract
<1> QED BY <1>1, <1>2, TypeCorrect, PTL DEF Spec, ImplementsContract, Contract!Spec

-----------------------------------------------------------------------------
(* Each step keeps the watermark at the largest accepted number.            *)
LEMMA StepLargest ==
  ASSUME TypeOK, WatermarkIsLargestAccepted, [Next]_vars
  PROVE  WatermarkIsLargestAccepted'
<1>0. GateTypeOK /\ accepted \in [Keys -> SUBSET Sequence]
  BY DEF TypeOK
<1>a. \A k \in Keys : Watermark(k) \in Sequence
  BY <1>0, GateAssumption DEF GateTypeOK, Watermark, Known, PublisherAuthority, Sequence
<1>1. ASSUME NEW ctx \in PublicationContext, Register(ctx) \/ Publish(ctx)
      PROVE  WatermarkIsLargestAccepted'
  <2>1. Contract!Accept(ctx.key, ctx.sequence) /\ Watermark(ctx.key)' = ctx.sequence
    BY <1>0, <1>1, RegisterAccepts, FinishAccepts DEF Register, Publish, register_publisher
  <2>2. ctx.key \in Keys /\ ctx.sequence \in Sequence
    BY DEF PublicationContext
  <2>3. accepted' = [accepted EXCEPT ![ctx.key] = @ \cup {ctx.sequence}]
    BY <1>1 DEF Register, Publish, Accepts
  <2>4. \A k \in Keys : k # ctx.key => Watermark(k)' = Watermark(k)
    BY <2>1, <2>2 DEF Contract!Accept
  <2>5. ctx.sequence >= Watermark(ctx.key)
    BY <2>1, <2>2 DEF Contract!Accept
  <2> QED
    BY <1>0, <1>a, <2>1, <2>2, <2>3, <2>4, <2>5, GateAssumption
    DEF WatermarkIsLargestAccepted, Sequence
<1>2. ASSUME accepted' = accepted, \A k \in Keys : Watermark(k)' = Watermark(k)
      PROVE  WatermarkIsLargestAccepted'
  BY <1>2 DEF WatermarkIsLargestAccepted
<1>3. ASSUME NEW k \in Keys, Fence(k) PROVE WatermarkIsLargestAccepted'
  <2>1. Contract!Fence(k)
    BY <1>0, <1>3, FenceFences DEF Fence
  <2> QED BY <1>2, <1>3, <2>1 DEF Contract!Fence, Fence
<1>4. CASE Invalidate
  BY <1>0, <1>2, <1>4, InvalidateStutters DEF Invalidate, Contract!contractVars
<1>5. CASE Restart
  <2>1. Contract!NewEpoch
    BY <1>0, <1>5, RestoreAdvances DEF Restart
  <2> QED BY <1>2, <1>5, <2>1 DEF Contract!NewEpoch, Restart
<1>6. CASE UNCHANGED vars
  BY <1>2, <1>6 DEF vars, Watermark, Known
<1> QED BY <1>1, <1>3, <1>4, <1>5, <1>6 DEF Next

(* The watermark a reply reports is exactly the largest sequence number     *)
(* ever accepted from the identity, across restarts.                        *)
THEOREM WatermarkExact == Spec => []WatermarkIsLargestAccepted
<1>1. Init => WatermarkIsLargestAccepted
  BY DEF Init, GateInit, WatermarkIsLargestAccepted, Watermark, Known
<1>2. TypeOK /\ WatermarkIsLargestAccepted /\ [Next]_vars => WatermarkIsLargestAccepted'
  BY StepLargest
<1> QED BY <1>1, <1>2, TypeCorrect, PTL DEF Spec

-----------------------------------------------------------------------------
(* The numbers that GapsCountEveryHole counts.                              *)
Holes(k) == {s \in accepted[k] : s > base[k] + 1 /\ s - 1 \notin accepted[k]}

(* The inductive form: gaps are counted from no further than the watermark, *)
(* and the counter is right for an identity that is not in the table too.   *)
HolesInv == \A k \in Keys : base[k] <= Watermark(k) /\ gaps[k] = Cardinality(Holes(k))

(* The holes of an identity that has accepted nothing beyond where it       *)
(* counts from.                                                             *)
LEMMA NoHoles ==
  ASSUME NEW A \in SUBSET Nat, NEW b \in Nat, \A s \in A : s <= b
  PROVE  {s \in A : s > b + 1 /\ s - 1 \notin A} = {}
<1>1. \A s \in A : ~(s > b + 1)
  OBVIOUS
<1> QED BY <1>1

(* finish: the number accepted is a hole exactly when it skips past the     *)
(* watermark, and it fills none.                                            *)
LEMMA HoleAdded ==
  ASSUME NEW A \in SUBSET Nat, NEW b \in Nat, NEW w \in Nat, NEW n \in Nat,
         b <= w, n >= w, \A s \in A : s <= w, w # 0 => w \in A
  PROVE  LET holes == {s \in A : s > b + 1 /\ s - 1 \notin A}
             after == {s \in A \cup {n} : s > b + 1 /\ s - 1 \notin A \cup {n}}
         IN  /\ n > w + 1 => after = holes \cup {n} /\ n \notin holes
             /\ ~(n > w + 1) => after = holes
<1> DEFINE holes == {s \in A : s > b + 1 /\ s - 1 \notin A}
           after == {s \in A \cup {n} : s > b + 1 /\ s - 1 \notin A \cup {n}}
<1>1. \A s \in A : s - 1 # n \/ ~(s > b + 1)
  OBVIOUS
<1>2. ASSUME n > w + 1
      PROVE  after = holes \cup {n} /\ n \notin holes
  <2>1. n \notin A /\ n > b + 1 /\ n - 1 \notin A /\ n - 1 # n
    BY <1>2
  <2>2. after \subseteq holes \cup {n} /\ holes \cup {n} \subseteq after
    BY <1>1, <2>1
  <2> QED BY <2>1, <2>2
<1>3. ASSUME ~(n > w + 1)
      PROVE  after = holes
  <2>1. n = w \/ n = w + 1
    BY <1>3
  <2>2. n \in A \/ ~(n > b + 1) \/ n - 1 \in A
    BY <2>1
  <2>3. n \notin after \/ n \in holes
    BY <1>1, <2>2
  <2>4. after \subseteq holes /\ holes \subseteq after
    BY <1>1, <2>3
  <2> QED BY <2>4
<1> QED BY <1>2, <1>3

(* Each step keeps the counters at the number of holes.                     *)
LEMMA StepHoles ==
  ASSUME TypeOK, WatermarkIsLargestAccepted, HolesInv, [Next]_vars
  PROVE  HolesInv'
<1>0. /\ GateTypeOK /\ accepted \in [Keys -> SUBSET Sequence] /\ gaps \in [Keys -> Nat]
      /\ base \in [Keys -> Sequence]
  BY DEF TypeOK
<1>1. Sequence \subseteq Nat /\ Sequence = 0..MaxSequence
  BY GateAssumption DEF Sequence
<1>2. \A k \in Keys : Watermark(k) \in Nat
  BY <1>0, <1>1, GateAssumption DEF GateTypeOK, Watermark, Known, PublisherAuthority, Sequence
<1>3. \A k \in Keys : IsFiniteSet(Holes(k))
  <2>1. IsFiniteSet(0..MaxSequence)
    BY GateAssumption, FS_Interval
  <2>2. \A k \in Keys : Holes(k) \in SUBSET (0..MaxSequence)
    BY <1>0, <1>1 DEF Holes
  <2> QED BY <2>1, <2>2, FS_Subset
<1>4. ASSUME NEW k \in Keys, \A s \in accepted[k] : s <= base[k]
      PROVE  Cardinality(Holes(k)) = 0
  <2>1. accepted[k] \in SUBSET Nat /\ base[k] \in Nat
    BY <1>0, <1>1
  <2>2. Holes(k) = {}
    BY <1>4, <2>1, NoHoles DEF Holes
  <2> QED BY <2>2, FS_EmptySet
<1>5. ASSUME NEW ctx \in PublicationContext, Register(ctx) \/ Publish(ctx)
      PROVE  HolesInv'
  <2> DEFINE k == ctx.key
             n == ctx.sequence
  <2>1. Contract!Accept(k, n) /\ Watermark(k)' = n
    BY <1>0, <1>5, RegisterAccepts, FinishAccepts DEF Register, Publish, register_publisher
  <2>2. k \in Keys /\ n \in Sequence /\ n \in Nat
    BY <1>1 DEF PublicationContext
  <2>3. accepted' = [accepted EXCEPT ![k] = @ \cup {n}]
    BY <1>5 DEF Register, Publish, Accepts
  <2>4. \A d \in Keys \ {k} : Watermark(d)' = Watermark(d)
    BY <2>1, <2>2 DEF Contract!Accept
  <2>5. n >= Watermark(k)
    BY <2>1, <2>2 DEF Contract!Accept
  <2>6. \A s \in accepted[k] : s <= Watermark(k)
    BY <2>2 DEF WatermarkIsLargestAccepted
  <2>7. accepted'[k] = accepted[k] \cup {n} /\ \A d \in Keys \ {k} : accepted'[d] = accepted[d]
    BY <1>0, <2>2, <2>3
  <2>8. CASE RegisterNew(ctx) /\ base' = [base EXCEPT ![k] = n] /\ UNCHANGED gaps
    <3>1. Watermark(k) = 0 /\ base[k] \in Nat /\ base[k] <= Watermark(k)
      BY <1>0, <1>1, <2>2, <2>8 DEF RegisterNew, Watermark, HolesInv
    <3>2. gaps[k] = 0
      <4>1. \A s \in accepted[k] : s <= base[k]
        BY <1>0, <1>1, <2>2, <2>6, <3>1
      <4> QED BY <1>4, <2>2, <4>1 DEF HolesInv
    <3>3. base'[k] = n /\ \A d \in Keys \ {k} : base'[d] = base[d]
      BY <1>0, <2>2, <2>8
    <3>4. Holes(k)' = {}
      <4>1. accepted[k] \cup {n} \in SUBSET Nat
        BY <1>0, <1>1, <2>2
      <4>2. \A s \in accepted[k] \cup {n} : s <= n
        BY <1>0, <1>1, <1>2, <2>2, <2>5, <2>6
      <4>3. {s \in accepted[k] \cup {n} : s > n + 1 /\ s - 1 \notin accepted[k] \cup {n}} = {}
        BY <2>2, <4>1, <4>2, NoHoles
      <4> QED BY <2>7, <3>3, <4>3 DEF Holes
    <3>5. base'[k] <= Watermark(k)' /\ gaps'[k] = Cardinality(Holes(k)')
      BY <2>1, <2>2, <2>8, <3>2, <3>3, <3>4, FS_EmptySet
    <3>6. \A d \in Keys \ {k} : base'[d] <= Watermark(d)' /\ gaps'[d] = Cardinality(Holes(d)')
      BY <2>4, <2>7, <2>8, <3>3 DEF HolesInv, Holes
    <3> QED BY <3>5, <3>6 DEF HolesInv
  <2>9. CASE Known(k) /\ gaps' = GapsAfter(ctx) /\ UNCHANGED base
    <3> DEFINE w == Watermark(k)
    <3>1. w = publishers[k].watermark /\ w \in Nat
      BY <1>2, <2>2, <2>9 DEF Watermark
    <3>2. base[k] \in Nat /\ base[k] <= w /\ accepted[k] \in SUBSET Nat
      BY <1>0, <1>1, <2>2 DEF HolesInv
    <3>3. w # 0 => w \in accepted[k]
      BY <2>2 DEF WatermarkIsLargestAccepted
    <3>4. Holes(k)' = {s \in accepted[k] \cup {n} :
                         s > base[k] + 1 /\ s - 1 \notin accepted[k] \cup {n}}
      BY <2>7, <2>9 DEF Holes
    <3>5. /\ n > w + 1 => Holes(k)' = Holes(k) \cup {n} /\ n \notin Holes(k)
          /\ ~(n > w + 1) => Holes(k)' = Holes(k)
      <4> HIDE DEF w, n, k
      <4>1. /\ n > w + 1 =>
                 /\ {s \in accepted[k] \cup {n} :
                       s > base[k] + 1 /\ s - 1 \notin accepted[k] \cup {n}}
                      = {s \in accepted[k] : s > base[k] + 1 /\ s - 1 \notin accepted[k]} \cup {n}
                 /\ n \notin {s \in accepted[k] : s > base[k] + 1 /\ s - 1 \notin accepted[k]}
            /\ ~(n > w + 1) =>
                 {s \in accepted[k] \cup {n} :
                    s > base[k] + 1 /\ s - 1 \notin accepted[k] \cup {n}}
                   = {s \in accepted[k] : s > base[k] + 1 /\ s - 1 \notin accepted[k]}
        <5>1. n >= w /\ \A s \in accepted[k] : s <= w
          BY <2>5, <2>6 DEF w
        <5> QED BY <2>2, <3>1, <3>2, <3>3, <5>1, HoleAdded
      <4> QED BY <3>4, <4>1 DEF Holes
    <3>6. gaps[k] = Cardinality(Holes(k)) /\ gaps[k] \in Nat /\ IsFiniteSet(Holes(k))
      BY <1>0, <1>3, <2>2 DEF HolesInv
    <3>7. gaps'[k] = Cardinality(Holes(k)')
      <4>1. CASE n > w + 1
        <5>1. gaps'[k] = gaps[k] + 1
          BY <1>0, <2>2, <2>9, <3>1, <4>1 DEF GapsAfter
        <5>2. Cardinality(Holes(k) \cup {n}) = Cardinality(Holes(k)) + 1
          BY <3>5, <3>6, <4>1, FS_AddElement
        <5> QED BY <3>5, <3>6, <4>1, <5>1, <5>2
      <4>2. CASE ~(n > w + 1)
        BY <2>9, <3>1, <3>5, <3>6, <4>2 DEF GapsAfter
      <4> QED BY <4>1, <4>2
    <3>8. base'[k] <= Watermark(k)'
      BY <2>1, <2>2, <2>5, <2>9, <3>1, <3>2
    <3>9. \A d \in Keys \ {k} : gaps'[d] = gaps[d]
      BY <1>0, <2>2, <2>9 DEF GapsAfter
    <3>10. \A d \in Keys \ {k} : base'[d] <= Watermark(d)' /\ gaps'[d] = Cardinality(Holes(d)')
      BY <2>4, <2>7, <2>9, <3>9 DEF HolesInv, Holes
    <3> QED BY <3>7, <3>8, <3>10 DEF HolesInv
  <2> QED BY <1>5, <2>8, <2>9 DEF Register, Publish, ReRegister, check_authority
<1>6. ASSUME UNCHANGED <<gaps, accepted, base>>, \A k \in Keys : Watermark(k)' = Watermark(k)
      PROVE  HolesInv'
  BY <1>6 DEF HolesInv, Holes
<1>7. ASSUME NEW k \in Keys, Fence(k) PROVE HolesInv'
  <2>1. Contract!Fence(k)
    BY <1>0, <1>7, FenceFences DEF Fence
  <2> QED BY <1>6, <1>7, <2>1 DEF Contract!Fence, Fence
<1>8. CASE Invalidate
  BY <1>0, <1>6, <1>8, InvalidateStutters DEF Invalidate, Contract!contractVars
<1>9. CASE Restart
  <2>1. \A k \in Keys : Watermark(k)' = Watermark(k)
    BY <1>0, <1>9, RestoreAdvances DEF Restart, Contract!NewEpoch
  <2>2. \A k \in Keys : gaps'[k] = 0 /\ base'[k] = Watermark(k) /\ accepted'[k] = accepted[k]
    BY <1>9 DEF Restart, Watermark
  <2>3. ASSUME NEW k \in Keys
        PROVE  Holes(k)' = {}
    <3>1. accepted[k] \in SUBSET Nat /\ \A s \in accepted[k] : s <= Watermark(k)
      BY <1>0, <1>1 DEF WatermarkIsLargestAccepted
    <3>2. {s \in accepted[k] : s > Watermark(k) + 1 /\ s - 1 \notin accepted[k]} = {}
      BY <1>2, <3>1, NoHoles
    <3> QED BY <2>2, <3>2 DEF Holes
  <2>4. \A k \in Keys : base'[k] <= Watermark(k)' /\ gaps'[k] = Cardinality(Holes(k)')
    <3>1. \A k \in Keys : base'[k] <= Watermark(k)'
      BY <1>2, <2>1, <2>2
    <3>2. \A k \in Keys : gaps'[k] = Cardinality(Holes(k)')
      BY <2>2, <2>3, FS_EmptySet
    <3> QED BY <3>1, <3>2
  <2> QED BY <2>4 DEF HolesInv
<1>10. CASE UNCHANGED vars
  BY <1>6, <1>10 DEF vars, Watermark, Known
<1> QED BY <1>5, <1>7, <1>8, <1>9, <1>10 DEF Next

(* PublisherAuthority.gaps, which a publisher's status reports, is the count *)
(* of holes in what was accepted since the identity was registered or       *)
(* restored, however publications, registrations and fences interleave.     *)
THEOREM GapsAlwaysExact == Spec => []GapsCountEveryHole
<1>1. Init => HolesInv
  <2> SUFFICES ASSUME Init PROVE HolesInv
    OBVIOUS
  <2>1. \A k \in Keys : Watermark(k) = 0 /\ base[k] = 0 /\ gaps[k] = 0 /\ Holes(k) = {}
    BY DEF Init, GateInit, Watermark, Known, Holes
  <2> QED BY <2>1, FS_EmptySet DEF HolesInv
<1>2. TypeOK /\ WatermarkIsLargestAccepted /\ HolesInv /\ [Next]_vars => HolesInv'
  BY StepHoles
<1>3. TypeOK /\ HolesInv => GapsCountEveryHole
  BY DEF TypeOK, GateTypeOK, HolesInv, Holes, GapsCountEveryHole
<1> QED BY <1>1, <1>2, <1>3, TypeCorrect, WatermarkExact, PTL DEF Spec

-----------------------------------------------------------------------------
(* The table is finite, and holds no more authority than max_publishers.    *)
BoundInv == IsFiniteSet(DOMAIN publishers) /\ AuthorisedWithinBound

(* Each step keeps the bound: only a new registration adds to what it       *)
(* counts, and a fence only takes away.                                     *)
LEMMA StepBound ==
  ASSUME TypeOK, BoundInv, [Next]_vars
  PROVE  BoundInv'
<1> DEFINE D == DOMAIN publishers
           E == DOMAIN publishers'
<1>0. GateTypeOK /\ IsFiniteSet(D) /\ Cardinality(D \ FencedKeys) <= MaxPublishers
      /\ MaxPublishers \in Nat
  BY GateAssumption DEF TypeOK, BoundInv, AuthorisedWithinBound
<1>1. ASSUME IsFiniteSet(E), E \ FencedKeys' \subseteq D \ FencedKeys
      PROVE  BoundInv'
  <2>1. IsFiniteSet(D \ FencedKeys)
    BY <1>0, FS_Subset
  <2>2. /\ Cardinality(E \ FencedKeys') <= Cardinality(D \ FencedKeys)
        /\ IsFiniteSet(E \ FencedKeys')
    BY <1>1, <2>1, FS_Subset
  <2>3. Cardinality(E \ FencedKeys') \in Nat /\ Cardinality(D \ FencedKeys) \in Nat
    BY <2>1, <2>2, FS_CardinalityType
  <2>4. Cardinality(E \ FencedKeys') <= MaxPublishers
    BY <1>0, <2>2, <2>3
  <2> QED BY <1>1, <2>4 DEF BoundInv, AuthorisedWithinBound
<1>2. ASSUME NEW ctx \in PublicationContext, RegisterNew(ctx) PROVE BoundInv'
  <2>1. E = D \cup {ctx.key} /\ Cardinality(D) < MaxPublishers
    BY <1>2 DEF RegisterNew, Insert
  <2>2. IsFiniteSet(E) /\ Cardinality(E) <= Cardinality(D) + 1 /\ Cardinality(D) \in Nat
    <3> HIDE DEF D, E
    <3>1. Cardinality(D) \in Nat
      BY <1>0, FS_CardinalityType
    <3>2. IsFiniteSet(E)
      BY <1>0, <2>1, FS_AddElement
    <3>3. Cardinality(E) = Cardinality(D) \/ Cardinality(E) = Cardinality(D) + 1
      BY <1>0, <2>1, FS_AddElement
    <3> QED BY <3>1, <3>2, <3>3
  <2>3. E \ FencedKeys' \in SUBSET E
    OBVIOUS
  <2>4. /\ Cardinality(E \ FencedKeys') <= Cardinality(E)
        /\ IsFiniteSet(E \ FencedKeys')
    BY <2>2, <2>3, FS_Subset
  <2>5. Cardinality(E \ FencedKeys') \in Nat /\ Cardinality(E) \in Nat
    BY <2>2, <2>4, FS_CardinalityType
  <2>6. Cardinality(E \ FencedKeys') <= MaxPublishers
    BY <1>0, <2>1, <2>2, <2>4, <2>5
  <2> QED BY <2>2, <2>6 DEF BoundInv, AuthorisedWithinBound
<1>3. ASSUME NEW ctx \in PublicationContext, ReRegister(ctx) \/ Publish(ctx)
      PROVE  BoundInv'
  <2>1. E = D
    BY <1>3 DEF ReRegister, Publish, finish
  <2>2. Contract!Accept(ctx.key, ctx.sequence)
    BY <1>0, <1>3, RegisterAccepts, FinishAccepts DEF Publish, register_publisher
  <2>3. FencedKeys' = FencedKeys
    BY <2>2 DEF Contract!Accept
  <2> QED BY <1>0, <1>1, <2>1, <2>3
<1>4. ASSUME NEW k \in Keys, Fence(k) PROVE BoundInv'
  <2>1. E = D \cup {k}
    BY <1>0, <1>4 DEF Fence, FenceKnown, FenceUnknown, Insert, Known, GateTypeOK
  <2>2. FencedKeys' = FencedKeys \cup {k}
    BY <1>0, <1>4, FenceFences DEF Fence, Contract!Fence
  <2>3. IsFiniteSet(E)
    BY <1>0, <2>1, FS_AddElement
  <2> QED BY <1>1, <2>1, <2>2, <2>3
<1>5. CASE Invalidate
  <2>1. E = D
    BY <1>5 DEF Invalidate, InvalidateAuthority
  <2>2. FencedKeys' = FencedKeys
    BY <1>0, <1>5, InvalidateStutters DEF Invalidate, Contract!contractVars
  <2> QED BY <1>0, <1>1, <2>1, <2>2
<1>6. CASE Restart
  <2>1. E = D
    BY <1>6 DEF Restart, RestoreAuthority
  <2>2. FencedKeys' = FencedKeys
    BY <1>0, <1>6, RestoreAdvances DEF Restart, Contract!NewEpoch
  <2> QED BY <1>0, <1>1, <2>1, <2>2
<1>7. CASE UNCHANGED vars
  BY <1>7 DEF vars, BoundInv, AuthorisedWithinBound, FencedKeys
<1> QED BY <1>2, <1>3, <1>4, <1>5, <1>6, <1>7 DEF Next, Register

(* max_publishers bounds the identities that hold or can regain authority,  *)
(* though fences of identities never seen are recorded beyond it.           *)
THEOREM AuthorityBounded == Spec => []AuthorisedWithinBound
<1>1. Init => BoundInv
  <2> SUFFICES ASSUME Init PROVE BoundInv
    OBVIOUS
  <2>1. DOMAIN publishers = {} /\ DOMAIN publishers \ FencedKeys = {}
    BY DEF Init, GateInit
  <2> QED BY <2>1, FS_EmptySet, GateAssumption DEF BoundInv, AuthorisedWithinBound
<1>2. TypeOK /\ BoundInv /\ [Next]_vars => BoundInv'
  BY StepBound
<1>3. BoundInv => AuthorisedWithinBound
  BY DEF BoundInv
<1> QED BY <1>1, <1>2, <1>3, TypeCorrect, PTL DEF Spec
=============================================================================
