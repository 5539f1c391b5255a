----------------------------- MODULE GateProofs -----------------------------
(***************************************************************************)
(* Lemmas about the publisher table and its gate, used by the proofs of    *)
(* every module that extends Gate: each operation leaves a well-typed      *)
(* table and is a step, or a stutter, of AuthorityContract.                *)
(***************************************************************************)
EXTENDS Gate, WellFoundedInduction, TLAPS

(* The entry of one identity keeps its type when finish raises the          *)
(* watermark to an incoming sequence number.                                *)
LEMMA RaiseType ==
  ASSUME NEW w \in Sequence, NEW s \in Sequence
  PROVE  /\ Raise(w, s) \in Sequence
         /\ Raise(w, s) >= w
         /\ Raise(w, s) >= s
         /\ Raise(w, s) \in {w, s}
BY GateAssumption DEF Raise, Sequence

(* Adding an entry of the right type to the table gives a table.            *)
LEMMA InsertType ==
  ASSUME GateTypeOK, NEW k \in Keys, NEW v \in PublisherAuthority
  PROVE  /\ DOMAIN Insert(publishers, k, v) = DOMAIN publishers \cup {k}
         /\ DOMAIN Insert(publishers, k, v) \subseteq Keys
         /\ Insert(publishers, k, v)
              \in [DOMAIN Insert(publishers, k, v) -> PublisherAuthority]
BY DEF Insert, GateTypeOK

(* A publication that passes the gate leaves a well-typed table.            *)
LEMMA FinishType ==
  ASSUME GateTypeOK, NEW ctx \in PublicationContext, check_authority(ctx), finish(ctx),
         coordinator_epoch' = coordinator_epoch
  PROVE  GateTypeOK'
<1> DEFINE k == ctx.key
<1>1. k \in DOMAIN publishers /\ ctx.sequence \in Sequence
  BY DEF check_authority, Known, PublicationContext
<1>2. publishers[k] \in PublisherAuthority
  BY <1>1 DEF GateTypeOK
<1>3. Raise(publishers[k].watermark, ctx.sequence) \in Sequence
  BY <1>1, <1>2, RaiseType DEF PublisherAuthority
<1>4. publishers' = [publishers EXCEPT ![k] =
         [publishers[k] EXCEPT !.watermark = Raise(publishers[k].watermark, ctx.sequence)]]
  BY DEF finish
<1>5. [publishers[k] EXCEPT !.watermark = Raise(publishers[k].watermark, ctx.sequence)]
        \in PublisherAuthority
  BY <1>2, <1>3 DEF PublisherAuthority
<1> HIDE DEF k
<1> QED BY <1>1, <1>4, <1>5 DEF GateTypeOK

(* A registration, first or repeated, leaves a well-typed table.            *)
LEMMA RegisterType ==
  ASSUME GateTypeOK, NEW ctx \in PublicationContext, register_publisher(ctx)
  PROVE  GateTypeOK'
<1> DEFINE k == ctx.key
<1>0. /\ ctx.sequence \in Sequence /\ ctx.epoch \in 0..MaxEpoch
      /\ ctx.federation \in Federations /\ k \in Keys
  BY DEF PublicationContext
<1>1. CASE ReRegister(ctx)
  <2>1. k \in DOMAIN publishers
    BY <1>1 DEF ReRegister, Known
  <2>2. publishers[k] \in PublisherAuthority
    BY <2>1 DEF GateTypeOK
  <2>3. Raise(publishers[k].watermark, ctx.sequence) \in Sequence
    BY <1>0, <2>2, RaiseType DEF PublisherAuthority
  <2> DEFINE v == [publishers[k] EXCEPT !.live = TRUE, !.epoch = ctx.epoch,
                      !.federation = ctx.federation,
                      !.watermark = Raise(publishers[k].watermark, ctx.sequence)]
  <2>4. v \in PublisherAuthority
    BY <1>0, <2>2, <2>3 DEF PublisherAuthority
  <2>5. publishers' = [publishers EXCEPT ![k] = v] /\ coordinator_epoch' = coordinator_epoch
    BY <1>1 DEF ReRegister
  <2> HIDE DEF k, v
  <2> QED BY <2>1, <2>4, <2>5 DEF GateTypeOK
<1>2. CASE RegisterNew(ctx)
  <2> DEFINE v == [epoch |-> ctx.epoch, federation |-> ctx.federation,
                   watermark |-> ctx.sequence, live |-> TRUE, fenced |-> FALSE]
  <2>1. v \in PublisherAuthority
    BY <1>0 DEF PublisherAuthority
  <2>2. publishers' = Insert(publishers, k, v) /\ coordinator_epoch' = coordinator_epoch
    BY <1>2 DEF RegisterNew
  <2> HIDE DEF v
  <2> QED BY <1>0, <2>1, <2>2, InsertType DEF GateTypeOK
<1> QED BY <1>1, <1>2 DEF register_publisher

(* A fence, of a known identity or of one never seen, leaves a well-typed   *)
(* table.                                                                   *)
LEMMA FenceType ==
  ASSUME GateTypeOK, NEW k \in Keys, FenceKnown(k) \/ FenceUnknown(k)
  PROVE  GateTypeOK'
<1>1. CASE FenceKnown(k)
  <2>1. k \in DOMAIN publishers /\ publishers[k] \in PublisherAuthority
    BY <1>1 DEF FenceKnown, Known, GateTypeOK
  <2> DEFINE v == [publishers[k] EXCEPT !.fenced = TRUE, !.live = FALSE]
  <2>2. v \in PublisherAuthority
    BY <2>1 DEF PublisherAuthority
  <2>3. publishers' = [publishers EXCEPT ![k] = v] /\ coordinator_epoch' = coordinator_epoch
    BY <1>1 DEF FenceKnown
  <2> HIDE DEF v
  <2> QED BY <2>1, <2>2, <2>3 DEF GateTypeOK
<1>2. CASE FenceUnknown(k)
  <2> DEFINE v == [epoch |-> coordinator_epoch, federation |-> NoFederation,
                   watermark |-> 0, live |-> FALSE, fenced |-> TRUE]
  <2>1. v \in PublisherAuthority
    BY GateAssumption DEF PublisherAuthority, GateTypeOK, Epoch, Sequence
  <2>2. publishers' = Insert(publishers, k, v) /\ coordinator_epoch' = coordinator_epoch
    BY <1>2 DEF FenceUnknown
  <2> HIDE DEF v
  <2> QED BY <2>1, <2>2, InsertType DEF GateTypeOK
<1> QED BY <1>1, <1>2

(* invalidate_dynamic_evidence leaves a well-typed table.                   *)
LEMMA InvalidateType ==
  ASSUME GateTypeOK, InvalidateAuthority
  PROVE  GateTypeOK'
<1>1. \A k \in DOMAIN publishers :
        /\ publishers[k] \in PublisherAuthority
        /\ [publishers[k] EXCEPT !.live = FALSE] \in PublisherAuthority
  BY DEF GateTypeOK, PublisherAuthority
<1> QED BY <1>1 DEF InvalidateAuthority, GateTypeOK

(* A clean restart leaves a well-typed table and an epoch within its bound. *)
LEMMA RestoreType ==
  ASSUME GateTypeOK, RestoreAuthority
  PROVE  GateTypeOK'
<1> DEFINE v(k) == [epoch |-> coordinator_epoch, federation |-> NoFederation,
                    watermark |-> publishers[k].watermark,
                    live |-> FALSE, fenced |-> publishers[k].fenced]
<1>1. \A k \in DOMAIN publishers : v(k) \in PublisherAuthority
  BY GateAssumption DEF GateTypeOK, PublisherAuthority, Epoch
<1>2. publishers' = [k \in DOMAIN publishers |-> v(k)]
  BY DEF RestoreAuthority
<1>3. coordinator_epoch' \in Epoch
  BY GateAssumption DEF RestoreAuthority, GateTypeOK, Epoch
<1> HIDE DEF v
<1> QED BY <1>1, <1>2, <1>3 DEF GateTypeOK

-----------------------------------------------------------------------------
(* The empty table is the contract's initial state.                         *)
LEMMA GateInitContract == GateInit => GateTypeOK /\ Contract!Init
<1> SUFFICES ASSUME GateInit PROVE GateTypeOK /\ Contract!Init
  OBVIOUS
<1>1. DOMAIN publishers = {}
  BY DEF GateInit
<1>2. FencedKeys = {} /\ \A k \in Keys : Watermark(k) = 0
  BY <1>1 DEF FencedKeys, Watermark, Known
<1>3. GateTypeOK
  BY GateAssumption DEF GateInit, GateTypeOK, Epoch
<1> QED BY <1>2, <1>3 DEF GateInit, Contract!Init

(* The contract's view of a table in which only k's entry changed.          *)
LEMMA OneEntryView ==
  ASSUME NEW k \in Keys, GateTypeOK, k \in DOMAIN publishers',
         DOMAIN publishers' = DOMAIN publishers \cup {k},
         \A x \in DOMAIN publishers \ {k} : publishers'[x] = publishers[x]
  PROVE  /\ [x \in Keys |-> Watermark(x)]' =
              [[x \in Keys |-> Watermark(x)] EXCEPT ![k] = publishers'[k].watermark]
         /\ FencedKeys' = (FencedKeys \ {k}) \cup
                           (IF publishers'[k].fenced THEN {k} ELSE {})
<1>1. \A x \in Keys : Watermark(x)' =
        IF x = k THEN publishers'[k].watermark ELSE Watermark(x)
  BY DEF Watermark, Known
<1>2. FencedKeys' = (FencedKeys \ {k}) \cup (IF publishers'[k].fenced THEN {k} ELSE {})
  BY DEF FencedKeys
<1> QED BY <1>1, <1>2

(* A publication that passes the gate and finishes is an Accept.            *)
LEMMA FinishAccepts ==
  ASSUME GateTypeOK, NEW ctx \in PublicationContext, check_authority(ctx), finish(ctx),
         coordinator_epoch' = coordinator_epoch
  PROVE  Contract!Accept(ctx.key, ctx.sequence) /\ Watermark(ctx.key)' = ctx.sequence
<1> DEFINE k == ctx.key
           v == [publishers[k] EXCEPT !.watermark = ctx.sequence]
<1>1. k \in Keys /\ ctx.sequence \in Sequence
  BY DEF PublicationContext
<1>2. k \in DOMAIN publishers /\ ~publishers[k].fenced
      /\ ctx.sequence >= publishers[k].watermark
  BY DEF check_authority, Known
<1>3. publishers[k] \in PublisherAuthority
  BY <1>2 DEF GateTypeOK
<1>4. Raise(publishers[k].watermark, ctx.sequence) = ctx.sequence
  BY <1>1, <1>2, <1>3, GateAssumption DEF PublisherAuthority, Sequence, Raise
<1>5. publishers' = [publishers EXCEPT ![k] = v]
  BY <1>4 DEF finish
<1>6. v.watermark = ctx.sequence /\ v.fenced = FALSE
  BY <1>2, <1>3 DEF PublisherAuthority
<1> HIDE DEF k, v
<1>7. /\ DOMAIN publishers' = DOMAIN publishers \cup {k} /\ publishers'[k] = v
      /\ \A x \in DOMAIN publishers \ {k} : publishers'[x] = publishers[x]
  BY <1>2, <1>5 DEF GateTypeOK
<1>8. k \notin FencedKeys /\ Watermark(k) = publishers[k].watermark
  BY <1>2 DEF FencedKeys, Watermark, Known
<1>9. Contract!Accept(k, ctx.sequence)
  BY <1>1, <1>2, <1>6, <1>7, <1>8, OneEntryView DEF Contract!Accept
<1>10. Watermark(k)' = ctx.sequence
  BY <1>6, <1>7 DEF Watermark, Known
<1> QED BY <1>9, <1>10 DEF k

(* A registration, first or repeated, is an Accept.                         *)
LEMMA RegisterAccepts ==
  ASSUME GateTypeOK, NEW ctx \in PublicationContext, register_publisher(ctx)
  PROVE  Contract!Accept(ctx.key, ctx.sequence) /\ Watermark(ctx.key)' = ctx.sequence
<1> DEFINE k == ctx.key
<1>1. k \in Keys /\ ctx.sequence \in Sequence
  BY DEF PublicationContext
<1>2. CASE ReRegister(ctx)
  <2> DEFINE v == [publishers[k] EXCEPT !.live = TRUE, !.epoch = ctx.epoch,
                      !.federation = ctx.federation, !.watermark = ctx.sequence]
  <2>2. k \in DOMAIN publishers /\ ~publishers[k].fenced
        /\ ctx.sequence >= publishers[k].watermark
    BY <1>2 DEF ReRegister, Known
  <2>3. publishers[k] \in PublisherAuthority
    BY <2>2 DEF GateTypeOK
  <2>4. Raise(publishers[k].watermark, ctx.sequence) = ctx.sequence
    BY <1>1, <2>2, <2>3, GateAssumption DEF PublisherAuthority, Sequence, Raise
  <2>5. publishers' = [publishers EXCEPT ![k] = v] /\ coordinator_epoch' = coordinator_epoch
    BY <1>2, <2>4 DEF ReRegister
  <2>6. v.watermark = ctx.sequence /\ v.fenced = FALSE
    BY <2>2, <2>3 DEF PublisherAuthority
  <2> HIDE DEF k, v
  <2>7. /\ DOMAIN publishers' = DOMAIN publishers \cup {k} /\ publishers'[k] = v
        /\ \A x \in DOMAIN publishers \ {k} : publishers'[x] = publishers[x]
    BY <2>2, <2>5 DEF GateTypeOK
  <2>8. k \notin FencedKeys /\ Watermark(k) = publishers[k].watermark
    BY <2>2 DEF FencedKeys, Watermark, Known
  <2>9. Contract!Accept(k, ctx.sequence)
    BY <1>1, <2>2, <2>5, <2>6, <2>7, <2>8, OneEntryView DEF Contract!Accept
  <2>10. Watermark(k)' = ctx.sequence
    BY <2>6, <2>7 DEF Watermark, Known
  <2> QED BY <2>9, <2>10 DEF k
<1>3. CASE RegisterNew(ctx)
  <2> DEFINE v == [epoch |-> ctx.epoch, federation |-> ctx.federation,
                   watermark |-> ctx.sequence, live |-> TRUE, fenced |-> FALSE]
  <2>2. k \notin DOMAIN publishers
    BY <1>3 DEF RegisterNew, Known
  <2>5. publishers' = Insert(publishers, k, v) /\ coordinator_epoch' = coordinator_epoch
    BY <1>3 DEF RegisterNew
  <2>6. v.watermark = ctx.sequence /\ v.fenced = FALSE
    OBVIOUS
  <2> HIDE DEF k, v
  <2>7. /\ DOMAIN publishers' = DOMAIN publishers \cup {k} /\ publishers'[k] = v
        /\ \A x \in DOMAIN publishers \ {k} : publishers'[x] = publishers[x]
    BY <2>2, <2>5 DEF Insert
  <2>8. k \notin FencedKeys /\ Watermark(k) = 0
    BY <2>2 DEF FencedKeys, Watermark, Known
  <2>9. Contract!Accept(k, ctx.sequence)
    <3>1. ctx.sequence >= Watermark(k)
      BY <1>1, <2>8, GateAssumption DEF Sequence
    <3> QED BY <1>1, <2>5, <2>6, <2>7, <2>8, <3>1, OneEntryView DEF Contract!Accept
  <2>10. Watermark(k)' = ctx.sequence
    BY <2>6, <2>7 DEF Watermark, Known
  <2> QED BY <2>9, <2>10 DEF k
<1> QED BY <1>2, <1>3 DEF register_publisher

(* A fence, of a known identity or of one never seen, is a Fence.           *)
LEMMA FenceFences ==
  ASSUME GateTypeOK, NEW k \in Keys, FenceKnown(k) \/ FenceUnknown(k)
  PROVE  Contract!Fence(k)
<1>1. /\ coordinator_epoch' = coordinator_epoch
      /\ DOMAIN publishers' = DOMAIN publishers \cup {k}
      /\ \A x \in DOMAIN publishers \ {k} : publishers'[x] = publishers[x]
      /\ publishers'[k].fenced = TRUE
      /\ publishers'[k].watermark = Watermark(k)
  <2>1. CASE FenceKnown(k)
    <3> DEFINE v == [publishers[k] EXCEPT !.fenced = TRUE, !.live = FALSE]
    <3>1. k \in DOMAIN publishers /\ publishers[k] \in PublisherAuthority
      BY <2>1 DEF FenceKnown, Known, GateTypeOK
    <3>2. v.fenced = TRUE /\ v.watermark = publishers[k].watermark
      BY <3>1 DEF PublisherAuthority
    <3>3. publishers' = [publishers EXCEPT ![k] = v] /\ coordinator_epoch' = coordinator_epoch
      BY <2>1 DEF FenceKnown
    <3> HIDE DEF v
    <3> QED BY <3>1, <3>2, <3>3 DEF GateTypeOK, Watermark, Known
  <2>2. CASE FenceUnknown(k)
    <3> DEFINE v == [epoch |-> coordinator_epoch, federation |-> NoFederation,
                     watermark |-> 0, live |-> FALSE, fenced |-> TRUE]
    <3>1. k \notin DOMAIN publishers /\ publishers' = Insert(publishers, k, v)
          /\ coordinator_epoch' = coordinator_epoch
      BY <2>2 DEF FenceUnknown, Known
    <3>2. v.fenced = TRUE /\ v.watermark = 0
      OBVIOUS
    <3> HIDE DEF v
    <3> QED BY <3>1, <3>2 DEF Insert, Watermark, Known
  <2> QED BY <2>1, <2>2
<1>2. [x \in Keys |-> Watermark(x)]' = [x \in Keys |-> Watermark(x)]
  BY <1>1, OneEntryView
<1>3. FencedKeys' = FencedKeys \cup {k}
  BY <1>1, OneEntryView DEF FencedKeys
<1> QED BY <1>1, <1>2, <1>3 DEF Contract!Fence

(* invalidate_dynamic_evidence keeps every watermark and every fence.       *)
LEMMA InvalidateStutters ==
  ASSUME GateTypeOK, InvalidateAuthority
  PROVE  UNCHANGED Contract!contractVars
<1>1. DOMAIN publishers' = DOMAIN publishers
  BY DEF InvalidateAuthority
<1>2. \A k \in DOMAIN publishers :
        /\ publishers'[k].watermark = publishers[k].watermark
        /\ publishers'[k].fenced = publishers[k].fenced
  BY DEF InvalidateAuthority, GateTypeOK, PublisherAuthority
<1> QED BY <1>1, <1>2 DEF Contract!contractVars, InvalidateAuthority, FencedKeys, Watermark, Known

(* A clean restart keeps every watermark and every fence and advances the   *)
(* epoch.                                                                   *)
LEMMA RestoreAdvances ==
  ASSUME GateTypeOK, RestoreAuthority
  PROVE  Contract!NewEpoch
<1>1. DOMAIN publishers' = DOMAIN publishers
  BY DEF RestoreAuthority
<1>2. \A k \in DOMAIN publishers :
        /\ publishers'[k].watermark = publishers[k].watermark
        /\ publishers'[k].fenced = publishers[k].fenced
  BY DEF RestoreAuthority
<1> QED BY <1>1, <1>2 DEF Contract!NewEpoch, RestoreAuthority, FencedKeys, Watermark, Known

-----------------------------------------------------------------------------
(* What no operation may take back: an identity once known stays known, its *)
(* watermark does not fall and its fence is not lifted.                     *)
TableGrows ==
  /\ DOMAIN publishers \subseteq DOMAIN publishers'
  /\ \A k \in DOMAIN publishers :
       /\ publishers'[k].watermark >= publishers[k].watermark
       /\ publishers[k].fenced => publishers'[k].fenced

(* The watermarks and fences of two tables with the same identities, which  *)
(* is all that TableGrows compares, read off the contract's view.           *)
LEMMA ViewGrows ==
  ASSUME GateTypeOK, DOMAIN publishers \subseteq DOMAIN publishers',
         \A k \in DOMAIN publishers : Watermark(k)' >= Watermark(k),
         FencedKeys \subseteq FencedKeys'
  PROVE  TableGrows
BY DEF TableGrows, GateTypeOK, Watermark, Known, FencedKeys

(* A publication or a registration only raises the watermark of its own     *)
(* identity.                                                                *)
LEMMA AcceptGrows ==
  ASSUME GateTypeOK, NEW ctx \in PublicationContext,
         \/ check_authority(ctx) /\ finish(ctx) /\ coordinator_epoch' = coordinator_epoch
         \/ register_publisher(ctx)
  PROVE  /\ TableGrows
         /\ FencedKeys' = FencedKeys
         /\ ctx.key \in DOMAIN publishers' /\ publishers'[ctx.key].watermark = ctx.sequence
<1>1. Contract!Accept(ctx.key, ctx.sequence) /\ Watermark(ctx.key)' = ctx.sequence
  BY FinishAccepts, RegisterAccepts
<1>2. DOMAIN publishers \subseteq DOMAIN publishers' /\ ctx.key \in DOMAIN publishers'
  <2>1. CASE check_authority(ctx) /\ finish(ctx)
    BY <2>1 DEF check_authority, finish, Known, GateTypeOK
  <2>2. CASE ReRegister(ctx)
    BY <2>2 DEF ReRegister, Known, GateTypeOK
  <2>3. CASE RegisterNew(ctx)
    BY <2>3 DEF RegisterNew, Insert
  <2> QED BY <2>1, <2>2, <2>3 DEF register_publisher
<1>3. FencedKeys' = FencedKeys
  BY <1>1 DEF Contract!Accept
<1>4. \A k \in Keys : Watermark(k) \in Sequence
  BY GateAssumption DEF GateTypeOK, Watermark, Known, PublisherAuthority, Sequence
<1>5. ctx.key \in Keys /\ ctx.sequence \in Sequence
  BY DEF PublicationContext
<1>6. \A k \in Keys : Watermark(k)' = IF k = ctx.key THEN ctx.sequence ELSE Watermark(k)
  BY <1>1, <1>5 DEF Contract!Accept
<1>7. \A k \in DOMAIN publishers : Watermark(k)' >= Watermark(k)
  BY <1>1, <1>4, <1>5, <1>6, GateAssumption DEF Contract!Accept, Sequence, GateTypeOK
<1>8. publishers'[ctx.key].watermark = ctx.sequence
  BY <1>1, <1>2 DEF Watermark, Known
<1> QED BY <1>2, <1>3, <1>7, <1>8, ViewGrows

(* A fence, an invalidation and a clean restart keep every watermark and    *)
(* every fence; only the fence adds one.                                    *)
LEMMA OthersGrow ==
  ASSUME GateTypeOK,
         \/ \E k \in Keys : FenceKnown(k) \/ FenceUnknown(k)
         \/ InvalidateAuthority
         \/ RestoreAuthority
  PROVE  TableGrows
<1>1. /\ [k \in Keys |-> Watermark(k)]' = [k \in Keys |-> Watermark(k)]
      /\ FencedKeys \subseteq FencedKeys'
  BY FenceFences, InvalidateStutters, RestoreAdvances
  DEF Contract!Fence, Contract!contractVars, Contract!NewEpoch
<1>2. DOMAIN publishers \subseteq DOMAIN publishers'
  BY DEF FenceKnown, FenceUnknown, InvalidateAuthority, RestoreAuthority, Insert, GateTypeOK
<1>3. \A k \in Keys : Watermark(k) \in Sequence /\ Watermark(k)' = Watermark(k)
  BY <1>1, GateAssumption DEF GateTypeOK, Watermark, Known, PublisherAuthority, Sequence
<1>4. \A k \in DOMAIN publishers : Watermark(k)' >= Watermark(k)
  BY <1>3, GateAssumption DEF GateTypeOK, Sequence
<1> QED BY <1>1, <1>2, <1>4, ViewGrows

(* No watermark falls while the table grows, of an identity it knows or not.*)
LEMMA WatermarkGrows ==
  ASSUME GateTypeOK, GateTypeOK', TableGrows, NEW k \in Keys
  PROVE  /\ Watermark(k) \in Sequence /\ Watermark(k)' \in Sequence
         /\ Watermark(k)' >= Watermark(k)
<1>1. Watermark(k) \in Sequence /\ Watermark(k)' \in Sequence
  BY GateAssumption DEF GateTypeOK, Watermark, Known, PublisherAuthority, Sequence
<1>2. CASE k \in DOMAIN publishers
  BY <1>1, <1>2 DEF TableGrows, Watermark, Known
<1>3. CASE k \notin DOMAIN publishers
  BY <1>1, <1>3, GateAssumption DEF Watermark, Known, Sequence
<1> QED BY <1>1, <1>2, <1>3

-----------------------------------------------------------------------------
(* Every set of natural numbers that is not empty has a least element: what *)
(* the arguments by a least counterexample rest on.                         *)
LEMMA LeastElement ==
  ASSUME NEW T, T \subseteq Nat, T # {}
  PROVE  \E x \in T : \A y \in T : x <= y
<1> DEFINE R == {ss \in Nat \X Nat : ss[1] < ss[2]}
<1>1. IsWellFoundedOn(R, Nat)
  BY NatLessThanWellFounded DEF OpToRel
<1>2. PICK x \in T : \A y \in T : ~(<<y, x>> \in R)
  <2> HIDE DEF R
  <2> QED BY <1>1, WFMin
<1>3. \A y \in T : ~(y < x)
  BY <1>2
<1> QED BY <1>3

(* A bounded one has a greatest element.                                    *)
LEMMA GreatestElement ==
  ASSUME NEW n \in Nat, NEW T, T \subseteq 0..n, T # {}
  PROVE  \E x \in T : \A y \in T : y <= x
<1> DEFINE U == {n - x : x \in T}
<1>1. U \subseteq Nat /\ U # {}
  <2>1. \A x \in T : n - x \in Nat
    OBVIOUS
  <2>2. PICK x \in T : TRUE
    OBVIOUS
  <2>3. n - x \in U
    OBVIOUS
  <2> QED BY <2>1, <2>3
<1>2. PICK u \in U : \A v \in U : u <= v
  <2> HIDE DEF U
  <2> QED BY <1>1, LeastElement
<1>3. PICK x \in T : u = n - x
  OBVIOUS
<1>4. \A y \in T : n - x <= n - y
  BY <1>2, <1>3
<1> QED BY <1>3, <1>4

(* A function on an interval that does not fall from one point to the next  *)
(* does not fall over any distance.                                         *)
LEMMA NeverFalls ==
  ASSUME NEW n \in Nat, NEW f, \A i \in 1..n : f[i] \in Nat,
         \A i \in 2..n : f[i - 1] <= f[i]
  PROVE  \A i, j \in 1..n : i < j => f[i] <= f[j]
<1> SUFFICES ASSUME NEW i \in 1..n, NEW j \in 1..n, i < j, ~(f[i] <= f[j]) PROVE FALSE
  OBVIOUS
<1> DEFINE T == {m \in (i + 1)..n : ~(f[i] <= f[m])}
<1>1. T \subseteq Nat /\ j \in T
  OBVIOUS
<1>2. PICK m \in T : \A y \in T : m <= y
  <2> HIDE DEF T
  <2> QED BY <1>1, LeastElement
<1>3. m \in 2..n /\ m - 1 \in 1..n /\ m - 1 \notin T /\ f[m - 1] <= f[m]
  BY <1>2
<1>4. f[i] <= f[m - 1]
  <2>1. CASE m = i + 1
    BY <2>1
  <2>2. CASE m # i + 1
    BY <1>2, <1>3, <2>2
  <2> QED BY <2>1, <2>2
<1>5. f[i] \in Nat /\ f[m - 1] \in Nat /\ f[m] \in Nat
  BY <1>3
<1> QED BY <1>2, <1>3, <1>4, <1>5
=============================================================================
