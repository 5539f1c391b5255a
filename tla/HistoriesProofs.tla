--------------------------- MODULE HistoriesProofs ---------------------------
(***************************************************************************)
(* Proofs about Histories, for every number of placements, workloads,      *)
(* generations and times, and about Migrations, for every set of migrations*)
(* and of records that publishers may send: type correctness,              *)
(* AuthorityContract, that what is called current was heard in this epoch; *)
(* that placements, the latest one of a workload and assessments only move *)
(* forward, across restarts that find the latest placement again; and that *)
(* a migration's stored history is legal and never runs backwards, and a   *)
(* terminal record final.                                                  *)
(*                                                                         *)
(* The two are state machines of their own behind the same gate, whose     *)
(* lemmas both use.  A migration publication that stores anything writes   *)
(* the record of one migration (Written); every other step keeps what the  *)
(* records say (Kept).                                                     *)
(***************************************************************************)
EXTENDS Histories, Migrations, GateProofs

(* The stamp that an admitted publication leaves.                           *)
LEMMA StampType ==
  ASSUME GateTypeOK, NEW ctx \in PublicationContext, check_authority(ctx), NEW at \in Time
  PROVE  /\ stamp_for(ctx, at) \in Stamp
         /\ stamp_for(ctx, at).key = ctx.key
         /\ stamp_for(ctx, at).sequence = ctx.sequence
         /\ stamp_for(ctx, at).epoch = coordinator_epoch
         /\ stamp_for(ctx, at).observed_at = at
BY DEF stamp_for, Stamp, PublicationContext, check_authority, GateTypeOK

(* What publish_placement writes.                                           *)
LEMMA PlacementWrites ==
  ASSUME TypeOK, NEW ctx \in PublicationContext, NEW id \in PlacementIds,
         NEW rec \in Placement, NEW at \in Time, NEW made_at \in 0..at,
         publish_placement(ctx, id, rec, made_at, at)
  PROVE  /\ placements' \in [DOMAIN placements \cup {id} -> StoredPlacement]
         /\ placements'[id].pub = rec
         /\ placements'[id].stamp = stamp_for(ctx, at)
         /\ \A p \in DOMAIN placements \ {id} : placements'[p] = placements[p]
         /\ latest_placement' = IF stored_is_newer(rec, made_at) THEN latest_placement
                                ELSE Insert(latest_placement, rec.workload, id)
         /\ portability' = portability
<1> DEFINE v == [pub |-> rec,
                 currentness |-> IF stored_is_newer(rec, made_at) THEN "Stale" ELSE "Current",
                 stamp |-> stamp_for(ctx, at)]
<1>1. v \in StoredPlacement /\ v.pub = rec /\ v.stamp = stamp_for(ctx, at)
  BY StampType DEF publish_placement, TypeOK, StoredPlacement
<1>2. placements' = Insert(placements, id, v)
  BY DEF publish_placement
<1>3. latest_placement' = (IF stored_is_newer(rec, made_at) THEN latest_placement
                           ELSE Insert(latest_placement, rec.workload, id))
      /\ portability' = portability
  BY DEF publish_placement
<1> HIDE DEF v
<1> QED BY <1>1, <1>2, <1>3 DEF Insert, TypeOK

(* What publish_portability writes.                                         *)
LEMMA PortabilityWrites ==
  ASSUME TypeOK, NEW ctx \in PublicationContext, NEW w \in Workloads,
         NEW content \in Contents, NEW sent_as, NEW at \in Time, NEW made_at \in 0..at,
         publish_portability(ctx, w, content, sent_as, made_at, at)
  PROVE  /\ portability' \in [DOMAIN portability \cup {w} -> StoredPortability]
         /\ portability'[w].stamp = stamp_for(ctx, at)
         /\ \A x \in DOMAIN portability \ {w} : portability'[x] = portability[x]
         /\ placements' = placements /\ latest_placement' = latest_placement
<1> DEFINE v == [content |-> content, currentness |-> "Current", stamp |-> stamp_for(ctx, at)]
<1>1. v \in StoredPortability /\ v.stamp = stamp_for(ctx, at)
  BY StampType DEF publish_portability, TypeOK, StoredPortability
<1>2. portability' = Insert(portability, w, v)
      /\ placements' = placements /\ latest_placement' = latest_placement
  BY DEF publish_portability
<1> HIDE DEF v
<1> QED BY <1>1, <1>2 DEF Insert, TypeOK

(* The placements of a workload that has any have a last one, in the order  *)
(* of time and identifier in which the state file is read back.             *)
LEMMA LastOfWorkload ==
  ASSUME TypeOK, NEW w \in Workloads, PlacementsOf(w) # {}
  PROVE  /\ LastOf(PlacementsOf(w)) \in PlacementsOf(w)
         /\ \A q \in PlacementsOf(w) :
              placements[q].stamp.observed_at
                <= placements[LastOf(PlacementsOf(w))].stamp.observed_at
<1> DEFINE S == PlacementsOf(w)
           time(p) == placements[p].stamp.observed_at
           Times == {time(p) : p \in S}
<1>1. \A p \in S : p \in 0..MaxPlacementId /\ time(p) \in 0..MaxTime
  BY HistoriesAssumption DEF PlacementsOf, TypeOK, StoredPlacement, Stamp, Time, PlacementIds
<1>2. Times \subseteq 0..MaxTime /\ Times # {}
  BY <1>1
<1>3. PICK t \in Times : \A u \in Times : u <= t
  <2> HIDE DEF Times
  <2> QED BY <1>2, GreatestElement, HistoriesAssumption
<1> DEFINE Latest == {p \in S : time(p) = t}
<1>4. Latest \subseteq 0..MaxPlacementId /\ Latest # {}
  BY <1>1, <1>3
<1>5. PICK p \in Latest : \A q \in Latest : q <= p
  <2> HIDE DEF Latest
  <2> QED BY <1>4, GreatestElement, HistoriesAssumption
<1> DEFINE UpTo(q, r) == time(q) < time(r) \/ (time(q) = time(r) /\ q <= r)
<1>6. p \in S /\ \A q \in S : UpTo(q, p)
  <2>1. p \in S /\ time(p) = t /\ time(p) \in Nat
    BY <1>1, <1>5, HistoriesAssumption
  <2>2. ASSUME NEW q \in S PROVE UpTo(q, p)
    <3>1. time(q) <= t /\ time(q) \in Nat
      BY <1>1, <1>3, <2>2, HistoriesAssumption
    <3>2. time(q) = t => q <= p
      BY <1>5, <2>2
    <3> HIDE DEF time
    <3> QED BY <2>1, <3>1, <3>2
  <2> QED BY <2>1, <2>2
<1>7. LastOf(S) = CHOOSE r \in S : \A q \in S : UpTo(q, r)
  BY DEF LastOf
<1>8. LastOf(S) \in S /\ \A q \in S : UpTo(q, LastOf(S))
  <2> HIDE DEF UpTo, S
  <2> QED BY <1>6, <1>7
<1>9. ASSUME NEW q \in S PROVE time(q) <= time(LastOf(S))
  <2>1. time(q) \in Nat /\ time(LastOf(S)) \in Nat /\ UpTo(q, LastOf(S))
    BY <1>1, <1>8, <1>9, HistoriesAssumption
  <2> HIDE DEF time, S
  <2> QED BY <2>1
<1> QED BY <1>8, <1>9

(* What a restart makes of the records.                                     *)
LEMMA RestartKeeps ==
  ASSUME TypeOK, Restart
  PROVE  /\ placements' \in [DOMAIN placements -> StoredPlacement]
         /\ \A p \in DOMAIN placements :
              /\ placements'[p].pub = placements[p].pub
              /\ placements'[p].stamp = placements[p].stamp
              /\ placements'[p].currentness = "Stale"
         /\ portability' \in [DOMAIN portability -> StoredPortability]
         /\ \A w \in DOMAIN portability :
              /\ portability'[w].stamp = portability[w].stamp
              /\ portability'[w].currentness = "Stale"
         /\ latest_placement' = rebuilt_latest
<1>1. ASSUME NEW p \in DOMAIN placements
      PROVE  LET v == [placements[p] EXCEPT !.currentness = "Stale"]
             IN  /\ v \in StoredPlacement /\ v.pub = placements[p].pub
                 /\ v.stamp = placements[p].stamp /\ v.currentness = "Stale"
  BY <1>1 DEF TypeOK, StoredPlacement
<1>2. ASSUME NEW w \in DOMAIN portability
      PROVE  LET v == [portability[w] EXCEPT !.currentness = "Stale"]
             IN  /\ v \in StoredPortability
                 /\ v.stamp = portability[w].stamp /\ v.currentness = "Stale"
  BY <1>2 DEF TypeOK, StoredPortability
<1>3. /\ placements' = [p \in DOMAIN placements |-> [placements[p] EXCEPT !.currentness = "Stale"]]
      /\ portability' = [w \in DOMAIN portability |->
                           [portability[w] EXCEPT !.currentness = "Stale"]]
      /\ latest_placement' = rebuilt_latest
  BY DEF Restart, AllStale
<1> QED BY <1>1, <1>2, <1>3

(* The steps: a publication that passed the gate, a change of the table     *)
(* alone, or a restart.                                                     *)
LEMMA StepForms ==
  ASSUME [Next]_vars
  PROVE  \/ \E ctx \in PublicationContext :
              /\ check_authority(ctx) /\ finish(ctx) /\ coordinator_epoch' = coordinator_epoch
              /\ \/ UNCHANGED <<placements, latest_placement, portability>>
                 \/ \E at \in Time : \E made_at \in 0..at :
                      \/ \E id \in PlacementIds, rec \in Placement :
                           publish_placement(ctx, id, rec, made_at, at)
                      \/ \E w \in Workloads, content \in Contents,
                            sent_as \in {"Unknown", "Current"} :
                           publish_portability(ctx, w, content, sent_as, made_at, at)
         \/ /\ UNCHANGED <<placements, latest_placement, portability>>
            /\ \/ \E ctx \in PublicationContext : register_publisher(ctx)
               \/ \E k \in Keys : FenceKnown(k) \/ FenceUnknown(k)
               \/ UNCHANGED gateVars
         \/ Restart
<1>1. ASSUME NEW ctx \in PublicationContext, Publication(ctx)
      PROVE  /\ check_authority(ctx) /\ finish(ctx) /\ coordinator_epoch' = coordinator_epoch
             /\ \/ UNCHANGED <<placements, latest_placement, portability>>
                \/ \E at \in Time : \E made_at \in 0..at :
                     \/ \E id \in PlacementIds, rec \in Placement :
                          publish_placement(ctx, id, rec, made_at, at)
                     \/ \E w \in Workloads, content \in Contents,
                           sent_as \in {"Unknown", "Current"} :
                          publish_portability(ctx, w, content, sent_as, made_at, at)
  <2>0. PICK at \in Time : \E made_at \in 0..at :
          \/ \E id \in PlacementIds, rec \in Placement :
               \/ suppress_placement(ctx, id, rec)
               \/ publish_placement(ctx, id, rec, made_at, at)
          \/ \E w \in Workloads, content \in Contents, sent_as \in {"Unknown", "Current"} :
               \/ suppress_portability(ctx, w, content, sent_as, made_at)
               \/ publish_portability(ctx, w, content, sent_as, made_at, at)
    BY <1>1 DEF Publication
  <2>1. PICK made_at \in 0..at :
          \/ \E id \in PlacementIds, rec \in Placement :
               \/ suppress_placement(ctx, id, rec)
               \/ publish_placement(ctx, id, rec, made_at, at)
          \/ \E w \in Workloads, content \in Contents, sent_as \in {"Unknown", "Current"} :
               \/ suppress_portability(ctx, w, content, sent_as, made_at)
               \/ publish_portability(ctx, w, content, sent_as, made_at, at)
    BY <2>0
  <2>2. ASSUME NEW id \in PlacementIds, NEW rec \in Placement,
               publish_placement(ctx, id, rec, made_at, at)
        PROVE  check_authority(ctx) /\ finish(ctx) /\ coordinator_epoch' = coordinator_epoch
    BY <2>2 DEF publish_placement
  <2>3. ASSUME NEW w \in Workloads, NEW content \in Contents, NEW sent_as,
               publish_portability(ctx, w, content, sent_as, made_at, at)
        PROVE  check_authority(ctx) /\ finish(ctx) /\ coordinator_epoch' = coordinator_epoch
    BY <2>3 DEF publish_portability
  <2>4. ASSUME NEW id \in PlacementIds, NEW rec \in Placement, suppress_placement(ctx, id, rec)
        PROVE  /\ check_authority(ctx) /\ finish(ctx) /\ coordinator_epoch' = coordinator_epoch
               /\ UNCHANGED <<placements, latest_placement, portability>>
    BY <2>4 DEF suppress_placement, Suppress
  <2>5. ASSUME NEW w \in Workloads, NEW content \in Contents, NEW sent_as,
               suppress_portability(ctx, w, content, sent_as, made_at)
        PROVE  /\ check_authority(ctx) /\ finish(ctx) /\ coordinator_epoch' = coordinator_epoch
               /\ UNCHANGED <<placements, latest_placement, portability>>
    BY <2>5 DEF suppress_portability, Suppress
  <2> QED BY <2>1, <2>2, <2>3, <2>4, <2>5
<1>2. CASE UNCHANGED vars
  BY <1>2 DEF vars, gateVars
<1> QED BY <1>1, <1>2 DEF Next, register_publisher_step, fence_publisher

-----------------------------------------------------------------------------
(* The latest placement of a workload is one of the stored placements, the  *)
(* rebuilt ones too.                                                        *)
LEMMA RebuiltType ==
  ASSUME TypeOK
  PROVE  /\ DOMAIN rebuilt_latest \subseteq Workloads
         /\ rebuilt_latest \in [DOMAIN rebuilt_latest -> DOMAIN placements]
<1> DEFINE W == {v \in Workloads : PlacementsOf(v) # {}}
<1>1. ASSUME NEW w \in W PROVE LastOf(PlacementsOf(w)) \in DOMAIN placements
  <2>1. LastOf(PlacementsOf(w)) \in PlacementsOf(w)
    BY <1>1, LastOfWorkload
  <2> QED BY <2>1 DEF PlacementsOf
<1> QED BY <1>1 DEF rebuilt_latest

(* Every step keeps the table and the three maps in their types.            *)
LEMMA StepType == TypeOK /\ [Next]_vars => TypeOK'
<1> SUFFICES ASSUME TypeOK, [Next]_vars PROVE TypeOK'
  OBVIOUS
<1>0. GateTypeOK
  BY DEF TypeOK
<1>1. ASSUME NEW ctx \in PublicationContext, check_authority(ctx), finish(ctx),
             coordinator_epoch' = coordinator_epoch
      PROVE  GateTypeOK'
  BY <1>0, <1>1, FinishType
<1>2. ASSUME GateTypeOK', UNCHANGED <<placements, latest_placement, portability>>
      PROVE  TypeOK'
  BY <1>2 DEF TypeOK
<1>3. ASSUME GateTypeOK', NEW ctx \in PublicationContext, NEW id \in PlacementIds,
             NEW rec \in Placement, NEW at \in Time, NEW made_at \in 0..at,
             publish_placement(ctx, id, rec, made_at, at)
      PROVE  TypeOK'
  <2>1. /\ placements' \in [DOMAIN placements \cup {id} -> StoredPlacement]
        /\ portability' = portability
        /\ latest_placement' = IF stored_is_newer(rec, made_at) THEN latest_placement
                               ELSE Insert(latest_placement, rec.workload, id)
    BY <1>3, PlacementWrites
  <2>2. rec.workload \in Workloads
    BY DEF Placement
  <2>3. /\ DOMAIN latest_placement' \subseteq Workloads
        /\ latest_placement' \in [DOMAIN latest_placement' -> DOMAIN placements']
    BY <2>1, <2>2 DEF TypeOK, Insert
  <2> QED BY <1>3, <2>1, <2>3 DEF TypeOK
<1>4. ASSUME GateTypeOK', NEW ctx \in PublicationContext, NEW w \in Workloads,
             NEW content \in Contents, NEW sent_as, NEW at \in Time, NEW made_at \in 0..at,
             publish_portability(ctx, w, content, sent_as, made_at, at)
      PROVE  TypeOK'
  <2>1. /\ portability' \in [DOMAIN portability \cup {w} -> StoredPortability]
        /\ placements' = placements /\ latest_placement' = latest_placement
    BY <1>4, PortabilityWrites
  <2> QED BY <1>4, <2>1 DEF TypeOK
<1>5. CASE Restart
  <2>1. GateTypeOK'
    BY <1>0, <1>5, RestoreType DEF Restart
  <2>2. /\ placements' \in [DOMAIN placements -> StoredPlacement]
        /\ portability' \in [DOMAIN portability -> StoredPortability]
        /\ latest_placement' = rebuilt_latest
    BY <1>5, RestartKeeps
  <2> QED BY <2>1, <2>2, RebuiltType DEF TypeOK
<1>6. ASSUME (\E ctx \in PublicationContext : register_publisher(ctx))
             \/ (\E k \in Keys : FenceKnown(k) \/ FenceUnknown(k))
      PROVE  GateTypeOK'
  BY <1>0, <1>6, RegisterType, FenceType
<1>7. CASE UNCHANGED gateVars /\ UNCHANGED <<placements, latest_placement, portability>>
  BY <1>0, <1>7 DEF gateVars, GateTypeOK, TypeOK
<1> QED BY <1>1, <1>2, <1>3, <1>4, <1>5, <1>6, <1>7, StepForms

(* The histories keep their types, and the latest placement of a workload   *)
(* is always one that is stored, after every restart too: the rebuilt map   *)
(* chooses a last placement because one exists.                             *)
THEOREM TypeCorrect == Spec => []TypeOK
<1>1. Init => TypeOK
  BY GateInitContract DEF Init, TypeOK
<1> QED BY <1>1, StepType, PTL DEF Spec

(* One step of Histories is one step, or a stutter, of the contract.        *)
LEMMA StepContract ==
  ASSUME TypeOK, [Next]_vars
  PROVE  [Contract!Next]_Contract!contractVars
<1>0. GateTypeOK
  BY DEF TypeOK
<1>1. ASSUME NEW ctx \in PublicationContext,
             \/ check_authority(ctx) /\ finish(ctx) /\ coordinator_epoch' = coordinator_epoch
             \/ register_publisher(ctx)
      PROVE  Contract!Next
  <2>1. Contract!Accept(ctx.key, ctx.sequence)
    BY <1>0, <1>1, RegisterAccepts, FinishAccepts
  <2> QED BY <2>1 DEF Contract!Next, PublicationContext
<1>2. ASSUME NEW k \in Keys, FenceKnown(k) \/ FenceUnknown(k) PROVE Contract!Next
  BY <1>0, <1>2, FenceFences DEF Contract!Next
<1>3. CASE Restart
  BY <1>0, <1>3, RestoreAdvances DEF Restart, Contract!Next
<1>4. CASE UNCHANGED gateVars
  BY <1>4 DEF gateVars, Contract!contractVars, FencedKeys, Watermark, Known
<1> QED BY <1>1, <1>2, <1>3, <1>4, StepForms

(* Placements and assessments, repeated, late or old, never take the        *)
(* publisher table outside AuthorityContract.                               *)
THEOREM HistoriesImplementContract == Spec => ImplementsContract
<1>1. Init => Contract!Init
  BY GateInitContract DEF Init
<1>2. TypeOK /\ [Next]_vars => [Contract!Next]_Contract!contractVars
  BY StepContract
<1> QED BY <1>1, <1>2, TypeCorrect, PTL DEF Spec, ImplementsContract, Contract!Spec

-----------------------------------------------------------------------------
(* What HistoriesFresh says of one stored record.                           *)
LEMMA StepFresh ==
  ASSUME TypeOK, HistoriesFresh, [Next]_vars
  PROVE  HistoriesFresh'
<1>0. GateTypeOK /\ TypeOK' /\ GateTypeOK'
  BY StepType DEF TypeOK
<1>1. TableGrows
  <2>1. CASE UNCHANGED gateVars
    BY <1>0, <2>1, GateAssumption
    DEF gateVars, TableGrows, GateTypeOK, PublisherAuthority, Sequence
  <2> QED BY <1>0, <2>1, StepForms, AcceptGrows, OthersGrow DEF Restart
<1> DEFINE WatermarkNext(k) == IF k \in DOMAIN publishers' THEN publishers'[k].watermark ELSE 0
           Covered(s) == s.sequence <= WatermarkNext(s.key)
           Fresh(r) == /\ Covered(r.stamp)
                       /\ r.currentness = "Current" => r.stamp.epoch = coordinator_epoch'
<1>2. ASSUME NEW s \in Stamp, s.sequence <= Watermark(s.key) PROVE Covered(s)
  <2>1. s.key \in Keys /\ s.sequence \in Sequence
    BY DEF Stamp
  <2>2. /\ Watermark(s.key) \in Sequence /\ WatermarkNext(s.key) \in Sequence
        /\ WatermarkNext(s.key) >= Watermark(s.key)
    BY <1>0, <1>1, <2>1, WatermarkGrows DEF Watermark, Known
  <2> HIDE DEF WatermarkNext
  <2> QED BY <1>2, <2>1, <2>2, GateAssumption DEF Sequence
<1>3. /\ \A p \in DOMAIN placements : Covered(placements[p].stamp)
      /\ \A w \in DOMAIN portability : Covered(portability[w].stamp)
  <2>1. /\ \A p \in DOMAIN placements : placements[p].stamp \in Stamp
        /\ \A w \in DOMAIN portability : portability[w].stamp \in Stamp
    BY DEF TypeOK, StoredPlacement, StoredPortability
  <2> HIDE DEF Covered
  <2> QED BY <1>2, <2>1 DEF HistoriesFresh
<1>4. ASSUME NEW ctx \in PublicationContext, check_authority(ctx), finish(ctx),
             coordinator_epoch' = coordinator_epoch, NEW at \in Time
      PROVE  /\ Covered(stamp_for(ctx, at))
             /\ stamp_for(ctx, at).epoch = coordinator_epoch'
  <2>1. WatermarkNext(ctx.key) = ctx.sequence
    BY <1>0, <1>4, AcceptGrows
  <2>2. /\ stamp_for(ctx, at).key = ctx.key /\ stamp_for(ctx, at).sequence = ctx.sequence
        /\ stamp_for(ctx, at).epoch = coordinator_epoch
    BY <1>0, <1>4, StampType
  <2>3. ctx.sequence <= ctx.sequence
    BY GateAssumption DEF PublicationContext, Sequence
  <2> HIDE DEF WatermarkNext
  <2> QED BY <1>4, <2>1, <2>2, <2>3
<1>s. SUFFICES /\ \A p \in DOMAIN placements' : Fresh(placements'[p])
               /\ \A w \in DOMAIN portability' : Fresh(portability'[w])
  BY DEF HistoriesFresh, Watermark, Known
<1> HIDE DEF Covered
<1>5. ASSUME coordinator_epoch' = coordinator_epoch
      PROVE  /\ \A p \in DOMAIN placements : Fresh(placements[p])
             /\ \A w \in DOMAIN portability : Fresh(portability[w])
  BY <1>3, <1>5 DEF HistoriesFresh
<1>6. ASSUME NEW ctx \in PublicationContext, check_authority(ctx), finish(ctx),
             coordinator_epoch' = coordinator_epoch, NEW id \in PlacementIds,
             NEW rec \in Placement, NEW at \in Time, NEW made_at \in 0..at,
             publish_placement(ctx, id, rec, made_at, at)
      PROVE  /\ \A p \in DOMAIN placements' : Fresh(placements'[p])
             /\ \A w \in DOMAIN portability' : Fresh(portability'[w])
  <2>1. /\ DOMAIN placements' = DOMAIN placements \cup {id}
        /\ placements'[id].stamp = stamp_for(ctx, at)
        /\ \A p \in DOMAIN placements \ {id} : placements'[p] = placements[p]
        /\ portability' = portability
    BY <1>6, PlacementWrites
  <2>2. Fresh(placements'[id])
    BY <1>4, <1>6, <2>1
  <2> HIDE DEF Fresh
  <2> QED BY <1>5, <1>6, <2>1, <2>2
<1>7. ASSUME NEW ctx \in PublicationContext, check_authority(ctx), finish(ctx),
             coordinator_epoch' = coordinator_epoch, NEW w \in Workloads,
             NEW content \in Contents, NEW sent_as, NEW at \in Time, NEW made_at \in 0..at,
             publish_portability(ctx, w, content, sent_as, made_at, at)
      PROVE  /\ \A p \in DOMAIN placements' : Fresh(placements'[p])
             /\ \A v \in DOMAIN portability' : Fresh(portability'[v])
  <2>1. /\ DOMAIN portability' = DOMAIN portability \cup {w}
        /\ portability'[w].stamp = stamp_for(ctx, at)
        /\ \A v \in DOMAIN portability \ {w} : portability'[v] = portability[v]
        /\ placements' = placements
    BY <1>7, PortabilityWrites
  <2>2. Fresh(portability'[w])
    BY <1>4, <1>7, <2>1
  <2> HIDE DEF Fresh
  <2> QED BY <1>5, <1>7, <2>1, <2>2
<1>8. ASSUME Restart
      PROVE  /\ \A p \in DOMAIN placements' : Fresh(placements'[p])
             /\ \A w \in DOMAIN portability' : Fresh(portability'[w])
  <2>1. /\ DOMAIN placements' = DOMAIN placements /\ DOMAIN portability' = DOMAIN portability
        /\ \A p \in DOMAIN placements : /\ placements'[p].stamp = placements[p].stamp
                                        /\ placements'[p].currentness = "Stale"
        /\ \A w \in DOMAIN portability : /\ portability'[w].stamp = portability[w].stamp
                                         /\ portability'[w].currentness = "Stale"
    BY <1>8, RestartKeeps
  <2> QED BY <1>3, <2>1
<1>9. ASSUME \/ \E ctx \in PublicationContext : register_publisher(ctx)
             \/ \E k \in Keys : FenceKnown(k) \/ FenceUnknown(k)
             \/ UNCHANGED gateVars
      PROVE  coordinator_epoch' = coordinator_epoch
  BY <1>9 DEF register_publisher, ReRegister, RegisterNew, FenceKnown, FenceUnknown, gateVars
<1> HIDE DEF Fresh
<1> QED BY <1>5, <1>6, <1>7, <1>8, <1>9, StepForms

(* Whatever the histories call current was heard in this epoch from an      *)
(* identity whose watermark covers it; a restart leaves only history.       *)
THEOREM AlwaysFresh == Spec => []HistoriesFresh
<1>1. Init => HistoriesFresh
  BY DEF Init, HistoriesFresh
<1>2. TypeOK /\ HistoriesFresh /\ [Next]_vars => HistoriesFresh'
  BY StepFresh
<1> QED BY <1>1, <1>2, TypeCorrect, PTL DEF Spec

-----------------------------------------------------------------------------
(* The numbers that the histories compare.                                  *)
LEMMA HistoryNumbers ==
  ASSUME TypeOK
  PROVE  /\ \A p \in DOMAIN placements :
              /\ placements[p].pub.generation \in Nat
              /\ placements[p].stamp.observed_at \in Nat
         /\ \A w \in DOMAIN portability : portability[w].stamp.observed_at \in Nat
BY HistoriesAssumption
DEF TypeOK, StoredPlacement, StoredPortability, Placement, Stamp, Generation, Time

(* For every number of placements and generations: a stored placement is    *)
(* never lost, its generation never goes back and what a generation says    *)
(* never changes, whatever is repeated, late or restored.                   *)
THEOREM PlacementsOnlyForward == Spec => PlacementsMoveForward
<1>1. ASSUME TypeOK, [Next]_vars PROVE PlacementsForward
  <2>0. \A p \in DOMAIN placements :
          placements[p].pub.generation >= placements[p].pub.generation
    BY <1>1, HistoryNumbers
  <2>1. ASSUME placements' = placements PROVE PlacementsForward
    BY <2>0, <2>1 DEF PlacementsForward
  <2>2. ASSUME NEW ctx \in PublicationContext, NEW id \in PlacementIds,
               NEW rec \in Placement, NEW at \in Time, NEW made_at \in 0..at,
               publish_placement(ctx, id, rec, made_at, at)
        PROVE  PlacementsForward
    <3>1. /\ DOMAIN placements' = DOMAIN placements \cup {id} /\ placements'[id].pub = rec
          /\ \A p \in DOMAIN placements \ {id} : placements'[p] = placements[p]
      BY <1>1, <2>2, PlacementWrites
    <3>2. id \in DOMAIN placements => rec.generation > placements[id].pub.generation
      BY <2>2 DEF publish_placement
    <3>3. rec.generation \in Nat
      BY HistoriesAssumption DEF Placement, Generation
    <3>4. id \in DOMAIN placements => /\ rec.generation >= placements[id].pub.generation
                                      /\ rec.generation # placements[id].pub.generation
      BY <1>1, <3>2, <3>3, HistoryNumbers
    <3> QED BY <2>0, <3>1, <3>4 DEF PlacementsForward
  <2>3. CASE Restart
    BY <1>1, <2>0, <2>3, RestartKeeps DEF PlacementsForward
  <2>4. ASSUME NEW ctx, NEW w, NEW content, NEW sent_as, NEW made_at, NEW at,
               publish_portability(ctx, w, content, sent_as, made_at, at)
        PROVE  PlacementsForward
    BY <2>1, <2>4 DEF publish_portability
  <2> QED BY <1>1, <2>1, <2>2, <2>3, <2>4, StepForms
<1> QED BY <1>1, TypeCorrect, PTL DEF Spec, PlacementsMoveForward

(* For every number of workloads, placements and times: another placement   *)
(* takes over a workload only if it was observed no earlier, and the one    *)
(* that a restart finds was observed no earlier than the one it had.        *)
THEOREM LatestOnlyForward == Spec => LatestMovesForward
<1>1. ASSUME TypeOK, [Next]_vars PROVE LatestForward
  <2>1. ASSUME latest_placement' = latest_placement PROVE LatestForward
    BY <2>1 DEF LatestForward
  <2>2. ASSUME NEW ctx \in PublicationContext, NEW id \in PlacementIds,
               NEW rec \in Placement, NEW at \in Time, NEW made_at \in 0..at,
               publish_placement(ctx, id, rec, made_at, at)
        PROVE  LatestForward
    <3>1. placements'[id].stamp.observed_at = at
      <4>1. /\ DOMAIN placements' = DOMAIN placements \cup {id} /\ placements'[id].pub = rec
            /\ placements'[id].stamp = stamp_for(ctx, at)
        BY <1>1, <2>2, PlacementWrites
      <4> QED BY <4>1 DEF stamp_for
    <3>2. CASE stored_is_newer(rec, made_at)
      BY <1>1, <2>1, <2>2, <3>2, PlacementWrites
    <3>3. CASE ~stored_is_newer(rec, made_at)
      <4>1. latest_placement' = Insert(latest_placement, rec.workload, id)
        BY <1>1, <2>2, <3>3, PlacementWrites
      <4>2. ASSUME rec.workload \in DOMAIN latest_placement
            PROVE  at >= placements[latest_placement[rec.workload]].stamp.observed_at
        <5>1. latest_placement[rec.workload] \in DOMAIN placements
          BY <1>1, <4>2 DEF TypeOK
        <5>2. ~(placements[latest_placement[rec.workload]].stamp.observed_at > made_at)
          BY <3>3, <4>2 DEF stored_is_newer
        <5> QED BY <1>1, <5>1, <5>2, HistoryNumbers, HistoriesAssumption DEF Time
      <4> QED BY <3>1, <4>1, <4>2 DEF LatestForward, Insert
    <3> QED BY <3>2, <3>3
  <2>3. CASE Restart
    <3> SUFFICES ASSUME NEW w \in DOMAIN latest_placement,
                        placements[latest_placement[w]].pub.workload = w
                 PROVE  /\ w \in DOMAIN latest_placement'
                        /\ placements'[latest_placement'[w]].stamp.observed_at
                             >= placements[latest_placement[w]].stamp.observed_at
      BY DEF LatestForward
    <3> DEFINE before == latest_placement[w]
               last == LastOf(PlacementsOf(w))
    <3>1. w \in Workloads /\ before \in PlacementsOf(w)
      BY <1>1 DEF TypeOK, PlacementsOf
    <3>2. last \in PlacementsOf(w)
          /\ placements[before].stamp.observed_at <= placements[last].stamp.observed_at
      BY <1>1, <3>1, LastOfWorkload
    <3>3. w \in DOMAIN latest_placement' /\ latest_placement'[w] = last
      BY <1>1, <2>3, <3>1, RestartKeeps DEF rebuilt_latest
    <3>4. before \in DOMAIN placements /\ last \in DOMAIN placements
      BY <3>1, <3>2 DEF PlacementsOf
    <3>5. placements'[last].stamp = placements[last].stamp
      BY <1>1, <2>3, <3>4, RestartKeeps
    <3>6. placements[last].stamp.observed_at \in Nat /\ placements[before].stamp.observed_at \in Nat
      BY <1>1, <3>4, HistoryNumbers
    <3> HIDE DEF last
    <3> QED BY <3>2, <3>3, <3>5, <3>6
  <2>4. ASSUME NEW ctx, NEW w, NEW content, NEW sent_as, NEW made_at, NEW at,
               publish_portability(ctx, w, content, sent_as, made_at, at)
        PROVE  LatestForward
    BY <2>1, <2>4 DEF publish_portability
  <2> QED BY <1>1, <2>1, <2>2, <2>3, <2>4, StepForms
<1> QED BY <1>1, TypeCorrect, PTL DEF Spec, LatestMovesForward

(* An assessment never gives way to one observed earlier, whoever sent it   *)
(* and across restarts, for every number of workloads and times.            *)
THEOREM AssessmentsOnlyForward == Spec => AssessmentsMoveForward
<1>1. ASSUME TypeOK, [Next]_vars PROVE AssessmentsForward
  <2>0. \A w \in DOMAIN portability :
          portability[w].stamp.observed_at >= portability[w].stamp.observed_at
    BY <1>1, HistoryNumbers
  <2>1. ASSUME portability' = portability PROVE AssessmentsForward
    BY <2>0, <2>1 DEF AssessmentsForward
  <2>2. ASSUME NEW ctx \in PublicationContext, NEW w \in Workloads,
               NEW content \in Contents, NEW sent_as, NEW at \in Time, NEW made_at \in 0..at,
               publish_portability(ctx, w, content, sent_as, made_at, at)
        PROVE  AssessmentsForward
    <3>1. /\ DOMAIN portability' = DOMAIN portability \cup {w}
          /\ portability'[w].stamp = stamp_for(ctx, at)
          /\ \A x \in DOMAIN portability \ {w} : portability'[x] = portability[x]
      BY <1>1, <2>2, PortabilityWrites
    <3>2. stamp_for(ctx, at).observed_at = at
      BY DEF stamp_for
    <3>3. w \in DOMAIN portability => ~(portability[w].stamp.observed_at > made_at)
      BY <2>2 DEF publish_portability, newer_stored
    <3>4. w \in DOMAIN portability => at >= portability[w].stamp.observed_at
      BY <1>1, <3>3, HistoryNumbers, HistoriesAssumption DEF Time
    <3> QED BY <2>0, <3>1, <3>2, <3>4 DEF AssessmentsForward
  <2>3. CASE Restart
    BY <1>1, <2>0, <2>3, RestartKeeps DEF AssessmentsForward
  <2>4. ASSUME NEW ctx, NEW id, NEW rec, NEW made_at, NEW at,
               publish_placement(ctx, id, rec, made_at, at)
        PROVE  AssessmentsForward
    BY <2>1, <2>4 DEF publish_placement
  <2> QED BY <1>1, <2>1, <2>2, <2>3, <2>4, StepForms
<1> QED BY <1>1, TypeCorrect, PTL DEF Spec, AssessmentsMoveForward

-----------------------------------------------------------------------------
(* Migrations                                                               *)


StampOf(ctx) == [key |-> ctx.key, epoch |-> ctx.epoch, sequence |-> ctx.sequence]

(* No record, stamp or generation moves, and nothing becomes current.       *)
Kept ==
  /\ migrations' \in [DOMAIN migrations -> StoredMigration]
  /\ \A id \in DOMAIN migrations :
       /\ migrations'[id].pub = migrations[id].pub
       /\ migrations'[id].stamp = migrations[id].stamp
       /\ migrations'[id].currentness = "Current" => migrations[id].currentness = "Current"

(* pub, stamped by ctx, is now the record of id; of the others at most the  *)
(* currentness was taken away.                                              *)
Written(ctx, id, pub) ==
  /\ migrations' \in [DOMAIN migrations \cup {id} -> StoredMigration]
  /\ migrations'[id].pub = pub
  /\ migrations'[id].stamp = StampOf(ctx)
  /\ \A x \in DOMAIN migrations \ {id} :
       /\ migrations'[x].pub = migrations[x].pub
       /\ migrations'[x].stamp = migrations[x].stamp
       /\ migrations'[x].currentness = "Current" => migrations[x].currentness = "Current"

(* A record stamped by an admitted context can be stored.                   *)
LEMMA StampedType ==
  ASSUME GateTypeOK, NEW ctx \in PublicationContext, check_authority(ctx),
         NEW pub \in MigrationRecord
  PROVE  /\ Stamped(ctx, pub) \in StoredMigration
         /\ Stamped(ctx, pub).pub = pub
         /\ Stamped(ctx, pub).stamp = StampOf(ctx)
         /\ StampOf(ctx).epoch = coordinator_epoch
<1>1. StampOf(ctx) \in [key: Keys, epoch: Epoch, sequence: Sequence]
  BY DEF StampOf, PublicationContext, check_authority, GateTypeOK
<1> QED BY <1>1 DEF Stamped, StampOf, StoredMigration, check_authority

(* A step that leaves the migrations alone keeps what is stored.            *)
LEMMA NothingKept ==
  ASSUME MigrationTypeOK, migrations' = migrations
  PROVE  Kept
BY DEF MigrationTypeOK, Kept

(* publish_migration writes the record it was sent.                         *)
LEMMA PublishWrites ==
  ASSUME MigrationTypeOK, NEW ctx \in PublicationContext, NEW id \in MigrationIds,
         NEW rec \in MigrationRecords, publish_migration(ctx, id, rec)
  PROVE  /\ Written(ctx, id, rec)
         /\ DOMAIN superseded_migrations' \subseteq MigratedWorkloads
         /\ superseded_migrations' \in [DOMAIN superseded_migrations' -> MigrationIds]
<1> DEFINE stored == Insert(migrations, id, Stamped(ctx, rec))
           old == rec.supersedes
<1>0. /\ rec \in MigrationRecord /\ old \in MigrationIds \cup {NoMigration}
      /\ rec.workload \in MigratedWorkloads
  BY MigrationsAssumption DEF MigrationRecord
<1>1. /\ Stamped(ctx, rec) \in StoredMigration /\ Stamped(ctx, rec).pub = rec
      /\ Stamped(ctx, rec).stamp = StampOf(ctx)
  BY <1>0, StampedType DEF publish_migration, MigrationTypeOK
<1>2. /\ stored \in [DOMAIN migrations \cup {id} -> StoredMigration]
      /\ stored[id] = Stamped(ctx, rec)
      /\ \A x \in DOMAIN migrations \ {id} : stored[x] = migrations[x]
  BY <1>1 DEF Insert, MigrationTypeOK
<1>3. migrations' = IF old \in DOMAIN stored
                    THEN [stored EXCEPT ![old].currentness = "Stale"]
                    ELSE stored
  BY DEF publish_migration
<1> HIDE DEF stored, old
<1>4. ASSUME old \in DOMAIN stored PROVE Written(ctx, id, rec)
  <2> DEFINE v == [stored[old] EXCEPT !.currentness = "Stale"]
  <2>1. /\ v \in StoredMigration /\ v.pub = stored[old].pub /\ v.stamp = stored[old].stamp
        /\ v.currentness = "Stale"
    BY <1>2, <1>4 DEF StoredMigration
  <2>2. migrations' = [stored EXCEPT ![old] = v]
    BY <1>3, <1>4
  <2> HIDE DEF v
  <2> QED BY <1>1, <1>2, <1>4, <2>1, <2>2 DEF Written
<1>5. ASSUME old \notin DOMAIN stored PROVE Written(ctx, id, rec)
  BY <1>1, <1>2, <1>3, <1>5 DEF Written
<1>6. superseded_migrations' = IF old # NoMigration
                               THEN Insert(superseded_migrations, rec.workload, old)
                               ELSE superseded_migrations
  BY DEF publish_migration, old
<1>7. /\ DOMAIN superseded_migrations' \subseteq MigratedWorkloads
      /\ superseded_migrations' \in [DOMAIN superseded_migrations' -> MigrationIds]
  BY <1>0, <1>6 DEF MigrationTypeOK, Insert
<1> QED BY <1>4, <1>5, <1>7

(* publish_migration_stage writes the stored record with one event more.    *)
LEMMA StageWrites ==
  ASSUME MigrationTypeOK, NEW ctx \in PublicationContext, NEW id \in MigrationIds,
         NEW g \in MigrationGeneration, NEW stage \in Stage,
         publish_migration_stage(ctx, id, g, stage)
  PROVE  /\ id \in DOMAIN migrations
         /\ WithEvent(migrations[id].pub, g, stage, ctx.sequence) \in MigrationRecord
         /\ Written(ctx, id, WithEvent(migrations[id].pub, g, stage, ctx.sequence))
<1> DEFINE pub == migrations[id].pub
           e == [generation |-> g, stage |-> stage, sequence |-> ctx.sequence]
           new == WithEvent(pub, g, stage, ctx.sequence)
<1>1. id \in DOMAIN migrations /\ check_authority(ctx)
  BY DEF publish_migration_stage, StageAdmitted
<1>2. pub \in MigrationRecord
  BY <1>1 DEF MigrationTypeOK, StoredMigration
<1>3. e \in StageEvent
  BY DEF StageEvent, PublicationContext
<1>4. OutcomeAfter(pub, stage) \in Outcome
  BY <1>2 DEF OutcomeAfter, OutcomeOf, Outcome, Terminal, MigrationRecord
<1>5. new = [pub EXCEPT !.events = Append(pub.events, e), !.stage = stage,
                        !.outcome = OutcomeAfter(pub, stage),
                        !.revalidation_pending =
                          pub.revalidation_pending \/ stage = "RevalidationRequired"]
  BY DEF WithEvent
<1>6. Append(pub.events, e) \in Seq(StageEvent)
  BY <1>2, <1>3 DEF MigrationRecord
<1> DEFINE b == pub.revalidation_pending \/ stage = "RevalidationRequired"
           s == Append(pub.events, e)
           o == OutcomeAfter(pub, stage)
<1>7. b \in BOOLEAN
  OBVIOUS
<1> HIDE DEF b, s, o
<1>8. new \in MigrationRecord
  BY <1>2, <1>4, <1>5, <1>6, <1>7 DEF MigrationRecord, b, s, o
<1>9. migrations' = [migrations EXCEPT ![id] = Stamped(ctx, new)]
  BY DEF publish_migration_stage
<1> HIDE DEF new
<1>10. Stamped(ctx, new) \in StoredMigration /\ Stamped(ctx, new).pub = new
       /\ Stamped(ctx, new).stamp = StampOf(ctx)
  BY <1>1, <1>8, StampedType DEF MigrationTypeOK
<1>11. Written(ctx, id, new)
  BY <1>1, <1>9, <1>10 DEF Written, MigrationTypeOK
<1> QED BY <1>1, <1>8, <1>11 DEF new

(* A restart rebuilds what the workloads superseded from identifiers.       *)
LEMMA MigrationRestartKeeps ==
  ASSUME MigrationTypeOK, MigrationRestart
  PROVE  /\ Kept
         /\ \A id \in DOMAIN migrations : migrations'[id].currentness # "Current"
         /\ DOMAIN superseded_migrations' \subseteq MigratedWorkloads
         /\ superseded_migrations' \in [DOMAIN superseded_migrations' -> MigrationIds]
<1>1. ASSUME NEW id \in DOMAIN migrations
      PROVE  LET v == [migrations[id] EXCEPT !.currentness = "Stale"]
             IN  /\ v \in StoredMigration /\ v.pub = migrations[id].pub
                 /\ v.stamp = migrations[id].stamp /\ v.currentness = "Stale"
  BY <1>1 DEF MigrationTypeOK, StoredMigration
<1>2. migrations' = [id \in DOMAIN migrations |->
                       [migrations[id] EXCEPT !.currentness = "Stale"]]
  BY DEF MigrationRestart
<1>3. Kept /\ \A id \in DOMAIN migrations : migrations'[id].currentness # "Current"
  BY <1>1, <1>2 DEF Kept
<1> DEFINE Successor(w) == {id \in DOMAIN migrations :
                              /\ migrations[id].pub.workload = w
                              /\ migrations[id].pub.supersedes # NoMigration}
           rebuilt == {w \in MigratedWorkloads : Successor(w) # {}}
<1>4. PICK last \in [rebuilt -> DOMAIN migrations] :
        /\ \A w \in rebuilt : last[w] \in Successor(w)
        /\ superseded_migrations' = [w \in rebuilt |-> migrations[last[w]].pub.supersedes]
  BY DEF MigrationRestart
<1>5. \A w \in rebuilt : migrations[last[w]].pub.supersedes \in MigrationIds
  BY <1>4 DEF MigrationTypeOK, StoredMigration, MigrationRecord
<1> QED BY <1>3, <1>4, <1>5

(* What a stored migration keeps through a step, and who may write one.     *)
LEMMA MigrationStepForms ==
  ASSUME MigrationTypeOK, [MigrationNext]_migration_vars
  PROVE  \/ \E ctx \in PublicationContext :
              /\ check_authority(ctx) /\ finish(ctx) /\ coordinator_epoch' = coordinator_epoch
              /\ \/ UNCHANGED <<migrations, superseded_migrations>>
                 \/ \E id \in MigrationIds, rec \in MigrationRecords :
                      publish_migration(ctx, id, rec)
                 \/ \E id \in MigrationIds, g \in MigrationGeneration, stage \in Stage :
                      publish_migration_stage(ctx, id, g, stage)
         \/ /\ UNCHANGED <<migrations, superseded_migrations>>
            /\ \/ \E ctx \in PublicationContext : register_publisher(ctx)
               \/ \E k \in Keys : FenceKnown(k) \/ FenceUnknown(k)
               \/ UNCHANGED gateVars
         \/ MigrationRestart
<1>1. ASSUME NEW ctx \in PublicationContext, MigrationPublication(ctx)
      PROVE  /\ check_authority(ctx) /\ finish(ctx) /\ coordinator_epoch' = coordinator_epoch
             /\ \/ UNCHANGED <<migrations, superseded_migrations>>
                \/ \E id \in MigrationIds, rec \in MigrationRecords :
                     publish_migration(ctx, id, rec)
                \/ \E id \in MigrationIds, g \in MigrationGeneration, stage \in Stage :
                     publish_migration_stage(ctx, id, g, stage)
  BY <1>1 DEF MigrationPublication, publish_identical, publish_migration, publish_migration_stage,
              repeat_terminal_stage, SuppressMigration
<1>2. CASE UNCHANGED migration_vars
  BY <1>2 DEF migration_vars, gateVars
<1> QED BY <1>1, <1>2 DEF MigrationNext, register_beside_migrations, fence_beside_migrations

(* Every step keeps the table and both maps in their types.                 *)
LEMMA MigrationStepType == MigrationTypeOK /\ [MigrationNext]_migration_vars => MigrationTypeOK'
<1> SUFFICES ASSUME MigrationTypeOK, [MigrationNext]_migration_vars PROVE MigrationTypeOK'
  OBVIOUS
<1>0. GateTypeOK
  BY DEF MigrationTypeOK
<1>1. ASSUME NEW ctx \in PublicationContext, check_authority(ctx), finish(ctx),
             coordinator_epoch' = coordinator_epoch
      PROVE  GateTypeOK'
  BY <1>0, <1>1, FinishType
<1>2. ASSUME GateTypeOK', UNCHANGED <<migrations, superseded_migrations>> PROVE MigrationTypeOK'
  BY <1>2 DEF MigrationTypeOK
<1>3. ASSUME GateTypeOK', NEW ctx \in PublicationContext, NEW id \in MigrationIds,
             NEW rec \in MigrationRecords, publish_migration(ctx, id, rec)
      PROVE  MigrationTypeOK'
  BY <1>3, PublishWrites DEF MigrationTypeOK, Written
<1>4. ASSUME GateTypeOK', NEW ctx \in PublicationContext, NEW id \in MigrationIds,
             NEW g \in MigrationGeneration, NEW stage \in Stage,
             publish_migration_stage(ctx, id, g, stage)
      PROVE  MigrationTypeOK'
  <2>1. migrations' \in [DOMAIN migrations \cup {id} -> StoredMigration]
    BY <1>4, StageWrites DEF Written
  <2>2. superseded_migrations' = superseded_migrations
    BY <1>4 DEF publish_migration_stage
  <2> QED BY <1>4, <2>1, <2>2 DEF MigrationTypeOK
<1>6. CASE MigrationRestart
  BY <1>0, <1>6, RestoreType, MigrationRestartKeeps DEF MigrationRestart, Kept, MigrationTypeOK
<1>7. ASSUME (\E ctx \in PublicationContext : register_publisher(ctx))
             \/ (\E k \in Keys : FenceKnown(k) \/ FenceUnknown(k))
      PROVE  GateTypeOK'
  BY <1>0, <1>7, RegisterType, FenceType
<1>8. CASE UNCHANGED gateVars /\ UNCHANGED <<migrations, superseded_migrations>>
  BY <1>0, <1>8 DEF gateVars, GateTypeOK, MigrationTypeOK
<1> QED BY <1>1, <1>2, <1>3, <1>4, <1>6, <1>7, <1>8, MigrationStepForms

(* The migration records, with histories of any length, and the superseded  *)
(* migrations keep their types under every sequence of publications.        *)
THEOREM MigrationTypeCorrect == MigrationSpec => []MigrationTypeOK
<1>1. MigrationInit => MigrationTypeOK
  BY GateInitContract DEF MigrationInit, MigrationTypeOK
<1> QED BY <1>1, MigrationStepType, PTL DEF MigrationSpec

-----------------------------------------------------------------------------
(* One step of Migrations is one step, or a stutter, of the contract.       *)
LEMMA MigrationStepContract ==
  ASSUME MigrationTypeOK, [MigrationNext]_migration_vars
  PROVE  [Contract!Next]_Contract!contractVars
<1>0. GateTypeOK
  BY DEF MigrationTypeOK
<1>1. ASSUME NEW ctx \in PublicationContext,
             \/ check_authority(ctx) /\ finish(ctx) /\ coordinator_epoch' = coordinator_epoch
             \/ register_publisher(ctx)
      PROVE  Contract!Next
  <2>1. Contract!Accept(ctx.key, ctx.sequence)
    BY <1>0, <1>1, RegisterAccepts, FinishAccepts
  <2> QED BY <2>1 DEF Contract!Next, PublicationContext
<1>2. ASSUME NEW k \in Keys, FenceKnown(k) \/ FenceUnknown(k) PROVE Contract!Next
  BY <1>0, <1>2, FenceFences DEF Contract!Next
<1>3. CASE MigrationRestart
  BY <1>0, <1>3, RestoreAdvances DEF MigrationRestart, Contract!Next
<1>4. CASE UNCHANGED gateVars
  BY <1>4 DEF gateVars, Contract!contractVars, FencedKeys, Watermark, Known
<1> QED BY <1>1, <1>2, <1>3, <1>4, MigrationStepForms

(* Migration records and stage events, repeated, late or superseded, never  *)
(* take the publisher table outside AuthorityContract.                      *)
THEOREM MigrationsImplementContract == MigrationSpec => MigrationsKeepContract
<1>1. MigrationInit => Contract!Init
  BY GateInitContract DEF MigrationInit
<1>2. MigrationTypeOK /\ [MigrationNext]_migration_vars => [Contract!Next]_Contract!contractVars
  BY MigrationStepContract
<1> QED
  BY <1>1, <1>2, MigrationTypeCorrect, PTL DEF MigrationSpec, MigrationsKeepContract, Contract!Spec

-----------------------------------------------------------------------------
(* One more event on a legal history, admitted by publish_migration_stage.  *)
LEMMA EventExtendsHistory ==
  ASSUME NEW pub \in MigrationRecord, HistoryOK(pub), NEW g \in MigrationGeneration, g # 0,
         g = pub.generation, NEW stage \in Stage, NEW sequence \in Sequence,
         pub.events # <<>> => sequence > pub.events[Len(pub.events)].sequence,
         is_acceptable_migration_event(pub.stage, stage),
         Len(pub.events) < MaxStageEvents,
         NEW new, new.events = Append(pub.events, [generation |-> g, stage |-> stage,
                                                   sequence |-> sequence]),
         new.stage = stage, new.generation = pub.generation
  PROVE  HistoryOK(new)
<1> DEFINE e == [generation |-> g, stage |-> stage, sequence |-> sequence]
           n == Len(pub.events)
<1>1. pub.events \in Seq(StageEvent) /\ n \in Nat /\ e \in StageEvent
  BY DEF MigrationRecord, StageEvent
<1>2. e.generation = g /\ e.stage = stage /\ e.sequence = sequence
  OBVIOUS
<1>3. new.events = Append(pub.events, e)
  OBVIOUS
<1> HIDE DEF e
<1>4. /\ Len(new.events) = n + 1
      /\ new.events[n + 1] = e
      /\ \A m \in 1..n : new.events[m] = pub.events[m]
  BY <1>1, <1>3
<1>5. g \in 1..pub.generation
  BY MigrationsAssumption DEF MigrationGeneration
<1>6. Len(new.events) <= MaxStageEvents
  BY <1>1, <1>4, MigrationsAssumption
<1>7. \A m \in 1..Len(new.events) : new.events[m].generation \in 1..new.generation
  BY <1>1, <1>2, <1>4, <1>5 DEF HistoryOK
<1>8. ASSUME NEW m \in 2..Len(new.events)
      PROVE  /\ new.events[m].sequence > new.events[m - 1].sequence
             /\ is_acceptable_migration_event(new.events[m - 1].stage, new.events[m].stage)
  <2>1. CASE m \in 2..n
    BY <1>1, <1>4, <2>1 DEF HistoryOK
  <2>2. CASE m = n + 1
    <3>1. n \in 1..n /\ m - 1 = n /\ pub.events # <<>>
      BY <1>1, <1>4, <1>8, <2>2
    <3>2. pub.events[n].stage = pub.stage /\ sequence > pub.events[n].sequence
      BY <3>1 DEF HistoryOK
    <3> QED BY <1>2, <1>4, <2>2, <3>1, <3>2
  <2> QED BY <1>1, <1>4, <1>8, <2>1, <2>2
<1>9. new.events[Len(new.events)].stage = new.stage
  BY <1>2, <1>4
<1> QED BY <1>6, <1>7, <1>8, <1>9 DEF HistoryOK

(* The outcome that a stage event leaves is the one validate expects, or    *)
(* the unknown one that RevalidationRequired keeps.                         *)
LEMMA OutcomeAfterEvent ==
  ASSUME NEW pub, pub.stage \in Stage \ Terminal, NEW stage \in Stage,
         \/ pub.outcome = OutcomeOf(pub.stage)
         \/ pub.stage = "RevalidationRequired" /\ pub.outcome = "Unknown"
  PROVE  \/ OutcomeAfter(pub, stage) = OutcomeOf(stage)
         \/ stage = "RevalidationRequired" /\ OutcomeAfter(pub, stage) = "Unknown"
BY DEF OutcomeAfter, OutcomeOf, Stage, Terminal

(* The record of a migration, one by one.                                   *)
LegalRecord(id, rec) ==
  /\ HistoryOK(rec)
  /\ rec.generation # 0
  /\ rec.supersedes # id
  /\ \/ rec.outcome = OutcomeOf(rec.stage)
     \/ rec.stage = "RevalidationRequired" /\ rec.outcome = "Unknown"

LegalRecords == \A id \in DOMAIN migrations : LegalRecord(id, migrations[id].pub)

(* Each step keeps every stored record legal.                               *)
LEMMA StepLegal ==
  ASSUME MigrationTypeOK, LegalRecords, [MigrationNext]_migration_vars
  PROVE  LegalRecords'
<1>1. ASSUME Kept PROVE LegalRecords'
  BY <1>1 DEF Kept, LegalRecords
<1>2. ASSUME NEW ctx \in PublicationContext, NEW id \in MigrationIds,
             NEW pub, LegalRecord(id, pub), Written(ctx, id, pub)
      PROVE  LegalRecords'
  BY <1>2 DEF Written, LegalRecords
<1>3. ASSUME NEW ctx \in PublicationContext, NEW id \in MigrationIds,
             NEW rec \in MigrationRecords, publish_migration(ctx, id, rec)
      PROVE  LegalRecords'
  <2>1. LegalRecord(id, rec)
    BY <1>3 DEF publish_migration, validate, LegalRecord
  <2> QED BY <1>2, <1>3, <2>1, PublishWrites
<1>4. ASSUME NEW ctx \in PublicationContext, NEW id \in MigrationIds,
             NEW g \in MigrationGeneration, NEW stage \in Stage,
             publish_migration_stage(ctx, id, g, stage)
      PROVE  LegalRecords'
  <2> DEFINE pub == migrations[id].pub
             new == WithEvent(pub, g, stage, ctx.sequence)
  <2>1. /\ id \in DOMAIN migrations /\ new \in MigrationRecord /\ Written(ctx, id, new)
    BY <1>4, StageWrites
  <2>2. pub \in MigrationRecord /\ LegalRecord(id, pub)
    BY <2>1 DEF MigrationTypeOK, StoredMigration, LegalRecords
  <2>3. /\ g # 0 /\ g = pub.generation /\ pub.stage \notin Terminal
        /\ Len(pub.events) < MaxStageEvents
        /\ is_acceptable_migration_event(pub.stage, stage)
        /\ pub.events # <<>> => ctx.sequence > pub.events[Len(pub.events)].sequence
    BY <1>4 DEF publish_migration_stage, StageAdmitted
  <2>4. /\ new.events = Append(pub.events, [generation |-> g, stage |-> stage,
                                            sequence |-> ctx.sequence])
        /\ new.stage = stage /\ new.generation = pub.generation
        /\ new.outcome = OutcomeAfter(pub, stage) /\ new.supersedes = pub.supersedes
    BY <2>2 DEF WithEvent, MigrationRecord
  <2> HIDE DEF new
  <2>5. HistoryOK(new)
    BY <2>2, <2>3, <2>4, EventExtendsHistory DEF LegalRecord, PublicationContext
  <2>6. \/ new.outcome = OutcomeOf(new.stage)
        \/ new.stage = "RevalidationRequired" /\ new.outcome = "Unknown"
    BY <2>2, <2>3, <2>4, OutcomeAfterEvent DEF LegalRecord, MigrationRecord
  <2>7. LegalRecord(id, new)
    BY <2>2, <2>3, <2>4, <2>5, <2>6 DEF LegalRecord
  <2> QED BY <1>2, <2>1, <2>7
<1> QED BY <1>1, <1>3, <1>4, MigrationStepForms, NothingKept, MigrationRestartKeeps

(* For every record that publishers may send and every order of stage       *)
(* events: every stored history is one that validate accepts, and so is the *)
(* record but for the one known exception.  The invariant is strengthened   *)
(* by what the exception would hide: the generation is set and no migration *)
(* supersedes itself.                                                       *)
THEOREM AlwaysLegal == MigrationSpec => []StoredHistoryLegal
<1>1. MigrationInit => LegalRecords
  BY DEF MigrationInit, LegalRecords
<1>2. MigrationTypeOK /\ LegalRecords /\ [MigrationNext]_migration_vars => LegalRecords'
  BY StepLegal
<1>3. LegalRecords => StoredHistoryLegal
  BY DEF LegalRecords, LegalRecord, StoredHistoryLegal, validate
<1> QED BY <1>1, <1>2, <1>3, MigrationTypeCorrect, PTL DEF MigrationSpec

-----------------------------------------------------------------------------
(* How far a migration has come at a stage: the rank of the stages that     *)
(* have one, and beyond them an unknown outcome, after which only the last  *)
(* two are left, and the two ends that are not a commit.                    *)
Progress(stage) ==
  CASE stage = "Planned" -> 1 [] stage = "SourceQuiescing" -> 2
    [] stage = "StateCaptured" -> 3 [] stage = "TransferStarted" -> 4
    [] stage = "TransferComplete" -> 5 [] stage = "DestinationPrepared" -> 6
    [] stage = "RestoreStarted" -> 7 [] stage = "RestoreComplete" -> 8
    [] stage = "RevalidationRequired" -> 9 [] stage = "OutcomeUnknown" -> 9
    [] stage = "Committed" -> 10 [] OTHER -> 11

(* Every stage has a place in the order of progress.                        *)
LEMMA ProgressType == \A stage \in Stage : Progress(stage) \in 1..11
BY DEF Progress

(* Progress is the rank of every stage that has one.                        *)
LEMMA ProgressIsRank == \A stage \in Ranked : migration_stage_rank(stage) = Progress(stage)
<1>1. \A n \in 1..10 : Progress(Ordered[n]) = n
  BY DEF Ordered, Progress
<1>2. ASSUME NEW stage \in Ranked
      PROVE  Ordered[Progress(stage)] = stage /\ Progress(stage) \in 1..10
  BY <1>2 DEF Ranked, Stage, Exceptional, Progress, Ordered
<1>3. ASSUME NEW stage \in Ranked PROVE migration_stage_rank(stage) = Progress(stage)
  <2>1. /\ migration_stage_rank(stage) \in 1..10
        /\ Ordered[migration_stage_rank(stage)] = stage
    BY <1>2 DEF migration_stage_rank
  <2> QED BY <1>1, <2>1
<1> QED BY <1>3

(* No accepted move goes back.                                              *)
LEMMA MoveKeepsProgress ==
  ASSUME NEW from \in Stage, NEW to \in Stage, is_acceptable_migration_event(from, to)
  PROVE  Progress(from) <= Progress(to)
<1>1. CASE from = to
  BY <1>1, ProgressType
<1>2. CASE to \in Successors(from)
  BY <1>2 DEF Successors, Stage, Progress
<1>3. CASE from \notin Terminal /\ to \in Exceptional
  BY <1>3 DEF Stage, Terminal, Exceptional, Progress
<1> QED BY <1>1, <1>2, <1>3 DEF is_acceptable_migration_event, is_valid_migration_transition

(* A legal history never runs backwards, over any number of events.         *)
LEMMA LegalHistoryProgresses ==
  ASSUME NEW events \in Seq(StageEvent),
         \A n \in 2..Len(events) :
           is_acceptable_migration_event(events[n - 1].stage, events[n].stage)
  PROVE  \A n, m \in 1..Len(events) :
           n < m => Progress(events[n].stage) <= Progress(events[m].stage)
<1> DEFINE f == [n \in 1..Len(events) |-> Progress(events[n].stage)]
<1>0. Len(events) \in Nat /\ \A n \in 1..Len(events) : events[n] \in StageEvent
  OBVIOUS
<1>1. Len(events) \in Nat /\ \A n \in 1..Len(events) : events[n].stage \in Stage
  BY <1>0 DEF StageEvent
<1>2. \A n \in 1..Len(events) : f[n] \in Nat
  BY <1>1, ProgressType
<1>3. ASSUME NEW n \in 2..Len(events) PROVE f[n - 1] <= f[n]
  <2>1. n \in 1..Len(events) /\ n - 1 \in 1..Len(events)
    BY <1>1
  <2>2. Progress(events[n - 1].stage) <= Progress(events[n].stage)
    BY <1>1, <2>1, MoveKeepsProgress
  <2> QED BY <2>1, <2>2
<1>4. \A n, m \in 1..Len(events) : n < m => f[n] <= f[m]
  <2> HIDE DEF f
  <2> QED BY <1>1, <1>2, <1>3, NeverFalls
<1> QED BY <1>4

(* Over histories of any length, and through any number of unknown          *)
(* outcomes: no recorded stage has a lower rank than an earlier one.        *)
THEOREM NeverBackwards == MigrationSpec => []ProgressNeverBackwards
<1>1. MigrationTypeOK /\ StoredHistoryLegal => ProgressNeverBackwards
  <2> SUFFICES ASSUME MigrationTypeOK, StoredHistoryLegal, NEW id \in DOMAIN migrations,
                      NEW n \in 1..Len(migrations[id].pub.events),
                      NEW m \in 1..Len(migrations[id].pub.events), n < m,
                      migrations[id].pub.events[n].stage \in Ranked,
                      migrations[id].pub.events[m].stage \in Ranked
               PROVE  migration_stage_rank(migrations[id].pub.events[n].stage)
                        <= migration_stage_rank(migrations[id].pub.events[m].stage)
    BY DEF ProgressNeverBackwards
  <2> DEFINE events == migrations[id].pub.events
  <2>1. events \in Seq(StageEvent)
    BY DEF MigrationTypeOK, StoredMigration, MigrationRecord
  <2>2. \A i \in 2..Len(events) :
          is_acceptable_migration_event(events[i - 1].stage, events[i].stage)
    BY DEF StoredHistoryLegal, HistoryOK
  <2>3. Progress(events[n].stage) <= Progress(events[m].stage)
    <3> HIDE DEF events
    <3> QED BY <2>1, <2>2, LegalHistoryProgresses DEF events
  <2> QED BY <2>3, ProgressIsRank
<1> QED BY <1>1, MigrationTypeCorrect, AlwaysLegal, PTL

-----------------------------------------------------------------------------
(* A stamp is covered before a step and after it, and the one just written  *)
(* is the watermark itself.                                                 *)
LEMMA StepFreshlyStamped ==
  ASSUME MigrationTypeOK, CurrentIsFreshlyStamped, [MigrationNext]_migration_vars
  PROVE  CurrentIsFreshlyStamped'
<1>0. GateTypeOK /\ MigrationTypeOK' /\ GateTypeOK'
  BY MigrationStepType DEF MigrationTypeOK
<1>1. TableGrows
  <2>1. CASE UNCHANGED gateVars
    BY <1>0, <2>1, GateAssumption
    DEF gateVars, TableGrows, GateTypeOK, PublisherAuthority, Sequence
  <2> QED BY <1>0, <2>1, MigrationStepForms, AcceptGrows, OthersGrow DEF MigrationRestart
<1>2. ASSUME NEW id \in DOMAIN migrations
      PROVE  migrations[id].stamp.sequence <= Watermark(migrations[id].stamp.key)
             /\ migrations[id].stamp.key \in Keys /\ migrations[id].stamp.sequence \in Sequence
  BY <1>2 DEF CurrentIsFreshlyStamped, MigrationTypeOK, StoredMigration
<1> DEFINE WatermarkNext(k) == IF k \in DOMAIN publishers' THEN publishers'[k].watermark ELSE 0
<1>3. \A k \in Keys : /\ Watermark(k) \in Sequence /\ WatermarkNext(k) \in Sequence
                      /\ WatermarkNext(k) >= Watermark(k)
  BY <1>0, <1>1, WatermarkGrows DEF Watermark, Known
<1> HIDE DEF WatermarkNext
<1>4. \A id \in DOMAIN migrations :
        migrations[id].stamp.sequence <= WatermarkNext(migrations[id].stamp.key)
  BY <1>2, <1>3, GateAssumption DEF Sequence
<1>s. SUFFICES \A id \in DOMAIN migrations' :
        /\ migrations'[id].stamp.sequence <= WatermarkNext(migrations'[id].stamp.key)
        /\ migrations'[id].currentness = "Current"
             => migrations'[id].stamp.epoch = coordinator_epoch'
  BY DEF CurrentIsFreshlyStamped, Watermark, Known, WatermarkNext
<1>5. CASE Kept /\ coordinator_epoch' = coordinator_epoch
  BY <1>4, <1>5 DEF Kept, CurrentIsFreshlyStamped
<1>6. CASE MigrationRestart
  BY <1>4, <1>6, MigrationRestartKeeps DEF Kept
<1>7. ASSUME NEW ctx \in PublicationContext, check_authority(ctx), finish(ctx),
             coordinator_epoch' = coordinator_epoch,
             NEW id \in MigrationIds, NEW pub, Written(ctx, id, pub)
      PROVE  \A x \in DOMAIN migrations' :
               /\ migrations'[x].stamp.sequence <= WatermarkNext(migrations'[x].stamp.key)
               /\ migrations'[x].currentness = "Current"
                    => migrations'[x].stamp.epoch = coordinator_epoch'
  <2>1. /\ StampOf(ctx).key = ctx.key /\ StampOf(ctx).sequence = ctx.sequence
        /\ StampOf(ctx).epoch = coordinator_epoch
    BY <1>7 DEF StampOf, check_authority
  <2>2. WatermarkNext(ctx.key) = ctx.sequence /\ ctx.sequence \in Sequence
    BY <1>0, <1>7, AcceptGrows DEF WatermarkNext, PublicationContext
  <2>3. ctx.sequence <= ctx.sequence
    BY <2>2, GateAssumption DEF Sequence
  <2> QED BY <1>4, <1>7, <2>1, <2>2, <2>3 DEF Written, CurrentIsFreshlyStamped
<1>8. ASSUME \/ \E ctx \in PublicationContext : register_publisher(ctx)
             \/ \E k \in Keys : FenceKnown(k) \/ FenceUnknown(k)
             \/ UNCHANGED gateVars
      PROVE  coordinator_epoch' = coordinator_epoch
  BY <1>8 DEF register_publisher, ReRegister, RegisterNew, FenceKnown, FenceUnknown, gateVars
<1> QED BY <1>5, <1>6, <1>7, <1>8, MigrationStepForms, NothingKept, PublishWrites, StageWrites

(* After every restart no migration is current before this incarnation has  *)
(* heard about it, and no stamp outruns its identity's watermark.           *)
THEOREM FreshlyStamped == MigrationSpec => []CurrentIsFreshlyStamped
<1>1. MigrationInit => CurrentIsFreshlyStamped
  BY DEF MigrationInit, CurrentIsFreshlyStamped
<1>2. MigrationTypeOK /\ CurrentIsFreshlyStamped /\ [MigrationNext]_migration_vars
        => CurrentIsFreshlyStamped'
  BY StepFreshlyStamped
<1> QED BY <1>1, <1>2, MigrationTypeCorrect, PTL DEF MigrationSpec

(* Once a migration is committed, rolled back or failed, no stage event, no *)
(* replay and no restart changes what is recorded of it.                    *)
THEOREM TerminalFinal == MigrationSpec => TerminalIsFinal
<1>1. ASSUME MigrationTypeOK, [MigrationNext]_migration_vars PROVE TerminalKept
  <2>1. CASE Kept
    BY <2>1 DEF Kept, TerminalKept
  <2>2. ASSUME NEW ctx \in PublicationContext, NEW id \in MigrationIds,
               NEW rec \in MigrationRecords, publish_migration(ctx, id, rec)
        PROVE  TerminalKept
    <3>1. Written(ctx, id, rec)
      BY <1>1, <2>2, PublishWrites
    <3>2. id \in DOMAIN migrations => rec.generation # migrations[id].pub.generation
      BY <1>1, <2>2, MigrationsAssumption
      DEF publish_migration, MigrationTypeOK, StoredMigration, MigrationRecord, MigrationGeneration
    <3> QED BY <3>1, <3>2 DEF Written, TerminalKept
  <2>3. ASSUME NEW ctx \in PublicationContext, NEW id \in MigrationIds,
               NEW g \in MigrationGeneration, NEW stage \in Stage,
               publish_migration_stage(ctx, id, g, stage)
        PROVE  TerminalKept
    <3>1. Written(ctx, id, WithEvent(migrations[id].pub, g, stage, ctx.sequence))
      BY <1>1, <2>3, StageWrites
    <3>2. migrations[id].pub.stage \notin Terminal
      BY <2>3 DEF publish_migration_stage
    <3> QED BY <3>1, <3>2 DEF Written, TerminalKept
  <2> QED BY <1>1, <2>1, <2>2, <2>3, MigrationStepForms, NothingKept, MigrationRestartKeeps
<1> QED BY <1>1, MigrationTypeCorrect, PTL DEF MigrationSpec, TerminalIsFinal
=============================================================================
