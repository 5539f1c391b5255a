------------------------------ MODULE Authority ------------------------------
(***************************************************************************)
(* The life of the publisher table: identities register, publish, are      *)
(* fenced, and survive a clean restart.  What a publication carries is     *)
(* left to Observatory and Migrations; here it is any publication that     *)
(* the gate lets through.  Gap counters belong to this module.             *)
(***************************************************************************)
EXTENDS Gate

VARIABLES
  gaps,       \* PublisherAuthority.gaps of each identity
  accepted,   \* history: the sequence numbers accepted from each identity
  base        \* history: where this incarnation began to count gaps

vars == <<publishers, coordinator_epoch, gaps, accepted, base>>

TypeOK ==
  /\ GateTypeOK
  /\ gaps \in [Keys -> Nat]
  /\ accepted \in [Keys -> SUBSET Sequence]
  /\ base \in [Keys -> Sequence]

Init ==
  /\ GateInit
  /\ gaps = [k \in Keys |-> 0]
  /\ accepted = [k \in Keys |-> {}]
  /\ base = [k \in Keys |-> 0]

(* Mutant of GapsAfter: every new number counts as a gap.                   *)
GapsAfterOffByOne(ctx) ==
  IF ctx.sequence > publishers[ctx.key].watermark
  THEN [gaps EXCEPT ![ctx.key] = @ + 1]
  ELSE gaps

(* finish counts one gap when the number skips past the watermark.          *)
GapsAfter(ctx) ==
  IF ctx.sequence > publishers[ctx.key].watermark + 1
  THEN [gaps EXCEPT ![ctx.key] = @ + 1]
  ELSE gaps

Accepts(ctx) ==
  accepted' = [accepted EXCEPT ![ctx.key] = @ \cup {ctx.sequence}]

(* A registration of a new identity reports the numbers it skipped in its   *)
(* reply and leaves the counter at zero.                                    *)
Register(ctx) ==
  \/ /\ RegisterNew(ctx)
     /\ base' = [base EXCEPT ![ctx.key] = ctx.sequence]
     /\ Accepts(ctx)
     /\ UNCHANGED gaps
  \/ /\ ReRegister(ctx)
     /\ gaps' = GapsAfter(ctx)
     /\ Accepts(ctx)
     /\ UNCHANGED base

(* Any accepted publication: applied, suppressed or superseded.             *)
Publish(ctx) ==
  /\ check_authority(ctx)
  /\ finish(ctx)
  /\ gaps' = GapsAfter(ctx)
  /\ Accepts(ctx)
  /\ UNCHANGED <<coordinator_epoch, base>>

Fence(k) ==
  /\ FenceKnown(k) \/ FenceUnknown(k)
  /\ UNCHANGED <<gaps, accepted, base>>

Invalidate ==
  /\ InvalidateAuthority
  /\ UNCHANGED <<gaps, accepted, base>>

(* A clean stop and start: the table is saved and restored, and the restored*)
(* entries start with a zero gap counter.                                   *)
Restart ==
  /\ RestoreAuthority
  /\ gaps' = [k \in Keys |-> 0]
  /\ base' = [k \in Keys |-> IF Known(k) THEN publishers[k].watermark ELSE 0]
  /\ UNCHANGED accepted

Next ==
  \/ \E ctx \in PublicationContext : Register(ctx) \/ Publish(ctx)
  \/ \E k \in Keys : Fence(k)
  \/ Invalidate
  \/ Restart

Spec == Init /\ [][Next]_vars

-----------------------------------------------------------------------------
(* README.md:271-275.  The gate, the registrations, the fences and the      *)
(* clean restart together implement the contract: no sequence of calls      *)
(* takes a watermark back, accepts from a fenced identity or lifts a fence. *)
ImplementsContract == Contract!Spec

(* The watermark is exactly the largest number ever accepted from the       *)
(* identity, through re-registrations, fences and restarts: nothing above   *)
(* it was acknowledged, and it was itself acknowledged.                     *)
WatermarkIsLargestAccepted ==
  \A k \in Keys :
    /\ \A s \in accepted[k] : s <= Watermark(k)
    /\ Watermark(k) # 0 => Watermark(k) \in accepted[k]

(* PublisherAuthority.gaps counts each hole in the numbers accepted since   *)
(* the identity was registered or restored, once: it is the number of       *)
(* accepted numbers whose predecessor was skipped.                          *)
GapsCountEveryHole ==
  \A k \in DOMAIN publishers :
    gaps[k] = Cardinality({s \in accepted[k] :
                 s > base[k] + 1 /\ s - 1 \notin accepted[k]})

(* observatory.cpp:440-443: max_publishers bounds the identities that hold  *)
(* or can regain authority, through registrations, fences and restarts that *)
(* clear the federations, although a fence of an identity never seen is     *)
(* recorded without asking for a place.                                     *)
AuthorisedWithinBound ==
  Cardinality(DOMAIN publishers \ FencedKeys) <= MaxPublishers
=============================================================================
