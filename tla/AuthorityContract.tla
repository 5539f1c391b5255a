-------------------------- MODULE AuthorityContract --------------------------
(***************************************************************************)
(* What the observatory promises about publisher authority, whatever the   *)
(* publications carry: the sequence numbers accepted from one boot         *)
(* identity never go back, a fenced identity never again has a publication *)
(* accepted nor its fence lifted, and the coordinator's epoch only grows.  *)
(* The detailed specifications (Authority, Observatory, Migrations) are    *)
(* shown to implement this one.                                            *)
(***************************************************************************)
EXTENDS Naturals

CONSTANTS Keys,               \* publisher boot identities
          Sequence            \* sequence numbers

VARIABLES epoch,              \* the coordinator incarnation
          fenced,             \* the identities that lost authority
          watermark           \* the largest accepted sequence number of each

contractVars == <<epoch, fenced, watermark>>

Init ==
  /\ epoch = 1
  /\ fenced = {}
  /\ watermark = [k \in Keys |-> 0]

(* A publication of k is accepted under sequence number s.                  *)
Accept(k, s) ==
  /\ k \notin fenced
  /\ s >= watermark[k]
  /\ watermark' = [watermark EXCEPT ![k] = s]
  /\ UNCHANGED <<epoch, fenced>>

Fence(k) ==
  /\ fenced' = fenced \cup {k}
  /\ UNCHANGED <<epoch, watermark>>

(* A restart: a new epoch, with everything known about the publishers.      *)
NewEpoch ==
  /\ epoch' = epoch + 1
  /\ UNCHANGED <<fenced, watermark>>

Next ==
  \/ \E k \in Keys : (\E s \in Sequence : Accept(k, s)) \/ Fence(k)
  \/ NewEpoch

Spec == Init /\ [][Next]_contractVars
=============================================================================
