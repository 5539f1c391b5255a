----------------------------- MODULE StateFile ------------------------------
(***************************************************************************)
(* The contents of the state file (state_store.cpp): what a save makes of  *)
(* the captured state, the image it writes and what a load makes of the    *)
(* image.  How the file gets to its place is Durability's.                 *)
(*                                                                         *)
(* The captured state has two records of every kind that refer to one      *)
(* another, and differs from that in one collection or one currentness.    *)
(***************************************************************************)
EXTENDS Samples

LOCAL INSTANCE SequencesExt

CONSTANTS
  max_records,             \* bounds.max_federations, max_sites, ...: one limit for all
  max_persistence_bytes    \* bounds.max_persistence_bytes

VARIABLES
  state,      \* the DurableState that capture_durable_state made
  altered,    \* it is another one than Complete
  image,      \* the file: its header and payload
  damaged,    \* the file is not what was written
  stage,      \* "captured", "unsaved", "saved", "refused" or "loaded"
  restored    \* what the load returned

fileVars == <<state, altered, image, damaged, stage, restored>>

-----------------------------------------------------------------------------
encode_watermark ==
  One(Id, "publisher") \o All(Gen, <<"boot", "watermark">>) \o One(Flag, "fenced")
  \o One(Str, "fenced_reason") \o One(I64, "last_seen")
decode_watermark ==
  One(Id, "publisher") \o All(Gen, <<"boot", "watermark">>) \o One(Flag, "fenced")
  \o One(Str, "fenced_reason") \o One(I64, "last_seen")

encode_finding ==
  All(Str, <<"kind", "subject", "digest">>) \o One(I64, "generated_at")
  \o One(Gen, "snapshot_generation") \o All(Enum, <<"precision", "evidence_class">>)
decode_finding ==
  All(Str, <<"kind", "subject", "digest">>) \o One(I64, "generated_at")
  \o One(Gen, "snapshot_generation") \o One(Precision, "precision")
  \o One(EvidenceClass, "evidence_class")

(* The collections in the order of the file, each with its record's codec.  *)
Structure ==
  <<<<"federations", "federation">>, <<"sites", "site">>, <<"clusters", "cluster">>,
    <<"accelerator_classes", "accelerator_class">>, <<"runtimes", "runtime">>,
    <<"backends", "backend">>, <<"domains", "domain">>, <<"policies", "policy">>,
    <<"artifacts", "artifact">>, <<"workload_classes", "workload_class">>,
    <<"workloads", "workload">>>>
History ==
  <<<<"placements", "placement">>, <<"migrations", "migration">>,
    <<"portability", "portability">>>>
Kept == {c[2] : c \in Values(Structure \o History)}
Collections(element) ==
  LET all == Structure \o History
  IN [n \in DOMAIN all |->
        [f |-> all[n][1], t |-> ListOf(element[all[n][2]], max_records)]]

Head4 ==
  One(U32, "format_version") \o All(U64, <<"written_by_epoch", "save_sequence">>)
  \o One(I64, "saved_at")

encode_payload ==
  Head4 \o Collections([kind \in Kept |-> Rec(Codecs[kind].put)])
  \o One(ListOf(Rec(encode_watermark), max_records), "publisher_watermarks")
  \o One(ListOf(Rec(encode_finding), max_records), "aggregate_findings")

decode_payload ==
  Head4 \o Collections([kind \in Kept |-> Validated(Codecs[kind].get, kind)])
  \o One(ListOf(Rec(decode_watermark), max_records), "publisher_watermarks")
  \o One(ListOf(Rec(decode_finding), max_records), "aggregate_findings")

-----------------------------------------------------------------------------
(* Currentness: Unknown 0, Current 1, Stale 2, RevalidationRequired 3,      *)
(* Retired 4.                                                               *)

normalize_cluster(c) ==
  [c EXCEPT !.capacity_pools = <<>>, !.readiness = 0,
            !.currentness = IF @ = 4 THEN 4 ELSE 3]

NotCurrent(r) == [r EXCEPT !.currentness = IF @ = 1 THEN 2 ELSE @]

Each(F(_), s) == [n \in DOMAIN s |-> F(s[n])]

(* By the time of the observation, then by identifier                       *)
ByTime(a, b) ==
  \/ a.stamp.observed_at < b.stamp.observed_at
  \/ a.stamp.observed_at = b.stamp.observed_at /\ a.id < b.id

normalize_for_persistence(s) ==
  [s EXCEPT !.format_version = 1,
            !.clusters = Each(normalize_cluster, @), !.federations = Each(NotCurrent, @),
            !.sites = Each(NotCurrent, @), !.placements = Each(NotCurrent, @),
            !.migrations = Each(NotCurrent, @), !.portability = Each(NotCurrent, @)]

(* The order encode_durable_state puts what it writes in                    *)
InFileOrder(s) ==
  [s EXCEPT !.placements = SortSeq(@, ByTime), !.migrations = SortSeq(@, ByTime),
            !.publisher_watermarks = Sorted(<<"publisher", "boot">>, @),
            !.aggregate_findings = Sorted(<<"kind", "subject", "digest">>, @)]

durable_state_is_normalized(s) ==
  /\ \A c \in Values(s.clusters) :
       /\ c.capacity_pools = <<>>
       /\ c.readiness # 0 => c.currentness = 4
       /\ c.currentness \notin {1, 2}
  /\ \A r \in UNION {Values(s.federations), Values(s.sites), Values(s.placements),
                     Values(s.migrations), Values(s.portability)} : r.currentness # 1

(* DurableState::validate                                                   *)
Ids(s) == {s[n].id : n \in DOMAIN s}
UniqueIds(s) == Cardinality(Ids(s)) = Len(s)
Optional(id, s) == id = 0 \/ id \in Ids(s)

CountsOK(s) ==
  \A f \in DOMAIN s \ {Head4[n].f : n \in DOMAIN Head4} : Len(s[f]) <= max_records

IdentifiersOK(s) ==
  /\ \A n \in DOMAIN (Structure \o History) :
       LET f == (Structure \o History)[n][1] IN f # "portability" => UniqueIds(s[f])
  /\ \A a, b \in DOMAIN s.publisher_watermarks :
       LET x == s.publisher_watermarks[a] y == s.publisher_watermarks[b]
       IN x.publisher = y.publisher /\ x.boot = y.boot => a = b

ReferencesOK(s) ==
  /\ \A r \in Values(s.federations) : FederationOK(r)
  /\ \A r \in Values(s.sites) : SiteOK(r) /\ r.federation \in Ids(s.federations)
  /\ \A r \in Values(s.clusters) :
       /\ ClusterOK(r)
       /\ r.federation \in Ids(s.federations) /\ r.site \in Ids(s.sites)
       /\ Values(r.accelerator_classes) \subseteq Ids(s.accelerator_classes)
       /\ Values(r.runtimes) \subseteq Ids(s.runtimes)
  /\ \A r \in Values(s.workloads) :
       /\ WorkloadOK(r)
       /\ r.workload_class \in Ids(s.workload_classes)
       /\ Optional(r.artifact, s.artifacts) /\ Optional(r.policy, s.policies)
  /\ \A r \in Values(s.placements) :
       /\ PlacementOK(r)
       /\ r.workload \in Ids(s.workloads) /\ r.selected \in Ids(s.clusters)
       /\ \A c \in Values(r.candidates) : c.cluster \in Ids(s.clusters)
  /\ \A r \in Values(s.migrations) :
       /\ MigrationOK(r)
       /\ r.workload \in Ids(s.workloads) /\ {r.source, r.destination} \subseteq Ids(s.clusters)
  /\ \A r \in Values(s.portability) : PortabilityOK(r) /\ r.workload \in Ids(s.workloads)

validate(s) ==
  /\ s.format_version = 1
  /\ CountsOK(s) /\ IdentifiersOK(s) /\ ReferencesOK(s)
  /\ durable_state_is_normalized(s)

-----------------------------------------------------------------------------
kStateHeaderSize == 48

(* Mutant of image_of: the length counts the header too.                    *)
image_of_whole_length(payload) ==
  IF Failed(payload) \/ PayloadBytes(payload) > max_persistence_bytes THEN Refused
  ELSE Got([magic |-> TRUE, version |-> 1, flags |-> 0, reserved |-> 0,
            length |-> kStateHeaderSize + PayloadBytes(payload), crc |-> crc32(payload)],
           payload)

(* encode_durable_state after normalisation; the bound is on the payload.   *)
image_of(payload) ==
  IF Failed(payload) \/ PayloadBytes(payload) > max_persistence_bytes THEN Refused
  ELSE Got([magic |-> TRUE, version |-> 1, flags |-> 0, reserved |-> 0,
            length |-> PayloadBytes(payload), crc |-> crc32(payload)], payload)
encode_durable_state(s) == image_of(PutAll(encode_payload, InFileOrder(s)))

(* Mutant of header_accepted: the checksum is not compared.                 *)
header_accepted_unchecked(header, payload) ==
  /\ header.magic
  /\ kStateHeaderSize + PayloadBytes(payload) <= max_persistence_bytes
  /\ header.version = 1 /\ header.flags = 0 /\ header.reserved = 0
  /\ header.length = PayloadBytes(payload)

(* load_durable_state: the bound is on the whole file.                      *)
header_accepted(header, payload) ==
  /\ header.magic
  /\ kStateHeaderSize + PayloadBytes(payload) <= max_persistence_bytes
  /\ header.version = 1 /\ header.flags = 0 /\ header.reserved = 0
  /\ header.length = PayloadBytes(payload)
  /\ header.crc = crc32(payload)
payload_accepted(got) ==
  got.ok /\ got.val.format_version = 1 /\ got.rest = <<>> /\ validate(got.val)

-----------------------------------------------------------------------------
(* Two placements, and two migrations, of which the second is the older.    *)
Older(r) == [r EXCEPT !.id = 2, !.stamp.observed_at = 0]
Complete ==
  LET s == Sample(Rec(decode_payload), 1)
  IN [s EXCEPT !.placements = <<@[1], Older(@[1])>>, !.migrations = <<@[1], Older(@[1])>>]
NoFile == [header |-> [magic |-> FALSE], payload |-> <<>>]

FileInit ==
  /\ state = Complete /\ altered = FALSE
  /\ image = NoFile /\ damaged = FALSE /\ stage = "captured" /\ restored = <<>>

Collection == {c[1] : c \in Values(Structure \o History)}
                 \cup {"publisher_watermarks", "aggregate_findings"}

(* Other states the runtime may have captured; over a limit, with a         *)
(* reference left open, in another order, with the largest numbers.         *)
Capture ==
  /\ stage = "captured" /\ ~altered
  /\ \/ \E f \in Collection :
          state' \in {[state EXCEPT ![f] = <<>>], [state EXCEPT ![f] = Tail(@)],
                      [state EXCEPT ![f] = Reverse(@)], [state EXCEPT ![f] = @ \o @]}
     \/ \E f \in Collection \ {"publisher_watermarks", "aggregate_findings"}, c \in 0..4 :
          state' = [state EXCEPT ![f][1].currentness = c]
     \/ state' = [state EXCEPT !.publisher_watermarks[1].watermark = WordMax]
     \/ \E more \in {1, kStateHeaderSize, kStateHeaderSize + 1, kMaxStringFieldBytes} :
          state' = [state EXCEPT !.aggregate_findings[1].digest = @ + more]
  /\ state' # state /\ altered' = TRUE
  /\ UNCHANGED <<image, damaged, stage, restored>>

(* save_durable_state up to the writing of the file                         *)
Saved(normalized, made) ==
  IF validate(normalized) /\ made.ok
  THEN /\ image' = [header |-> made.val, payload |-> made.rest]
       /\ stage' = "saved"
  ELSE stage' = "unsaved" /\ UNCHANGED image
save_durable_state ==
  LET normalized == normalize_for_persistence(state) IN
  /\ stage = "captured"
  /\ Saved(normalized, encode_durable_state(normalized))
  /\ UNCHANGED <<state, altered, damaged, restored>>

(* The disk, or a person, changes the file.                                 *)
DamageFile ==
  /\ stage = "saved" /\ ~damaged /\ ~altered
  /\ \/ \E n \in DOMAIN image.payload : image' = [image EXCEPT !.payload[n].v = @ + 1]
     \/ \E n \in {1, Len(image.payload) \div 2} :
          image' = [image EXCEPT !.payload = SubSeq(@, 1, n)]
     \/ image' = [image EXCEPT !.payload = Append(@, [w |-> "u8", v |-> 0])]
     \/ image' \in {[image EXCEPT !.header.magic = FALSE], [image EXCEPT !.header.flags = 1]}
  /\ damaged' = TRUE
  /\ UNCHANGED <<state, altered, stage, restored>>

Loaded(got) ==
  IF header_accepted(image.header, image.payload) /\ payload_accepted(got)
  THEN stage' = "loaded" /\ restored' = got.val
  ELSE stage' = "refused" /\ UNCHANGED restored
load_durable_state ==
  /\ stage = "saved"
  /\ Loaded(Get(Rec(decode_payload), image.payload))
  /\ UNCHANGED <<state, altered, image, damaged>>

FileNext == Capture \/ save_durable_state \/ DamageFile \/ load_durable_state

FileSpec == FileInit /\ [][FileNext]_fileVars

-----------------------------------------------------------------------------
(* state_store.cpp:178-212, 472-552, 554-590: what a load returns is what   *)
(* was saved, in the order of the file, with everything dynamic gone; a     *)
(* file that was damaged is refused as a whole, never restored in part.     *)
RestoredIsSaved ==
  stage = "loaded" => restored = InFileOrder(normalize_for_persistence(state))

(* state_store.cpp:178-181: "a state that is accepted on save is            *)
(* byte-identical to the state a loader will accept".  An undamaged file is *)
(* refused only when it is its header that takes it over the bound, which   *)
(* a save does not count.                                                   *)
SavedIsLoadable ==
  stage = "refused" /\ ~damaged
  => PayloadBytes(image.payload)
       \in (max_persistence_bytes - kStateHeaderSize + 1)..max_persistence_bytes
=============================================================================
