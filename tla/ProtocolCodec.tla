--------------------------- MODULE ProtocolCodec ----------------------------
(***************************************************************************)
(* The payloads of the wire protocol and the frame that carries one        *)
(* (protocol.cpp). The payload of a publication is its context followed by *)
(* the record, in the record's own encoding.                               *)
(***************************************************************************)
EXTENDS RecordsCodec

CONSTANTS
  kMaxReplyRows, kMaxRowFields, kMaxDriftCapabilities,   \* limits of decode_reply and decode_drift_query
  max_frame_bytes                                        \* Bounds::max_frame_bytes

ErrorCode == EnumTo(24)
IngestDisposition == EnumTo(3)
Required == Plain("required")

encode_publication_context ==
  One(Id, "publisher") \o All(Gen, <<"boot", "coordinator_epoch">>) \o One(Id, "federation")
  \o All(Gen, <<"federation_generation", "sequence">>) \o One(I64, "observed_at")
  \o All(Enum, <<"precision", "evidence_class", "provenance">>)
  \o One(Gen, "evidence_generation")
decode_publication_context ==
  One(Id, "publisher") \o All(Gen, <<"boot", "coordinator_epoch">>) \o One(Id, "federation")
  \o All(Gen, <<"federation_generation", "sequence">>) \o One(I64, "observed_at")
  \o One(Precision, "precision") \o One(EvidenceClass, "evidence_class")
  \o One(Provenance, "provenance") \o One(Gen, "evidence_generation")

encode_hello == One(Plain("u16"), "protocol") \o One(Str, "client_version") \o One(Id, "publisher")
decode_hello == encode_hello

encode_hello_reply ==
  One(Plain("u16"), "protocol") \o One(Str, "server_version") \o One(Gen, "epoch")
  \o One(Str, "coordinator_id")
decode_hello_reply == encode_hello_reply

encode_register_publisher == One(Str, "role")
decode_register_publisher == encode_register_publisher

encode_publication_ack ==
  All(Enum, <<"disposition", "code">>) \o One(Str, "detail")
  \o All(U64, <<"watermark", "sequence_gap">>)
decode_publication_ack ==
  One(IngestDisposition, "disposition") \o One(ErrorCode, "code") \o One(Str, "detail")
  \o All(U64, <<"watermark", "sequence_gap">>)

(* Rows are lists of named fields.                                          *)
Row(max) == Rec(One(ListOf(Rec(All(Str, <<"name", "value">>)), max), "fields"))
encode_reply ==
  One(Enum, "code") \o One(Str, "message") \o One(Plain("block"), "detail")
  \o One(Str, "digest") \o One(Plain("block"), "text") \o One(ListOf(Row(0), 0), "rows")
decode_reply ==
  One(ErrorCode, "code") \o One(Str, "message") \o One(Plain("block"), "detail")
  \o One(Str, "digest") \o One(Plain("block"), "text")
  \o One(ListOf(Row(kMaxRowFields), kMaxReplyRows), "rows")

encode_fence == One(Id, "publisher") \o One(Gen, "boot") \o All(Str, <<"reason", "token">>)
decode_fence == encode_fence

encode_retire_cluster == One(Id, "cluster") \o One(Gen, "generation") \o One(Str, "reason")
decode_retire_cluster == One(Required, "cluster") \o One(Gen, "generation") \o One(Str, "reason")

encode_migration_stage ==
  One(Id, "migration") \o One(Gen, "generation") \o One(Enum, "stage") \o One(Str, "detail")
decode_migration_stage ==
  One(Required, "migration") \o One(Gen, "generation") \o One(MigrationStage, "stage")
  \o One(Str, "detail")

encode_capability_publication ==
  One(Id, "cluster") \o All(Gen, <<"cluster_generation", "capability_generation">>)
  \o One(encode_capability_set, "capabilities")
decode_capability_publication ==
  One(Required, "cluster") \o All(Gen, <<"cluster_generation", "capability_generation">>)
  \o One(decode_capability_set, "capabilities")

encode_capacity_publication ==
  One(Id, "cluster") \o All(Gen, <<"cluster_generation", "capacity_generation">>)
  \o One(ListOf(Rec(encode_capacity_pool), 0), "pools")
decode_capacity_publication ==
  One(Required, "cluster") \o All(Gen, <<"cluster_generation", "capacity_generation">>)
  \o One(ListOf(Rec(decode_capacity_pool), kMaxPoolsPerCluster), "pools")

encode_snapshot_query == One(Id, "federation") \o One(U64, "max_records") \o One(Flag, "include_history")
decode_snapshot_query == encode_snapshot_query

encode_placement_query == All(Id, <<"placement", "workload">>) \o One(Flag, "latest_by_workload")
decode_placement_query == encode_placement_query

encode_rejection_query == All(Id, <<"placement", "candidate">>)
decode_rejection_query == All(Required, <<"placement", "candidate">>)

encode_stranded_query ==
  All(Id, <<"federation", "workload_class">>) \o One(Enum, "kind")
  \o All(Id, <<"cluster", "accelerator_class">>) \o One(Flag, "include_stale")
decode_stranded_query ==
  All(Id, <<"federation", "workload_class">>) \o One(ResourceKind, "kind")
  \o All(Id, <<"cluster", "accelerator_class">>) \o One(Flag, "include_stale")

encode_fragmentation_query == All(Id, <<"federation", "workload_class">>) \o One(Enum, "kind")
decode_fragmentation_query ==
  One(Id, "federation") \o One(Required, "workload_class") \o One(ResourceKind, "kind")

encode_compatibility_query == All(Id, <<"cluster", "workload">>)
decode_compatibility_query == All(Required, <<"cluster", "workload">>)

encode_portability_query == All(Id, <<"workload", "destination">>) \o One(Flag, "evaluate")
decode_portability_query == All(Required, <<"workload", "destination">>) \o One(Flag, "evaluate")

encode_migration_query == One(Id, "migration")
decode_migration_query == One(Required, "migration")

encode_mismatch_query ==
  One(Id, "federation") \o One(Plain("u16"), "key") \o One(Id, "custom")
  \o All(I64, <<"from", "to">>) \o One(Enum, "kind") \o One(Flag, "include_stale")
decode_mismatch_query ==
  One(Id, "federation") \o One(Plain("keyrange"), "key") \o One(Id, "custom")
  \o All(I64, <<"from", "to">>) \o One(ResourceKind, "kind") \o One(Flag, "include_stale")

(* The intended state of a drift query: its collections, and their limits.  *)
DriftIds(t) == ListOf(t, kMaxDriftEntries)
encode_drift_query ==
  One(Id, "federation") \o One(Flag, "have_intended") \o One(Id, "intended_federation")
  \o One(Gen, "generation") \o All(DriftIds(Id), <<"expected_sites", "expected_clusters">>)
  \o One(ListOf(Rec(One(Id, "cluster") \o One(Rec(encode_capability_ref), "key")
                    \o One(CapValue, "value") \o One(Enum, "comparator")), 0),
         "expected_capabilities")
  \o One(DriftIds(Rec(One(Id, "cluster") \o One(Str, "version"))), "expected_runtime_versions")
  \o One(DriftIds(Rec(One(Id, "cluster") \o One(Rec(encode_ledger), "ledger"))), "expected_capacity")
  \o One(Gen, "expected_policy_generation") \o All(Enum, <<"precision", "evidence_class">>)
  \o One(Flag, "behavior_window_supplied")
  \o All(I64, <<"before_from", "before_to", "after_from", "after_to">>)
decode_drift_query ==
  One(Id, "federation") \o One(Flag, "have_intended") \o One(Id, "intended_federation")
  \o One(Gen, "generation") \o All(DriftIds(Required), <<"expected_sites", "expected_clusters">>)
  \o One(ListOf(Rec(One(Required, "cluster") \o One(decode_capability_ref, "key")
                    \o One(CapValue, "value") \o One(CapabilityComparator, "comparator")),
                kMaxDriftCapabilities),
         "expected_capabilities")
  \o One(DriftIds(Rec(One(Required, "cluster") \o One(Str, "version"))),
         "expected_runtime_versions")
  \o One(DriftIds(Rec(One(Required, "cluster") \o One(decode_ledger, "ledger"))),
         "expected_capacity")
  \o One(Gen, "expected_policy_generation") \o One(Precision, "precision")
  \o One(EvidenceClass, "evidence_class") \o One(Flag, "behavior_window_supplied")
  \o All(I64, <<"before_from", "before_to", "after_from", "after_to">>)

-----------------------------------------------------------------------------
(* The codec of each kind of payload: what is written, what is read and     *)
(* which check ends the reading.                                            *)
Codecs ==
  ("federation"        :> [put |-> encode_federation, get |-> decode_federation])
  @@ ("site"           :> [put |-> encode_site, get |-> decode_site])
  @@ ("accelerator_class" :> [put |-> encode_accelerator_class, get |-> decode_accelerator_class])
  @@ ("runtime"        :> [put |-> encode_runtime, get |-> decode_runtime])
  @@ ("backend"        :> [put |-> encode_backend, get |-> decode_backend])
  @@ ("domain"         :> [put |-> encode_domain, get |-> decode_domain])
  @@ ("cluster"        :> [put |-> encode_cluster, get |-> decode_cluster])
  @@ ("policy"         :> [put |-> encode_policy, get |-> decode_policy])
  @@ ("artifact"       :> [put |-> encode_artifact, get |-> decode_artifact])
  @@ ("workload_class" :> [put |-> encode_workload_class, get |-> decode_workload_class])
  @@ ("workload"       :> [put |-> encode_workload, get |-> decode_workload])
  @@ ("placement"      :> [put |-> encode_placement, get |-> decode_placement])
  @@ ("migration"      :> [put |-> encode_migration, get |-> decode_migration])
  @@ ("portability"    :> [put |-> encode_portability, get |-> decode_portability])
  @@ ("publisher"      :> [put |-> encode_register_publisher, get |-> decode_register_publisher])
  @@ ("retire"         :> [put |-> encode_retire_cluster, get |-> decode_retire_cluster])
  @@ ("stage"          :> [put |-> encode_migration_stage, get |-> decode_migration_stage])
  @@ ("capability"     :> [put |-> encode_capability_publication, get |-> decode_capability_publication])
  @@ ("capacity"       :> [put |-> encode_capacity_publication, get |-> decode_capacity_publication])
  @@ ("hello"          :> [put |-> encode_hello, get |-> decode_hello])
  @@ ("hello_reply"    :> [put |-> encode_hello_reply, get |-> decode_hello_reply])
  @@ ("ack"            :> [put |-> encode_publication_ack, get |-> decode_publication_ack])
  @@ ("reply"          :> [put |-> encode_reply, get |-> decode_reply])
  @@ ("fence"          :> [put |-> encode_fence, get |-> decode_fence])
  @@ ("query_snapshot" :> [put |-> encode_snapshot_query, get |-> decode_snapshot_query])
  @@ ("query_placement" :> [put |-> encode_placement_query, get |-> decode_placement_query])
  @@ ("query_rejection" :> [put |-> encode_rejection_query, get |-> decode_rejection_query])
  @@ ("query_stranded" :> [put |-> encode_stranded_query, get |-> decode_stranded_query])
  @@ ("query_fragmentation" :> [put |-> encode_fragmentation_query, get |-> decode_fragmentation_query])
  @@ ("query_compatibility" :> [put |-> encode_compatibility_query, get |-> decode_compatibility_query])
  @@ ("query_portability" :> [put |-> encode_portability_query, get |-> decode_portability_query])
  @@ ("query_migration" :> [put |-> encode_migration_query, get |-> decode_migration_query])
  @@ ("window"         :> [put |-> encode_mismatch_query, get |-> decode_mismatch_query])
  @@ ("drift"          :> [put |-> encode_drift_query, get |-> decode_drift_query])

(* The publications: RegisterPublisher, the FO_ENCODE_PUBLICATION records   *)
(* and the three requests that begin with a context of their own.           *)
Publications ==
  {"federation", "site", "accelerator_class", "runtime", "backend", "domain", "cluster",
   "policy", "artifact", "workload_class", "workload", "placement", "migration",
   "portability", "publisher", "retire", "stage", "capability", "capacity"}

Kinds == Publications \cup
  {"hello", "hello_reply", "ack", "reply", "fence", "query_snapshot", "query_placement",
   "query_rejection", "query_stranded", "query_fragmentation", "query_compatibility",
   "query_portability", "query_migration", "window", "drift"}

(* encode_publication and decode_publication: the context, then the record  *)
WriterOf(kind) ==
  (IF kind \in Publications THEN One(Rec(encode_publication_context), "context") ELSE <<>>)
  \o One(Rec(Codecs[kind].put), "record")
ReaderOf(kind) ==
  (IF kind \in Publications
   THEN One(Validated(decode_publication_context, "context"), "context") ELSE <<>>)
  \o One(Validated(Codecs[kind].get, kind), "record")

-----------------------------------------------------------------------------
(* Frames. The header is one unit; the checksum covers the payload only.    *)

BytesOf(field) ==
  CASE field.w \in {"u8", "tag"}      -> 1
    [] field.w = "u16"                -> 2
    [] field.w \in {"u32", "count"}   -> 4
    [] field.w = "u64"                -> 8
    [] OTHER                          -> 4 + field.v
RECURSIVE BytesBetween(_, _, _)
BytesBetween(payload, a, b) ==
  IF a > b THEN 0
  ELSE IF a = b THEN BytesOf(payload[a])
  ELSE LET middle == (a + b) \div 2
       IN BytesBetween(payload, a, middle) + BytesBetween(payload, middle + 1, b)
PayloadBytes(payload) == BytesBetween(payload, 1, Len(payload))

(* crc32, taken to tell different payloads apart                            *)
crc32(payload) == payload

(* The messages a coordinator sends; a PublicationAck and a ReplyPayload    *)
(* both travel as a Reply.                                                  *)
Replies == {"hello_reply", "ack", "reply"}
TypeOf(kind) == IF kind = "ack" THEN "reply" ELSE kind

(* The requests without a payload that dispatch reads.                      *)
Bodiless == {"heartbeat", "query_health", "query_bounds", "shutdown"}
MessageType ==
  {TypeOf(k) : k \in Kinds} \cup Bodiless \cup {"heartbeat_ack", "failure"}

(* known_message_type: the known numbers are a range with gaps between the  *)
(* groups, and a number in a gap passes.                                    *)
known_message_type(type) == type \in MessageType \cup {"unassigned"}

FrameFlags == [none |-> 0, request |-> 1, reply |-> 2, urgent |-> 4]

encode_frame(frame, payload) ==
  IF ~known_message_type(frame.type) \/ PayloadBytes(payload) > max_frame_bytes THEN Refused
  ELSE Got([magic |-> TRUE, version |-> 1, type |-> frame.type, flags |-> frame.flags,
            reserved |-> 0, request_id |-> frame.request_id,
            length |-> PayloadBytes(payload), crc |-> crc32(payload)], payload)

FrameIn(header, payload) ==
  Got([type |-> header.type, flags |-> header.flags, request_id |-> header.request_id], payload)

(* Mutant of decode_frame: the payload is not compared with its checksum.   *)
decode_frame_unchecked(header, payload) ==
  IF /\ header.magic /\ header.version = 1 /\ known_message_type(header.type)
     /\ header.reserved = 0
     /\ header.length <= max_frame_bytes /\ header.length = PayloadBytes(payload)
  THEN FrameIn(header, payload)
  ELSE Refused

decode_frame(header, payload) ==
  IF /\ header.magic
     /\ header.version = 1
     /\ known_message_type(header.type)
     /\ header.reserved = 0
     /\ header.length <= max_frame_bytes
     /\ header.length = PayloadBytes(payload)
     /\ header.crc = crc32(payload)
  THEN FrameIn(header, payload)
  ELSE Refused

=============================================================================
