------------------------------- MODULE Codec --------------------------------
(***************************************************************************)
(* The canonical encoding (foundation.cpp: Encoder and Decoder; the helper *)
(* templates of records_codec.cpp). A stream is a sequence of fields, each *)
(* with its width: a Decoder that runs past the end refuses, so a stream   *)
(* torn within a field is one torn before it. A string, with the length it *)
(* is prefixed by, is one field; "count" and "tag" are the u32 and the u8  *)
(* on which the layout of what follows depends.                            *)
(*                                                                         *)
(* A record is written and read along a list of its fields with their      *)
(* types, one list for the writer and one for the reader, as the code has  *)
(* two functions. Used by TLC only: the operators are recursive.           *)
(***************************************************************************)
EXTENDS Records

LOCAL INSTANCE SequencesExt

-----------------------------------------------------------------------------
(* The writer.                                                              *)

Field(w, v) == <<[w |-> w, v |-> v]>>

(* Encoder::fail: the encoder keeps its first error and its caller gives up.*)
Failure == Field("failed", 0)
Failed(stream) == \E n \in DOMAIN stream : stream[n].w = "failed"

i64(v) == Field("u64", v % 2^WordBits)
str(v) == IF v > kMaxStringFieldBytes THEN Failure ELSE Field("str", v)
text_block(v) == IF v > kMaxFrameBytes THEN Failure ELSE Field("block", v)

(* The lexicographic order on the fields "by"; on the values when it is <<>>*)
Before(by, a, b) ==
  IF by = <<>> THEN a < b
  ELSE \E n \in DOMAIN by :
         /\ a[by[n]] < b[by[n]]
         /\ \A m \in 1..(n - 1) : a[by[m]] = b[by[m]]
Sorted(by, s) == SortSeq(s, LAMBDA a, b : Before(by, a, b))

(* Sorted, with std::unique                                                 *)
Canonical(texts) == SetToSortSeq(Values(texts), LAMBDA a, b : a < b)

enc_text_vector(texts) ==
  LET sorted == Canonical(texts)
  IN Field("count", Len(sorted)) \o FlattenSeq([n \in DOMAIN sorted |-> str(sorted[n])])

IntMax == 2^(WordBits - 1) - 1

(* encode_capability_value; an unsigned value is written as the integer     *)
(* as_integer makes of it. kind: 0 none, 1 boolean, 2 integer, 3 number,    *)
(* 4 text, 5 text set, 6 unsigned.                                          *)
encode_capability_value(c) ==
  CASE c.kind = 1 -> Field("tag", 1) \o Field("u8", c.n)
    [] c.kind = 2 -> Field("tag", 2) \o i64(c.n)
    [] c.kind = 6 -> Field("tag", 2) \o i64(IF c.n > IntMax THEN IntMax ELSE c.n)
    [] c.kind = 3 -> Field("tag", 3) \o Field("u64", c.n)
    [] c.kind = 4 -> Field("tag", 4) \o str(c.n)
    [] c.kind = 5 -> Field("tag", 5) \o enc_text_vector(c.s)
    [] OTHER      -> Field("tag", 0)

RECURSIVE Put(_, _), PutAll(_, _), PutEach(_, _)
(* The fields of a record, and the elements of a collection, in order       *)
PutAll(fields, r) ==
  IF fields = <<>> THEN <<>>
  ELSE Put(Head(fields).t, r[Head(fields).f]) \o PutAll(Tail(fields), r)
PutEach(t, s) == IF s = <<>> THEN <<>> ELSE Put(t, Head(s)) \o PutEach(t, Tail(s))
PutMany(t, s) == Field("count", Len(s)) \o PutEach(t, s)

(* One value. "sorted" is enc_vector, "list" a loop in the caller's order.  *)
Put(t, v) ==
  CASE t.k \in {"id", "str", "required"}      -> str(v)
    [] t.k = "block"                          -> text_block(v)
    [] t.k \in {"u8", "enum"}                 -> Field("u8", v)
    [] t.k \in {"u16", "u32", "u64"}          -> Field(t.k, v)
    [] t.k = "i64"                            -> i64(v)
    [] t.k = "bool"                           -> Field("u8", IF v THEN 1 ELSE 0)
    [] t.k = "texts"                          -> enc_text_vector(v)
    [] t.k = "value"                          -> encode_capability_value(v)
    [] t.k = "sorted"                         -> PutMany(t.of, Sorted(t.by, v))
    [] t.k \in {"list", "evidence", "capabilities"} -> PutMany(t.of, v)
    [] t.k = "rec"                            -> PutAll(t.fields, v)

-----------------------------------------------------------------------------
(* The reader: what it read and what is left, or a refusal.                 *)

Got(val, rest) == [ok |-> TRUE, val |-> val, rest |-> rest]
Refused == [ok |-> FALSE]
Checked(g, P(_)) == IF g.ok /\ P(g.val) THEN g ELSE Refused
As(g, F(_)) == IF g.ok THEN Got(F(g.val), g.rest) ELSE Refused

(* Decoder::need and the fixed-width reads                                  *)
Take(w, s) ==
  IF s # <<>> /\ Head(s).w = w THEN Got(Head(s).v, Tail(s)) ELSE Refused

read_i64(s) == As(Take("u64", s), LAMBDA v : IF v > IntMax THEN v - 2^WordBits ELSE v)
read_boolean(s) == As(Checked(Take("u8", s), LAMBDA v : v <= 1), LAMBDA v : v = 1)
read_str(s) == Checked(Take("str", s), LAMBDA v : v <= kMaxStringFieldBytes)
read_text_block(s) == Checked(Take("block", s), LAMBDA v : v <= kMaxFrameBytes)

(* Mutant of dec_id: any text is taken as an identifier.                    *)
dec_id_unchecked(s) == read_str(s)

(* is_valid_identifier, or empty                                            *)
dec_id(s) == Checked(read_str(s), LAMBDA v : v <= kMaxIdentifierLength)
required_id(s) == Checked(dec_id(s), LAMBDA v : v # 0)
dec_enum(max, s) == Checked(Take("u8", s), LAMBDA v : v <= max)

RECURSIVE Get(_, _), GetAll(_, _), Repeat(_, _, _)
(* n values of type t, in order                                             *)
Repeat(n, t, s) ==
  IF n = 0 THEN Got(<<>>, s)
  ELSE LET first == Get(t, s)
           others == Repeat(n - 1, t, first.rest)
       IN IF first.ok /\ others.ok THEN Got(<<first.val>> \o others.val, others.rest)
          ELSE Refused

(* dec_vector: the count is bounded before anything is read                 *)
dec_vector(max, t, s) ==
  LET count == Checked(Take("count", s), LAMBDA n : n <= max)
  IN IF count.ok THEN Repeat(count.val, t, count.rest) ELSE Refused

dec_text_vector(max, s) ==
  As(Checked(dec_vector(max, [k |-> "str"], s), LAMBDA texts : ~has_duplicates(texts)),
     Canonical)

Value(kind, n, texts) == [kind |-> kind, n |-> n, s |-> texts]

(* CapabilityValue::text_set limits each text of a set                      *)
kMaxSetText == 256

decode_capability_value(s) ==
  LET tag == Take("tag", s) IN
  IF ~tag.ok THEN Refused ELSE
  CASE tag.val = 0 -> Got(Value(0, 0, <<>>), tag.rest)
    [] tag.val = 1 -> As(Checked(Take("u8", tag.rest), LAMBDA v : v <= 1),
                         LAMBDA v : Value(1, v, <<>>))
    [] tag.val = 2 -> As(read_i64(tag.rest), LAMBDA v : Value(2, v, <<>>))
    [] tag.val = 3 -> As(Take("u64", tag.rest), LAMBDA v : Value(3, v, <<>>))
    [] tag.val = 4 -> As(read_str(tag.rest), LAMBDA v : Value(4, v, <<>>))
    [] tag.val = 5 -> As(Checked(dec_text_vector(kMaxValueSetEntries, tag.rest),
                                 LAMBDA v : \A x \in Values(v) : x <= kMaxSetText),
                         LAMBDA v : Value(5, 0, v))
    [] OTHER       -> Refused

(* truncate_with_marker                                                     *)
Shortened(v, max) == IF v > max THEN max ELSE v
kMaxDetail == 512

(* EvidenceList::add: shortened, stored once, kept sorted, refused when full*)
EvidenceOrder ==
  <<"source", "source_id", "generation", "evidence_class", "precision", "detail">>
AddEvidence(list, evidence, max) ==
  LET ref == [evidence EXCEPT !.source_id = Shortened(@, kMaxIdentifierLength),
                              !.detail = Shortened(@, kMaxDetail)]
  IN IF ~list.ok \/ ref \in Values(list.val) THEN list
     ELSE IF Len(list.val) >= max THEN Refused
     ELSE Got(Sorted(EvidenceOrder, Append(list.val, ref)), list.rest)

(* CapabilitySet::put: the latest entry of a key replaces the earlier one   *)
EntryBefore(a, b) == Before(<<"key", "custom">>, a.key, b.key)
PutCapability(set, entry, max) ==
  LET kept == IF set.ok THEN SelectSeq(set.val, LAMBDA e : e.key # entry.key) ELSE <<>>
      new  == [entry EXCEPT !.note = Shortened(@, kMaxDetail)]
  IN IF ~set.ok THEN set
     ELSE IF ~RefOK(entry.key) \/ Len(kept) >= max THEN Refused
     ELSE Got(SortSeq(Append(kept, new), EntryBefore), set.rest)

(* The fields of a record, in order; the first refusal is the record's.     *)
GetAll(fields, s) ==
  IF fields = <<>> THEN Got(<<>>, s)
  ELSE LET first == Get(Head(fields).t, s)
           others == GetAll(Tail(fields), first.rest)
       IN IF first.ok /\ others.ok
          THEN Got((Head(fields).f :> first.val) @@ others.val, others.rest)
          ELSE Refused

(* decode_evidence_list, decode_capability_set                              *)
GetEvidence(t, s) ==
  LET items == dec_vector(kMaxEvidencePerFinding, t.of, s)
  IN IF ~items.ok THEN Refused
     ELSE FoldLeft(LAMBDA list, e : AddEvidence(list, e, t.max), Got(<<>>, items.rest), items.val)
GetCapabilities(t, s) ==
  LET items == dec_vector(kMaxCapabilityEntriesPerPublication, t.of, s)
  IN IF ~items.ok THEN Refused
     ELSE FoldLeft(LAMBDA set, e : PutCapability(set, e, t.max), Got(<<>>, items.rest), items.val)

(* What a decoder checks of a record once all its fields are read.          *)
Accept(name, v) ==
  CASE name = "federation"        -> FederationOK(v)
    [] name = "site"              -> SiteOK(v)
    [] name = "accelerator_class" -> AcceleratorClassOK(v)
    [] name = "runtime"           -> RuntimeOK(v)
    [] name = "backend"           -> BackendOK(v)
    [] name = "domain"            -> DomainOK(v)
    [] name = "cluster"           -> ClusterOK(v)
    [] name = "policy"            -> PolicyOK(v)
    [] name = "artifact"          -> ArtifactOK(v)
    [] name = "workload_class"    -> WorkloadClassOK(v)
    [] name = "workload"          -> WorkloadOK(v)
    [] name = "placement"         -> PlacementOK(v)
    [] name = "migration"         -> MigrationOK(v)
    [] name = "portability"       -> PortabilityOK(v)
    [] name = "ledger"            -> LedgerOK(v)
    [] name = "ref"               -> RefOK(v)
    [] name = "context"           -> ContextOK(v)
    [] name = "hello"             -> v.protocol = 1 /\ v.client_version <= kMaxBannerLength
    [] name = "window"            -> v.from = 0 \/ v.to = 0 \/ v.from <= v.to
    [] name = "drift"             -> v.have_intended => IntendedOK(v)
    [] OTHER                      -> TRUE

(* One value.                                                               *)
Get(t, s) ==
  CASE t.k = "id"                     -> dec_id(s)
    [] t.k = "required"               -> required_id(s)
    [] t.k = "str"                    -> read_str(s)
    [] t.k = "block"                  -> read_text_block(s)
    [] t.k = "enum"                   -> dec_enum(t.max, s)
    [] t.k = "key"                    -> Checked(Take("u16", s), valid_capability_key)
    [] t.k = "keyrange"               -> Checked(Take("u16", s), LAMBDA v : v <= CustomKey)
    [] t.k = "mask"                   -> Checked(Take("u32", s), LAMBDA v : v < t.max)
    [] t.k \in {"u16", "u32", "u64"}  -> Take(t.k, s)
    [] t.k = "i64"                    -> read_i64(s)
    [] t.k = "bool"                   -> read_boolean(s)
    [] t.k = "texts"                  -> dec_text_vector(t.max, s)
    [] t.k = "value"                  -> decode_capability_value(s)
    [] t.k = "list"                   -> dec_vector(t.max, t.of, s)
    [] t.k = "evidence"               -> GetEvidence(t, s)
    [] t.k = "capabilities"           -> GetCapabilities(t, s)
    [] t.k = "rec"                    -> Checked(GetAll(t.fields, s), LAMBDA v : Accept(t.check, v))

=============================================================================
