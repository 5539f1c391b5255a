------------------------------ MODULE Samples -------------------------------
(***************************************************************************)
(* The values of a record type that the runs send, save and load, and the  *)
(* ones a receiver may hold: inputs and a reference, not code.             *)
(***************************************************************************)
EXTENDS ProtocolCodec

LOCAL INSTANCE SequencesExt

(* The records a program may hold, along the reader's fields.               *)

(* Fields that other fields of the same record determine.                   *)
Settled ==
  [kind |-> 1, generation |-> 2, stage |-> 1, destination |-> 2, supersedes |-> 0,
   custom |-> 0, required_domain_kind |-> 1, offline |-> 0, allocated |-> 0,
   reserved |-> 0, draining |-> 0, unusable |-> 0, denied_sites |-> <<>>,
   denied_clusters |-> <<>>]

RECURSIVE Sample(_, _)
(* The n-th sample of a type                                                *)
Sample(t, n) ==
  CASE t.k = "enum"  -> n - 1
    [] t.k = "bool"  -> n = 2
    [] t.k = "texts" -> <<1, 2>>
    [] t.k = "value" -> Value(2, n, <<>>)
    [] t.k \in {"list", "evidence", "capabilities"} -> <<Sample(t.of, 1), Sample(t.of, 2)>>
    [] t.k = "rec"   -> LET names == {t.fields[m].f : m \in DOMAIN t.fields} IN
                        [f \in names |->
                           IF f \in DOMAIN Settled THEN Settled[f]
                           ELSE Sample((CHOOSE m \in Values(t.fields) : m.f = f).t, n)]
    [] OTHER         -> n

(* A CapabilitySet and an EvidenceList hold what their put and add made.    *)
Collected(t, s) ==
  CASE t.k = "evidence"     -> FoldLeft(LAMBDA l, e : AddEvidence(l, e, t.max), Got(<<>>, <<>>), s)
    [] t.k = "capabilities" -> FoldLeft(LAMBDA l, e : PutCapability(l, e, t.max), Got(<<>>, <<>>), s)
    [] OTHER                -> Got(s, <<>>)

RECURSIVE Variants(_, _)
(* The values that differ from v in one place; an in-memory identifier and  *)
(* enumerator are well formed, a text may be longer than an encoder writes. *)
Variants(t, v) ==
  CASE t.k \in {"id", "required"} -> {0, 2, kMaxIdentifierLength}
    [] t.k = "str"      -> {0, kMaxStringFieldBytes, kMaxStringFieldBytes + 1}
    [] t.k = "block"    -> {0, kMaxFrameBytes, kMaxFrameBytes + 1}
    [] t.k = "enum"     -> {0, t.max}
    [] t.k \in {"key", "keyrange"} -> {1, CustomKey}
    [] t.k = "mask"     -> {0, t.max - 1}
    [] t.k = "u16"      -> {0, 2}
    [] t.k \in {"u32", "u64"} -> {0, WordMax}
    [] t.k = "i64"      -> {-1, IntMax}
    [] t.k = "bool"     -> BOOLEAN
    [] t.k = "texts"    -> {<<>>, <<2, 1>>, <<1, 1>>, [n \in 1..(t.max + 1) |-> n]}
    [] t.k = "value"    -> {Value(0, 0, <<>>), Value(1, 1, <<>>), Value(2, -1, <<>>),
                            Value(3, 5, <<>>), Value(4, 1, <<>>), Value(5, 0, <<1, 2>>),
                            Value(6, WordMax, <<>>)}
    [] t.k = "rec"      -> UNION {LET f == t.fields[n] IN
                                  {[v EXCEPT ![f.f] = x] : x \in Variants(f.t, v[f.f])}
                                  : n \in DOMAIN t.fields}
    [] OTHER            -> {s \in {<<>>, Reverse(v), [n \in 1..(t.max + 1) |-> Sample(t.of, 1)]}
                                  \cup UNION {{[v EXCEPT ![n] = x] : x \in Variants(t.of, v[n])}
                                              : n \in DOMAIN v} :
                              Collected(t, s) = Got(s, <<>>)}

RECURSIVE Admits(_, _)
(* The values of a type that a receiver may hold: the limits, the ranges    *)
(* and the validate functions, stated on the value and not on its encoding. *)
Admits(t, v) ==
  CASE t.k = "id"       -> v <= kMaxIdentifierLength
    [] t.k = "required" -> v \in 1..kMaxIdentifierLength
    [] t.k = "str"      -> v <= kMaxStringFieldBytes
    [] t.k = "block"    -> v <= kMaxFrameBytes
    [] t.k = "enum"     -> v <= t.max
    [] t.k = "key"      -> valid_capability_key(v)
    [] t.k = "keyrange" -> v <= CustomKey
    [] t.k = "mask"     -> v < t.max
    [] t.k = "texts"    -> Cardinality(Values(v)) <= t.max
    [] t.k = "value"    -> v.kind = 5 => Len(v.s) <= kMaxValueSetEntries
    [] t.k \in {"list", "evidence", "capabilities"} ->
         Len(v) <= t.max /\ \A n \in DOMAIN v : Admits(t.of, v[n])
    [] t.k = "rec"      -> /\ \A n \in DOMAIN t.fields : Admits(t.fields[n].t, v[t.fields[n].f])
                           /\ Accept(t.check, v)
    [] OTHER            -> TRUE

=============================================================================
