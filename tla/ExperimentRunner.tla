--------------------------- MODULE ExperimentRunner ---------------------------
(***************************************************************************)
(* The parts of tools/experiment_runner.py that compute: loading a catalog *)
(* of sweep axes, the points it stands for, the Requested Configuration of *)
(* a point (materialize), the impulse that goes with a sample, and the     *)
(* ranking of benchmarks; with the spatial sweep's isolation check, which  *)
(* compares two documents (tools/run_spatial_sweep.py).                    *)
(*                                                                         *)
(* A JSON document is a tree of tagged nodes, so that nodes of different   *)
(* kinds can be compared.  A JSON Pointer is the sequence of its tokens; a *)
(* catalog is a record whose absent fields are absent (a container of the  *)
(* wrong kind is refused where it would lack its fields).                  *)
(***************************************************************************)
EXTENDS Integers, SequencesExt

CONSTANTS
  MaxDepth,       (* Bound: how deep documents nest.                       *)
  IntegerOf,      (* int(token), for the tokens where it parses.           *)
  TokenOf(_)      (* The token that is written for an index.               *)

Leaf(v) == [kind |-> "leaf", value |-> v]
Object(fields) == [kind |-> "object", fields |-> fields]
Array(items) == [kind |-> "array", items |-> items]

(* CatalogError: the point, or the catalog, is refused.                    *)
Refused == [kind |-> "refused"]

Ops == {"add", "replace", "remove"}

(***************************************************************************)
(* Catalogs.                                                               *)
(***************************************************************************)
Distinct(seq) == IsInjective(seq)

WellFormedOperation(operation) ==
  /\ {"op", "path"} \subseteq DOMAIN operation
  /\ operation.op \in {"add", "replace"} => "value" \in DOMAIN operation

WellFormedAxis(axis) ==
  /\ {"name", "values"} \subseteq DOMAIN axis
  /\ axis.values # << >>
  /\ \A i \in DOMAIN axis.values :
       /\ {"label", "overrides"} \subseteq DOMAIN axis.values[i]
       /\ \A j \in DOMAIN axis.values[i].overrides :
            WellFormedOperation(axis.values[i].overrides[j])
  /\ Distinct([i \in DOMAIN axis.values |-> axis.values[i].label])

load_catalog(catalog) ==
  /\ {"formatVersion", "reference", "axes"} \subseteq DOMAIN catalog
  /\ catalog.formatVersion = 1
  /\ \A i \in DOMAIN catalog.axes : WellFormedAxis(catalog.axes[i])
  /\ Distinct([i \in DOMAIN catalog.axes |-> catalog.axes[i].name])

(* A directory carries the indices of its axis and of its value, and the   *)
(* label; a name carries the axis and the label only.                      *)
Reference == <<"reference">>

sweep_points(catalog) ==
  <<[name |-> Reference, directory |-> <<0>>, overrides |-> << >>]>> \o
  FlattenSeq([a \in DOMAIN catalog.axes |->
    [v \in DOMAIN catalog.axes[a].values |->
      LET value == catalog.axes[a].values[v] IN
        [name      |-> <<catalog.axes[a].name, value.label>>,
         directory |-> <<a, v, value.label>>,
         overrides |-> value.overrides]]])

(***************************************************************************)
(* The Requested Configuration of a point.                                 *)
(***************************************************************************)
EditArray(items, last, operation) ==
  LET index == IF last = "-" THEN Len(items) ELSE IntegerOf[last]
      bound == IF operation.op = "add" THEN Len(items) ELSE Len(items) - 1
  IN  IF \/ last \notin DOMAIN IntegerOf \cup {"-"}
         \/ operation.op \notin Ops
         \/ index \notin 0..bound
      THEN Refused
      ELSE Array(CASE operation.op = "remove"  -> RemoveAt(items, index + 1)
                   [] operation.op = "add"     -> InsertAt(items, index + 1, operation.value)
                   [] operation.op = "replace" -> ReplaceAt(items, index + 1, operation.value))

EditObject(fields, last, operation) ==
  IF \/ operation.op \notin Ops
     \/ operation.op # "add" /\ last \notin DOMAIN fields
  THEN Refused
  ELSE Object(IF operation.op = "remove"
              THEN [k \in DOMAIN fields \ {last} |-> fields[k]]
              ELSE (last :> operation.value) @@ fields)

EditIn(parent, last, operation) ==
  CASE parent.kind = "array"  -> EditArray(parent.items, last, operation)
    [] parent.kind = "object" -> EditObject(parent.fields, last, operation)
    [] OTHER                  -> Refused

(* One token of a pointer followed; "-" is an index for an edit only.      *)
Child(node, token) ==
  CASE node.kind = "array" /\ token \in DOMAIN IntegerOf
         /\ IntegerOf[token] \in 0..Len(node.items) - 1 -> node.items[IntegerOf[token] + 1]
    [] node.kind = "object" /\ token \in DOMAIN node.fields -> node.fields[token]
    [] OTHER -> Refused

_navigate(document, tokens) == FoldLeft(Child, document, tokens)

(* The document with the last token's parent edited, and every container   *)
(* on the way to it.                                                       *)
ApplyAt(document, tokens, operation) ==
  LET Container(n) == _navigate(document, SubSeq(tokens, 1, n - 1))
      edited == EditIn(Container(Len(tokens)), Last(tokens), operation)
      Put(n, child) ==
        IF Container(n).kind = "array"
        THEN Array(ReplaceAt(Container(n).items, IntegerOf[tokens[n]] + 1, child))
        ELSE Object([Container(n).fields EXCEPT ![tokens[n]] = child])
  IN  IF tokens = << >> \/ edited = Refused THEN Refused
      ELSE FoldRight(Put, [n \in 1..Len(tokens) - 1 |-> n], edited)

_apply_operation(document, operation) ==
  IF document = Refused \/ ~WellFormedOperation(operation) THEN Refused
  ELSE ApplyAt(document, operation.path, operation)

materialize(reference, overrides) ==
  FoldLeft(_apply_operation, reference, overrides)

(***************************************************************************)
(* Isolation: what a point changes stays within its axis's scope.          *)
(***************************************************************************)
Keys(node) ==
  CASE node.kind = "array"  -> {TokenOf(i - 1) : i \in DOMAIN node.items}
    [] node.kind = "object" -> DOMAIN node.fields
    [] OTHER                -> {}

PathsOf(document) ==
  LET OfLength[n \in 0..MaxDepth] ==
        IF n = 0 THEN {<< >>}
        ELSE UNION {{Append(path, key) : key \in Keys(_navigate(document, path))} :
                    path \in OfLength[n - 1]}
  IN  UNION {OfLength[n] : n \in 0..MaxDepth}

(* What json.loads returns of a document that nests no deeper than the     *)
(* bound.                                                                  *)
IsNode(node) ==
  CASE node.kind = "leaf"   -> node = Leaf(node.value)
    [] node.kind = "object" -> node = Object([k \in DOMAIN node.fields |-> node.fields[k]])
    [] node.kind = "array"  ->
         /\ Len(node.items) \in Nat
         /\ node = Array([i \in 1..Len(node.items) |-> node.items[i]])
         /\ \A i \in 1..Len(node.items) :
              TokenOf(i - 1) \in DOMAIN IntegerOf /\ IntegerOf[TokenOf(i - 1)] = i - 1
    [] OTHER                -> FALSE

IsDocument(document) ==
  \A path \in PathsOf(document) :
    /\ IsNode(_navigate(document, path))
    /\ Len(path) = MaxDepth => Keys(_navigate(document, path)) = {}

(* Two containers that are compared by their contents.                     *)
Alike(b, a) ==
  \/ b.kind = "object" /\ a.kind = "object"
  \/ b.kind = "array" /\ a.kind = "array" /\ Len(b.items) = Len(a.items)

(* The paths the comparison reaches, and where it finds a difference.      *)
changed_pointer_paths(before, after) ==
  LET Reached(path) == \A n \in 0..Len(path) - 1 :
        Alike(_navigate(before, SubSeq(path, 1, n)), _navigate(after, SubSeq(path, 1, n)))
      Differs(b, a) == ~Alike(b, a) /\ b # a
  IN  {path \in PathsOf(before) \cup PathsOf(after) :
         Reached(path) /\ Differs(_navigate(before, path), _navigate(after, path))}

(* A bug: one change within the scope is enough.                           *)
SomeChangeInScope(reference, materialized, scope) ==
  \E path \in changed_pointer_paths(reference, materialized) : IsPrefix(scope, path)

validate_point_isolation(reference, materialized, scope) ==
  LET changed == changed_pointer_paths(reference, materialized) IN
    /\ changed # {}
    /\ \A path \in changed : IsPrefix(scope, path)

(***************************************************************************)
(* Samples and benchmarks.                                                 *)
(***************************************************************************)
(* The curated sample is there, and is audio and not a Git LFS pointer.    *)
sample_unavailable_reason(sample) == sample.content \in {"absent", "lfs pointer"}

(* The impulse with the sample's Channel count; 0 stands for CatalogError. *)
matching_impulse(sample) ==
  IF sample.content = "audio" /\ sample.channels \in {1, 2} THEN sample.channels ELSE 0

(* The indices in their places; the first has none before it.              *)
InPlace(before) ==
  [k \in 1..Cardinality(DOMAIN before) |->
     CHOOSE i \in DOMAIN before : Cardinality(before[i]) = k - 1]

(* A bug: in the order of the points.                                      *)
RankedByPoint(medians) ==
  InPlace([i \in DOMAIN medians |-> {j \in DOMAIN medians : j < i}])

(* Slowest median first; ties stay in the order of the points.             *)
RankedBySlowest(medians) ==
  InPlace([i \in DOMAIN medians |->
             {j \in DOMAIN medians :
                medians[j] > medians[i] \/ (medians[j] = medians[i] /\ j < i)}])

(* None when the Reference has no benchmark: the caller then writes no     *)
(* summary, and leaves the one of an earlier run where it is.              *)
build_benchmark_summary(outcomes, None) ==
  LET completed == {i \in DOMAIN outcomes : outcomes[i].benchmark # None}
      medians == [i \in completed |-> outcomes[i].benchmark.median]
      references == {i \in completed : outcomes[i].name = Reference}
      ranked == RankedBySlowest(medians)
  IN  IF references = {} THEN None
      ELSE [k \in DOMAIN ranked |->
              [case   |-> outcomes[ranked[k]].name,
               median |-> medians[ranked[k]],
               delta  |-> medians[ranked[k]] - medians[CHOOSE i \in references : TRUE]]]

=============================================================================
