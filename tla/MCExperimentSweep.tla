-------------------------- MODULE MCExperimentSweep --------------------------
(* Each command with catalogs of one axis: a good one, one whose override  *)
(* was edited under the same label or its place, and ones refused in each  *)
(* way.                                                                    *)
EXTENDS ExperimentSweep

MCIntegerOf == "0" :> 0 @@ "1" :> 1 @@ "2" :> 2 @@ "-1" :> -1
MCTokenOf(index) == ToString(index)

Document == Object([depth |-> Leaf(0),
                    early |-> Object([taps |-> Array(<<Leaf(1), Leaf(2)>>), gain |-> Leaf(1)])])

Replace(path, v) == [op |-> "replace", path |-> path, value |-> Leaf(v)]
Delete(path) == [op |-> "remove", path |-> path]
Add(path, v) == [op |-> "add", path |-> path, value |-> Leaf(v)]

Axis(name, values) == [name |-> name, values |-> values]
Value(label, overrides) == [label |-> label, overrides |-> overrides]
Sweep(axes) == [formatVersion |-> 1, reference |-> Document, axes |-> axes]

(* Refused when it is loaded: two values of one label.                     *)
AmbiguousCatalog ==
  Sweep(<<Axis("depth", <<Value("low", << >>), Value("low", << >>)>>)>>)

DepthAxis(o) == Sweep(<<Axis("depth", <<Value("low", <<o>>)>>)>>)

TailCatalogs ==
  {DepthAxis(Replace(<<"early", "taps", "1">>, 3)), DepthAxis(Replace(<<"early", "taps", "-">>, 3))}

DampingCatalogs == {DepthAxis(Replace(<<"early", "gain">>, 2))}

(* A value put before the other moves the folders of both.                 *)
DepthCatalogs ==
  LET omitted == Value("omitted", <<Delete(<<"depth">>)>>)
      Zeroed(o) == Value("zero", <<o>>)
  IN  {Sweep(<<Axis("depth", values)>>) :
         values \in {<<omitted, Zeroed(Replace(<<"depth">>, 0))>>,
                    <<Zeroed(Replace(<<"missing">>, 1)), omitted>>}}

SpatialAxis(overrides) ==
  [name |-> "coherent-downmix", values |-> <<Value("sum-all", overrides)>>, scope |-> <<"early">>]

SpatialCatalogs ==
  {Sweep(<<SpatialAxis(overrides)>>) :
     overrides \in {<<Replace(<<"early", "gain">>, 2)>>,
                   <<Add(<<"early", "taps", "-">>, 3), Delete(<<"depth">>)>>,
                   <<Add(<<"early", "taps", "0">>, 3), Add(<<"early", "wide">>, 1)>>,
                   <<Replace(<<"depth">>, 0)>>}}

DiffusionCatalogs ==
  {[formatVersion |-> 1, reference |-> Document,
    cases |-> <<[name |-> Reference, overrides |-> << >>, source |-> 1],
                [name |-> <<"wide">>, overrides |-> <<o>>, source |-> 2]>>,
    listeningCases |-> <<[name |-> <<"song">>, pairedQuantitativeCase |-> <<"wide">>]>>] :
     o \in {Replace(<<"early", "gain">>, 2), Replace(<<"missing">>, 1)}}

MCCatalogs(t) == CASE t = "tail" -> TailCatalogs \cup {AmbiguousCatalog}
                   [] t = "modulation" -> DepthCatalogs
                   [] t = "spatial" -> SpatialCatalogs
                   [] t = "diffusion" -> DiffusionCatalogs
                   [] t = "damping" -> DampingCatalogs

MCSamples == {[content |-> "audio", channels |-> 1], [content |-> "audio", channels |-> 2],
              [content |-> "lfs pointer", channels |-> 1]}

(* A depth of zero is a bypass, as is no depth at all.                     *)
MCOutputOf(config) ==
  IF config.kind = "object" /\ "depth" \in DOMAIN config.fields /\ config.fields.depth = Leaf(0)
  THEN Object([k \in DOMAIN config.fields \ {"depth"} |-> config.fields[k]])
  ELSE config

=============================================================================
