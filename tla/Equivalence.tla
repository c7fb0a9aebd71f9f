----------------------------- MODULE Equivalence -----------------------------
(***************************************************************************)
(* Cross-platform equivalence.  On each platform an analyzed Render Result *)
(* is reduced to a summary (extract_*.py), and the summaries of all        *)
(* platforms, grouped by sample precision, are compared (compare_*.py):    *)
(* diffusion and tail-v1 against one baseline, tail-v2 and modulation in   *)
(* every pair.  Here is the job of one platform, the analyzers at work in  *)
(* it, and the comparison of its summaries with those of the others.       *)
(*                                                                         *)
(* What an analyzer measured is a record: a band's decay fit, or None; a   *)
(* level; a flag; how far a Modulation's rate stands out of the spectrum,  *)
(* or None where there is no spectrum; and the number of density bins.     *)
(***************************************************************************)
EXTENDS Analyzers

CONSTANTS Platform,         \* this platform
          Elsewhere(_),     \* what the others may have for a render: sequences of
                            \* their metadata and evidence
          Architecture,     \* of each platform
          LabelOrder,       \* the platforms in the order of their labels
          Tolerance(_, _)   \* of a tool's metrics, for a class of pairs

Compared == {"diffusion", "tail-v1", "tail-v2", "modulation"}
Classes == {"any", "sameArchitecture", "crossArchitecture"}

Bins == <<"bin-0", "bin-1">>

Measurement(m) == /\ m.level \in Int /\ m.bins \in 0..Len(Bins)
                  /\ m.fit \in Int \cup {None} /\ m.relative \in Int \cup {None}

(* Every platform has a label of its own, and renders once per precision   *)
(* (ci.yml); the tolerances are those committed with the tools.            *)
ASSUME EquivalenceAssumption ==
  /\ None \notin Int
  /\ LabelOrder \in Seq(ToSet(LabelOrder)) /\ Platform \in ToSet(LabelOrder)
  /\ \A t \in Compared, class \in Classes : Tolerance(t, class) \in Nat
  /\ Measurement(OtherMeasured)
  /\ \A r \in Renders :
       /\ Measurement(r.measured)
       /\ \A others \in Elsewhere(r) :
            /\ others \in Seq(ToSet(others))
            /\ \A i \in DOMAIN others :
                 /\ Measurement(others[i].evidence.measured)
                 /\ others[i].metadata.platform \in ToSet(LabelOrder)
                 /\ <<others[i].metadata.platform, others[i].metadata.precision>>
                      # <<Platform, r.precision>>
            /\ \A i, j \in DOMAIN others :
                 i # j => <<others[i].metadata.platform, others[i].metadata.precision>>
                            # <<others[j].metadata.platform, others[j].metadata.precision>>

VARIABLES summary,   \* summary[t]: this platform's, None, or Partial
          report     \* report[t]: what was compared and how it ended, or None

equivalenceVars == <<summary, report>>
vars == <<analyzerVars, equivalenceVars>>

-----------------------------------------------------------------------------
(* The extractors: what is kept of the evidence, beside the metadata.      *)
Entry(metadata, measured) ==
  [platform |-> metadata.platform, precision |-> metadata.precision, measured |-> measured]

extract_diffusion(metadata, e) ==
  Entry(metadata, [level |-> e.measured.level, bins |-> e.measured.bins])

extract_tail(metadata, e) ==
  Entry(metadata, [level |-> e.measured.level, flag |-> e.measured.flag, fit |-> e.measured.fit])

extract_tail_v2(metadata, e) ==
  Entry(metadata, [level |-> e.measured.level, flag |-> e.measured.flag, fit |-> e.measured.fit,
                   relativeError |-> e.measured.fit])

extract_modulation(metadata, e) ==
  Entry(metadata, [level |-> e.measured.level, flag |-> e.measured.flag, fit |-> e.measured.fit,
                   relativeError |-> e.measured.fit, relative |-> e.measured.relative,
                   activeCount |-> Cardinality(e.active)])

extract(t, metadata, e) == CASE t = "diffusion"  -> extract_diffusion(metadata, e)
                             [] t = "tail-v1"    -> extract_tail(metadata, e)
                             [] t = "tail-v2"    -> extract_tail_v2(metadata, e)
                             [] t = "modulation" -> extract_modulation(metadata, e)

-----------------------------------------------------------------------------
(* The comparisons.  A metric of a summary is a number, compared to within *)
(* a tolerance, or a structural fact, compared exactly; one that is None   *)
(* is not among the numbers.                                               *)
Optional(m, name) == IF m[name] = None THEN {} ELSE {name}

numeric_diffusion(m) == [n \in {"level"} \cup {Bins[i] : i \in 1..m.bins} |-> m.level]
structural_diffusion(m) == [binCount |-> m.bins]

numeric_tail(m) == [n \in {"level"} \cup Optional(m, "fit") |-> m[n]]
structural_tail(m) == [present |-> m.fit # None, flag |-> m.flag]

numeric_tail_v2(m) ==
  [n \in {"level"} \cup Optional(m, "fit") \cup Optional(m, "relativeError") |-> m[n]]
structural_tail_v2(m) == [present |-> m.fit # None, flag |-> m.flag]

numeric_modulation(m) ==
  [n \in {"level"} \cup Optional(m, "fit") \cup Optional(m, "relativeError")
            \cup Optional(m, "relative") |-> m[n]]
structural_modulation(m) ==
  [present |-> m.fit # None, flag |-> m.flag, activeCount |-> m.activeCount]

Distance(a, b) == IF a < b THEN b - a ELSE a - b

(* Every metric of the first has its counterpart in the second ...         *)
Covers(first, second) == DOMAIN first \subseteq DOMAIN second

(* ... within the tolerance.                                               *)
Near(first, second, tolerance) ==
  \A n \in DOMAIN first : Distance(first[n], second[n]) <= tolerance

Same(first, second) == \A n \in DOMAIN first : first[n] = second[n]

Rank(entry) == CHOOSE i \in DOMAIN LabelOrder : LabelOrder[i] = entry.platform

(* A group is the entries of one precision, at their places on the command *)
(* line; they are sorted by label, those of one label as they came.        *)
Before(group, i, j) == \/ Rank(group[i]) < Rank(group[j])
                       \/ Rank(group[i]) = Rank(group[j]) /\ i < j

(* The first of macOS on arm64, or the first label.                        *)
choose_baseline(group) ==
  LET Arm == {i \in DOMAIN group : group[i].platform = "macos-arm64"}
  IN  IF Arm # {}
      THEN group[CHOOSE i \in Arm : \A j \in Arm : i <= j]
      ELSE group[CHOOSE i \in DOMAIN group : \A j \in DOMAIN group \ {i} : Before(group, i, j)]

Candidates(group) == ToSet(group) \ {choose_baseline(group)}

(* A metric the candidate lacks is a KeyError.                             *)
compare_diffusion(group) ==
  LET Numbers(e) == numeric_diffusion(e.measured)
      Facts(e) == structural_diffusion(e.measured)
      base == choose_baseline(group)
  IN  IF \E e \in Candidates(group) : ~Covers(Numbers(base), Numbers(e)) THEN "error"
      ELSE IF \A e \in Candidates(group) :
                /\ Same(Facts(base), Facts(e))
                /\ Near(Numbers(base), Numbers(e), Tolerance("diffusion", "any"))
           THEN "pass" ELSE "fail"

(* A metric the candidate lacks is a row of its own, which fails.          *)
compare_tail(group) ==
  LET Numbers(e) == numeric_tail(e.measured)
      Facts(e) == structural_tail(e.measured)
      base == choose_baseline(group)
  IN  IF \A e \in Candidates(group) :
           /\ Covers(Numbers(base), Numbers(e))
           /\ Same(Facts(base), Facts(e))
           /\ Near(Numbers(base), Numbers(e), Tolerance("tail-v1", "any"))
      THEN "pass" ELSE "fail"

Class(a, b) == IF Architecture[a.platform] = Architecture[b.platform]
               THEN "sameArchitecture" ELSE "crossArchitecture"

compare_pair_v2(first, second) ==
  LET Numbers(e) == numeric_tail_v2(e.measured)
      Facts(e) == structural_tail_v2(e.measured)
  IN  /\ Covers(Numbers(first), Numbers(second))
      /\ Same(Facts(first), Facts(second))
      /\ Near(Numbers(first), Numbers(second), Tolerance("tail-v2", Class(first, second)))

compare_pair_modulation(first, second) ==
  LET Numbers(e) == numeric_modulation(e.measured)
      Facts(e) == structural_modulation(e.measured)
  IN  /\ Covers(Numbers(first), Numbers(second))
      /\ Same(Facts(first), Facts(second))
      /\ Near(Numbers(first), Numbers(second), Tolerance("modulation", Class(first, second)))

compare_pair(t, first, second) ==
  IF t = "tail-v2" THEN compare_pair_v2(first, second) ELSE compare_pair_modulation(first, second)

(* A bug: the platforms are compared in a chain.                           *)
EveryNeighbour(t, group) ==
  \A i, j \in DOMAIN group :
    /\ Before(group, i, j)
    /\ \A k \in DOMAIN group : ~(Before(group, i, k) /\ Before(group, k, j))
    => compare_pair(t, group[i], group[j])

EveryPair(t, group) ==
  \A i, j \in DOMAIN group : Before(group, i, j) => compare_pair(t, group[i], group[j])

compare_group(t, group) ==
  CASE t = "diffusion" -> compare_diffusion(group)
    [] t = "tail-v1"   -> compare_tail(group)
    [] OTHER           -> IF EveryPair(t, group) THEN "pass" ELSE "fail"

(* A precision that one platform only reports is skipped, and passes; an   *)
(* error in one group ends the comparison.                                 *)
compare(t, entries) ==
  LET Group(precision) ==
        Restrict(entries, {i \in DOMAIN entries : entries[i].precision = precision})
      groups == {Group(entries[i].precision) : i \in DOMAIN entries}
      verdicts == {compare_group(t, group) :
                     group \in {g \in groups : Cardinality(DOMAIN g) >= 2}}
  IN  IF "error" \in verdicts THEN "error"
      ELSE IF "fail" \in verdicts THEN "fail" ELSE "pass"

-----------------------------------------------------------------------------
EquivalenceInit == /\ summary = [t \in Compared |-> None]
                   /\ report = [t \in Compared |-> None]

Init == AnalyzerInit /\ EquivalenceInit

Here == [platform |-> Platform, precision |-> render.precision]

(* The summary is written over what was there; without evidence there is   *)
(* none, and the extractor exits 1.                                        *)
Extract(t) == /\ artifact[t] # None
              /\ summary' = [summary EXCEPT ![t] = extract(t, Here, artifact[t])]
              /\ UNCHANGED <<analyzerVars, report>>

(* It is not written atomically.                                           *)
ExtractKilled(t) == /\ artifact[t] # None
                    /\ changes < MaxChanges
                    /\ changes' = changes + 1
                    /\ summary' = [summary EXCEPT ![t] = Partial]
                    /\ UNCHANGED <<publicationVars, render, resolved, file, tool, seen, report>>

(* The comparison waits for the jobs of all platforms, and has their       *)
(* summaries in the order of the command line, this one last.              *)
Compare(t) ==
  /\ \A w \in Workers : pc[w] \in {"idle", "done", "dead"}
  /\ summary[t] # None /\ report[t] = None
  /\ \E others \in Elsewhere(render) :
       LET elsewhere == [i \in DOMAIN others |-> extract(t, others[i].metadata, others[i].evidence)]
           entries == Append(elsewhere, summary[t])
       IN  report' = [report EXCEPT ![t] =
             IF summary[t] = Partial THEN [entries |-> << >>, verdict |-> "error"]
             ELSE [entries |-> entries, verdict |-> compare(t, entries)]]
  /\ UNCHANGED <<analyzerVars, summary>>

Next == \/ AnalyzerNext /\ UNCHANGED equivalenceVars
        \/ \E t \in Compared : Extract(t) \/ ExtractKilled(t) \/ Compare(t)

Spec == Init /\ [][Next]_vars

-----------------------------------------------------------------------------
(* The numbers of a summary of the tool t.                                 *)
Numbers(t, e) == CASE t = "diffusion"  -> numeric_diffusion(e.measured)
                   [] t = "tail-v1"    -> numeric_tail(e.measured)
                   [] t = "tail-v2"    -> numeric_tail_v2(e.measured)
                   [] t = "modulation" -> numeric_modulation(e.measured)

(* How far two platforms may be apart in a comparison that passes: each    *)
(* candidate is within the tolerance of the baseline, so that two of them  *)
(* are within twice that; pairs are held to the tolerance of their class.  *)
Apart(t, a, b) == IF t \in {"diffusion", "tail-v1"} THEN 2 * Tolerance(t, "any")
                  ELSE Tolerance(t, Class(a, b))

(* A comparison that passes holds of every two platforms of one precision, *)
(* not only of those that were looked at: they measured the same things    *)
(* (None on neither or on both) to within the tolerance.  And what it says *)
(* does not depend on the order of the files on the command line.          *)
EquivalenceSound ==
  \A t \in Compared : report[t] # None =>
    LET entries == report[t].entries IN
    /\ report[t].verdict = "pass" =>
         \A i, j \in DOMAIN entries : entries[i].precision = entries[j].precision =>
           LET a == Numbers(t, entries[i])
               b == Numbers(t, entries[j])
           IN  /\ DOMAIN a \ {"relative"} = DOMAIN b \ {"relative"}
               /\ \A n \in DOMAIN a \cap DOMAIN b :
                    Distance(a[n], b[n]) <= Apart(t, entries[i], entries[j])
    /\ \A order \in SetToSeqs(ToSet(entries)) :
         entries = << >> \/ compare(t, order) = report[t].verdict

=============================================================================
