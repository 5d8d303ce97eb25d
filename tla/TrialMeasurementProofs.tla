----------------------- MODULE TrialMeasurementProofs -----------------------
(***************************************************************************)
(* Theorems about TrialMeasurement, for any units, archives, coverage,     *)
(* crashes, cycles and faults.                                             *)
(***************************************************************************)
EXTENDS TrialMeasurement, FiniteSetTheorems, TLAPS

(***************************************************************************)
(* The inductive invariant.                                                *)
(***************************************************************************)
\* A file is there or not, and covers branches of the units.
IsFile(file) == file = Missing \/ \E edges \in EdgeSets : file = Holds(edges)

EdgesIn(file) == UNION file

Measuring == {"extract", "run", "merge", "summary", "crashes", "snapshot"}

Types ==
    /\ \E last \in Cycles : DOMAIN archives = 0..last
    /\ \A c \in DOMAIN archives : archives[c] \subseteq Units
    /\ is_bug \in BOOLEAN
    /\ cycle \in Cycles
    /\ step \in Measuring \union {"copy", "done"}
    /\ step \in Measuring => cycle \in DOMAIN archives
    /\ corpus_dir \subseteq Units
    /\ crashes_dir \subseteq Units
    /\ IsFile(profraw) /\ IsFile(profdata) /\ IsFile(summary)
    /\ crashes \subseteq {CrashKey[u] : u \in Units}
    /\ DOMAIN snapshots \subseteq DOMAIN archives
    /\ failed \subseteq MeasureFaults
    /\ merged \subseteq DOMAIN archives /\ kept \subseteq DOMAIN archives

\* The directories hold what is of the cycle that is measured.
DirsAreOfCycle ==
    /\ step = "extract" => corpus_dir = {}
    /\ step \in {"extract", "run"} => crashes_dir = {}
    /\ step \in Measuring \ {"extract"} => corpus_dir = archives[cycle]
    /\ step \in {"merge", "summary", "crashes", "snapshot"} =>
         /\ crashes_dir \subseteq CrashesOf(archives[cycle])
         /\ "run" \notin failed => crashes_dir = CrashesOf(archives[cycle])
    /\ step = "merge" =>
         /\ EdgesIn(profraw) \subseteq CoverageOf(archives[cycle])
         /\ cycle \in kept => profraw = Holds(CoverageOf(archives[cycle]))

\* The cycles of which the profile has all units: not yet the one whose units
\* are about to be merged.
InProfile == IF step = "merge" THEN kept \ {cycle} ELSE kept

\* The files that stay hold what was merged.
FilesAreOfArchives ==
    /\ EdgesIn(profdata) \subseteq CoverageOf(UnitsOf(merged))
    /\ EdgesIn(summary) \subseteq CoverageOf(UnitsOf(merged))
    /\ CoverageOf(UnitsOf(InProfile)) \subseteq EdgesIn(profdata)
    /\ step \in {"crashes", "snapshot"} /\ cycle \in kept =>
         \/ CoverageOf(UnitsOf(kept)) \subseteq EdgesIn(summary)
         \/ "summary" \in failed /\ summary = Missing

\* As long as no cycle fails, all cycles before are measured, merged and kept.
OnlySummariesFail == failed \subseteq {"summary"}

CyclesBefore(measured) ==
    /\ DOMAIN snapshots = measured
    /\ merged = measured \union
                  IF step \in {"summary", "crashes", "snapshot"}
                  THEN {cycle} ELSE {}
    /\ kept = measured \union
                IF step \in {"merge", "summary", "crashes", "snapshot"}
                THEN {cycle} ELSE {}

NoneIsLost ==
    OnlySummariesFail =>
        \/ CyclesBefore(0..(cycle - 1))
        \/ step = "done" /\ CyclesBefore(0..MaxCycle)

CrashKeys(c) == {CrashKey[u] : u \in CrashesOf(archives[c])}

CrashesInHand ==
    step = "snapshot" =>
      /\ crashes \subseteq CrashKeys(cycle)
      /\ is_bug /\ "run" \notin failed => crashes = CrashKeys(cycle)

MeasurementInvariant ==
    /\ Types
    /\ DirsAreOfCycle
    /\ FilesAreOfArchives
    /\ NoneIsLost
    /\ CrashesInHand
    /\ CoverageIsOfArchives
    /\ CrashesAreOfCycle

-----------------------------------------------------------------------------
(***************************************************************************)
(* Units and what they cover.                                              *)
(***************************************************************************)
LEMMA InCoverage ==
    ASSUME NEW units, NEW e
    PROVE  e \in CoverageOf(units) <=> \E u \in units : e \in Edges[u]
BY DEF CoverageOf

LEMMA CoverageMonotonic ==
    ASSUME NEW units, NEW more, units \subseteq more
    PROVE  CoverageOf(units) \subseteq CoverageOf(more)
BY InCoverage

\* The coverage of some cycles and one more.
LEMMA CoverageOfMore ==
    ASSUME NEW cycles, NEW c
    PROVE  CoverageOf(UnitsOf(cycles \union {c})) =
             CoverageOf(UnitsOf(cycles)) \union CoverageOf(archives[c])
<1>1. UnitsOf(cycles \union {c}) = UnitsOf(cycles) \union archives[c]
  BY DEF UnitsOf
<1> QED BY <1>1, InCoverage

LEMMA CoverageOfFewer ==
    ASSUME NEW cycles, NEW more, cycles \subseteq more
    PROVE  CoverageOf(UnitsOf(cycles)) \subseteq CoverageOf(UnitsOf(more))
<1>1. UnitsOf(cycles) \subseteq UnitsOf(more)
  BY DEF UnitsOf
<1> QED BY <1>1, CoverageMonotonic

LEMMA CoverageOfNone == CoverageOf(UnitsOf({})) = {}
BY DEF UnitsOf, CoverageOf

LEMMA CoverageIsFinite ==
    ASSUME MeasurementAssumption, NEW units, units \subseteq Units
    PROVE  IsFiniteSet(CoverageOf(units))
<1> DEFINE f == [u \in Units |-> Edges[u]]
           sets == {Edges[u] : u \in Units}
<1>1. f \in Surjection(Units, sets)
  BY DEF Surjection
<1>2. IsFiniteSet(sets)
  <2> HIDE DEF f, sets
  <2> QED BY <1>1, FS_Surjection DEF MeasurementAssumption
<1>3. \A s \in sets : IsFiniteSet(s)
  BY DEF MeasurementAssumption
<1>4. IsFiniteSet(UNION sets)
  <2> HIDE DEF sets
  <2> QED BY <1>2, <1>3, FS_UNION
<1>5. CoverageOf(units) \subseteq UNION sets
  BY DEF CoverageOf
<1> QED BY <1>4, <1>5, FS_Subset

-----------------------------------------------------------------------------
(***************************************************************************)
(* Every step keeps the invariant.                                         *)
(***************************************************************************)
\* What files hold.
LEMMA FilesHold ==
    /\ EdgesIn(Missing) = {}
    /\ \A edges : EdgesIn(Holds(edges)) = edges
BY DEF EdgesIn, Missing, Holds

\* A merge holds what was in the files it merges.
LEMMA MergedHolds == EdgesIn(Merged) = EdgesIn(profraw) \union EdgesIn(profdata)
<1> DEFINE all == UNION (profraw \union profdata)
<1>1. EdgesIn(Merged) = all
  <2>1. Merged = Holds(all)
    BY DEF Merged
  <2> HIDE DEF all
  <2> QED BY <2>1, FilesHold
<1>2. \A e : e \in all <=> e \in UNION profraw \/ e \in UNION profdata
  OBVIOUS
<1>3. all = (UNION profraw) \union (UNION profdata)
  BY <1>2
<1> QED BY <1>1, <1>3 DEF EdgesIn

\* Archives do not change, and what failed stays failed.
LEMMA WhatStays ==
    ASSUME [Next]_vars
    PROVE  /\ archives' = archives /\ is_bug' = is_bug
           /\ failed \subseteq failed'
BY DEF Next, vars, files, CopiesArchive, ExtractsCorpus, RunsCoverage,
       MergesProfdata, GeneratesSummary, ProcessesCrashes, PutsSnapshot,
       Raises, SaveFails, MeasuresAgain, Succeeds, Fails

\* What is merged are branches of the units.
LEMMA MergedIsFile ==
    ASSUME IsFile(profraw), IsFile(profdata)
    PROVE  IsFile(Merged)
BY DEF IsFile, Merged, Holds, Missing, EdgeSets

\* What some units cover is a file.
LEMMA CoverageIsFile ==
    ASSUME NEW units, units \subseteq Units
    PROVE  IsFile(Holds(CoverageOf(units))) /\ IsFile(Missing)
BY CoverageMonotonic DEF IsFile, EdgeSets

\* The types are kept.
LEMMA TypesStep ==
    ASSUME MeasurementAssumption, Types, [Next]_vars
    PROVE  Types'
<1> USE DEF Types
<1>1. CASE CopiesArchive
  BY <1>1, CoverageIsFile DEF CopiesArchive, EmptyDirs, Measuring, history
<1>2. CASE ExtractsCorpus
  BY <1>2 DEF ExtractsCorpus, GoesOn, Measuring, history
<1>3. CASE RunsCoverage
  <2>1. /\ step = "run" /\ step' = "merge"
        /\ UNCHANGED <<archives, is_bug, cycle, corpus_dir, profdata, summary,
                       crashes, snapshots, merged>>
        /\ failed' \subseteq MeasureFaults
        /\ kept' \subseteq kept \union {cycle}
    BY <1>3 DEF RunsCoverage, GoesOn, Succeeds, Fails
  <2>2. PICK units \in SUBSET corpus_dir :
           /\ profraw' \in {Holds(CoverageOf(units)), Missing}
           /\ crashes_dir' = crashes_dir \union CrashesOf(units)
    BY <1>3 DEF RunsCoverage
  <2>3. IsFile(profraw') /\ crashes_dir' \subseteq Units
    BY <2>2, CoverageIsFile DEF CrashesOf
  <2> QED BY <2>1, <2>3 DEF Measuring
<1>4. CASE MergesProfdata
  <2>1. /\ step = "merge" /\ step' \in {"crashes", "summary"}
        /\ UNCHANGED <<archives, is_bug, cycle, corpus_dir, crashes_dir,
                       profraw, summary, crashes, snapshots>>
        /\ failed' \subseteq MeasureFaults
        /\ merged' \subseteq merged \union {cycle}
        /\ kept' \subseteq kept
    BY <1>4 DEF MergesProfdata, Succeeds, Fails, history
  <2>2. profdata' \in {profdata, Merged, Missing}
    BY <1>4 DEF MergesProfdata
  <2>3. IsFile(profdata')
    BY <2>2, MergedIsFile DEF IsFile
  <2> QED BY <2>1, <2>3 DEF Measuring
<1>5. CASE GeneratesSummary
  BY <1>5, CoverageIsFile
     DEF GeneratesSummary, GoesOn, Measuring, Succeeds, Fails, history
<1>6. CASE ProcessesCrashes
  BY <1>6 DEF ProcessesCrashes, GoesOn, Measuring, history
<1>7. CASE PutsSnapshot
  <2>1. /\ step' \in {"copy", "done"} /\ step = "snapshot"
        /\ cycle' \in Cycles
        /\ DOMAIN snapshots' = DOMAIN snapshots \union {cycle}
        /\ UNCHANGED <<archives, is_bug, files, failed, history>>
    BY <1>7 DEF PutsSnapshot, NextCycle, Cycles, MeasurementAssumption
  <2> QED BY <2>1 DEF Measuring, files, history
<1>8. CASE Raises
  <2>1. /\ step' \in {"copy", "done"} /\ cycle' \in Cycles
        /\ failed' \subseteq MeasureFaults /\ kept' \subseteq kept
        /\ UNCHANGED <<archives, is_bug, files, snapshots, merged>>
    BY <1>8 DEF Raises, NextCycle, Cycles, MeasurementAssumption, Fails
  <2> QED BY <2>1 DEF Measuring, files
<1>9. CASE SaveFails
  <2>1. /\ step = "done" /\ DOMAIN snapshots' \subseteq DOMAIN snapshots
        /\ failed' \subseteq MeasureFaults
        /\ UNCHANGED <<archives, is_bug, cycle, step, files, history>>
    BY <1>9 DEF SaveFails, Fails
  <2> QED BY <2>1 DEF Measuring, files, history
<1>10. CASE MeasuresAgain
  BY <1>10 DEF MeasuresAgain, Measuring, files, history
<1>11. CASE UNCHANGED vars
  BY <1>11 DEF vars, files, history
<1> QED BY <1>1, <1>2, <1>3, <1>4, <1>5, <1>6, <1>7, <1>8, <1>9, <1>10, <1>11
           DEF Next

\* The directories are emptied and filled again in every cycle.
LEMMA DirsStep ==
    ASSUME Types, DirsAreOfCycle, [Next]_vars
    PROVE  DirsAreOfCycle'
<1> USE WhatStays DEF Types, DirsAreOfCycle, Measuring
<1>1. CASE CopiesArchive
  BY <1>1 DEF CopiesArchive, EmptyDirs
<1>2. CASE ExtractsCorpus
  BY <1>2 DEF ExtractsCorpus, GoesOn
<1>3. CASE RunsCoverage
  <2>1. /\ step = "run" /\ step' = "merge"
        /\ cycle' = cycle /\ corpus_dir' = corpus_dir
        /\ corpus_dir = archives[cycle] /\ crashes_dir = {}
    BY <1>3 DEF RunsCoverage, GoesOn
  <2>2. CASE /\ profraw' = Holds(CoverageOf(corpus_dir))
             /\ crashes_dir' = crashes_dir \union CrashesOf(corpus_dir)
    BY <2>1, <2>2, FilesHold
  <2>3. CASE Fails("run") /\ kept' = kept \ {cycle}
    <3>1. PICK units \in SUBSET corpus_dir :
             /\ profraw' \in {Holds(CoverageOf(units)), Missing}
             /\ crashes_dir' = crashes_dir \union CrashesOf(units)
      BY <1>3 DEF RunsCoverage
    <3>2. /\ CoverageOf(units) \subseteq CoverageOf(corpus_dir)
          /\ CrashesOf(units) \subseteq CrashesOf(corpus_dir)
      BY CoverageMonotonic DEF CrashesOf
    <3>3. EdgesIn(profraw') \subseteq CoverageOf(corpus_dir)
      BY <3>1, <3>2, FilesHold
    <3>4. "run" \in failed' /\ cycle' \notin kept'
      BY <2>1, <2>3 DEF Fails
    <3>5. crashes_dir' \subseteq CrashesOf(corpus_dir)
      BY <2>1, <3>1, <3>2
    <3> QED BY <2>1, <3>3, <3>4, <3>5
  <2> QED BY <1>3, <2>2, <2>3 DEF RunsCoverage
<1>4. CASE MergesProfdata
  BY <1>4, WhatStays DEF MergesProfdata
<1>5. CASE GeneratesSummary
  BY <1>5, WhatStays DEF GeneratesSummary, GoesOn
<1>6. CASE ProcessesCrashes
  BY <1>6, WhatStays DEF ProcessesCrashes, GoesOn
<1>7. CASE PutsSnapshot \/ Raises
  BY <1>7 DEF PutsSnapshot, Raises, NextCycle
<1>8. CASE SaveFails \/ MeasuresAgain
  BY <1>8 DEF SaveFails, MeasuresAgain
<1>9. CASE UNCHANGED vars
  BY <1>9 DEF vars, files, history
<1> QED BY <1>1, <1>2, <1>3, <1>4, <1>5, <1>6, <1>7, <1>8, <1>9
           DEF Next

\* The profile has what was merged, and nothing else.
LEMMA FilesStep ==
    ASSUME MeasurementAssumption, Types, DirsAreOfCycle, FilesAreOfArchives,
           [Next]_vars
    PROVE  FilesAreOfArchives'
<1>a. \A cs : UnitsOf(cs)' = UnitsOf(cs)
  BY WhatStays DEF UnitsOf
<1>b. ASSUME UNCHANGED <<profdata, summary, merged>>, kept' \subseteq InProfile,
             step' \notin {"merge", "crashes", "snapshot"}
      PROVE  FilesAreOfArchives'
  <2>1. InProfile' = kept'
    BY <1>b DEF InProfile
  <2>2. UnitsOf(merged)' = UnitsOf(merged) /\ UnitsOf(InProfile)' = UnitsOf(kept')
    BY <1>a, <1>b, <2>1, WhatStays DEF UnitsOf
  <2>3. CoverageOf(UnitsOf(kept')) \subseteq CoverageOf(UnitsOf(InProfile))
    BY <1>b, CoverageOfFewer
  <2> QED BY <1>b, <2>2, <2>3 DEF FilesAreOfArchives, CoverageOf
<1>1. CASE CopiesArchive
  BY <1>1, <1>b DEF CopiesArchive, InProfile, history
<1>2. CASE ExtractsCorpus
  BY <1>2, <1>b DEF ExtractsCorpus, GoesOn, InProfile, history
<1>3. CASE RunsCoverage
  <2>1. /\ step = "run" /\ step' = "merge"
        /\ UNCHANGED <<archives, cycle, profdata, summary, merged>>
        /\ kept' \subseteq kept \union {cycle}
    BY <1>3 DEF RunsCoverage, GoesOn
  <2>2. InProfile' \subseteq InProfile
    BY <2>1 DEF InProfile
  <2>3. UnitsOf(merged)' = UnitsOf(merged)
    BY <2>1, <1>a
  <2>4. CoverageOf(UnitsOf(InProfile))' \subseteq CoverageOf(UnitsOf(InProfile))
    <3>1. CoverageOf(UnitsOf(InProfile')) \subseteq
             CoverageOf(UnitsOf(InProfile))
      BY <2>2, CoverageOfFewer
    <3>2. UnitsOf(InProfile)' = UnitsOf(InProfile')
      BY <2>1 DEF UnitsOf
    <3> QED BY <3>1, <3>2 DEF CoverageOf
  <2> QED BY <2>1, <2>3, <2>4 DEF FilesAreOfArchives, CoverageOf
<1>4. CASE MergesProfdata
  <2>1. /\ step = "merge" /\ step' \in {"crashes", "summary"}
        /\ UNCHANGED <<archives, cycle, profraw, summary>>
        /\ merged \subseteq merged'
    BY <1>4 DEF MergesProfdata, history
  <2>2. /\ EdgesIn(profraw) \subseteq CoverageOf(archives[cycle])
        /\ cycle \in kept => profraw = Holds(CoverageOf(archives[cycle]))
    BY <2>1 DEF DirsAreOfCycle
  <2>3. /\ InProfile = kept \ {cycle} /\ InProfile' = kept'
        /\ CoverageOf(UnitsOf(merged)) \subseteq CoverageOf(UnitsOf(merged'))
        /\ CoverageOf(UnitsOf(merged))' = CoverageOf(UnitsOf(merged'))
        /\ CoverageOf(UnitsOf(InProfile))' = CoverageOf(UnitsOf(kept'))
        /\ CoverageOf(UnitsOf(kept))' = CoverageOf(UnitsOf(kept'))
    BY <2>1, CoverageOfFewer DEF InProfile, UnitsOf, CoverageOf
  <2>4. /\ EdgesIn(profdata) \subseteq CoverageOf(UnitsOf(merged'))
        /\ EdgesIn(summary') \subseteq CoverageOf(UnitsOf(merged'))
        /\ CoverageOf(UnitsOf(kept \ {cycle})) \subseteq EdgesIn(profdata)
    BY <2>1, <2>3 DEF FilesAreOfArchives
  <2>5. CASE /\ profraw # Missing /\ profdata' = Merged /\ kept' = kept
             /\ merged' = merged \union {cycle} /\ step' = "summary"
    <3>1. EdgesIn(profdata') = EdgesIn(profraw) \union EdgesIn(profdata)
      BY <2>5, MergedHolds
    <3>2. CoverageOf(archives[cycle]) \subseteq CoverageOf(UnitsOf(merged'))
      BY <2>5, CoverageOfMore
    <3>3. CoverageOf(UnitsOf(kept)) \subseteq EdgesIn(profdata')
      <4>1. CASE cycle \in kept
        <5>1. EdgesIn(profraw) = CoverageOf(archives[cycle])
          BY <2>2, <4>1, FilesHold
        <5>2. (kept \ {cycle}) \union {cycle} = kept
          BY <4>1
        <5>3. CoverageOf(UnitsOf(kept)) =
                 CoverageOf(UnitsOf(kept \ {cycle}))
                   \union CoverageOf(archives[cycle])
          BY <5>2, CoverageOfMore
        <5> QED BY <2>4, <3>1, <5>1, <5>3
      <4>2. CASE cycle \notin kept
        <5>1. kept \ {cycle} = kept
          BY <4>2
        <5> QED BY <2>4, <3>1, <5>1
      <4> QED BY <4>1, <4>2
    <3> QED BY <2>2, <2>3, <2>4, <2>5, <3>1, <3>2, <3>3 DEF FilesAreOfArchives
  <2>6. CASE profdata' = profdata /\ kept' = kept \ {cycle}
    <3>1. cycle' \notin kept'
      BY <2>1, <2>6
    <3>2. EdgesIn(profdata') = EdgesIn(profdata)
      BY <2>6
    <3> QED BY <2>3, <2>4, <2>6, <3>1, <3>2 DEF FilesAreOfArchives
  <2>7. CASE profdata' = Missing /\ kept' = {}
    <3>1. EdgesIn(profdata') = {} /\ CoverageOf(UnitsOf(kept')) = {}
      BY <2>7, FilesHold, CoverageOfNone
    <3> QED BY <2>3, <2>4, <2>7, <3>1 DEF FilesAreOfArchives
  <2>8. ASSUME profraw = Missing
        PROVE  profdata' = profdata /\ kept' = kept \ {cycle}
    <3>1. cycle \notin kept
      BY <2>2, <2>8 DEF Missing, Holds
    <3> QED BY <1>4, <2>8, <3>1 DEF MergesProfdata, history
  <2>9. Merged # Missing
    BY DEF Merged, Missing, Holds
  <2> QED BY <1>4, <2>5, <2>6, <2>7, <2>8, <2>9 DEF MergesProfdata
<1>5. CASE GeneratesSummary
  <2>1. /\ step = "summary" /\ step' = "crashes"
        /\ UNCHANGED <<archives, cycle, profdata, merged, kept>>
        /\ \/ summary' = profdata
           \/ summary' = Missing /\ "summary" \in failed'
    BY <1>5 DEF GeneratesSummary, GoesOn, Fails, history
  <2>2. EdgesIn(Missing) = {}
    BY FilesHold
  <2>3. /\ InProfile = kept /\ InProfile' = kept /\ kept' = kept
        /\ UnitsOf(merged)' = UnitsOf(merged) /\ UnitsOf(kept)' = UnitsOf(kept)
        /\ UnitsOf(InProfile)' = UnitsOf(InProfile)
    BY <2>1, <1>a DEF InProfile, UnitsOf
  <2> QED BY <2>1, <2>2, <2>3 DEF FilesAreOfArchives, CoverageOf
<1>6. CASE ProcessesCrashes
  <2>1. /\ step = "crashes" /\ step' = "snapshot"
        /\ UNCHANGED <<archives, cycle, profdata, summary, failed, merged, kept>>
    BY <1>6 DEF ProcessesCrashes, GoesOn, history
  <2>2. /\ InProfile = kept /\ InProfile' = kept /\ kept' = kept
        /\ UnitsOf(merged)' = UnitsOf(merged) /\ UnitsOf(kept)' = UnitsOf(kept)
        /\ UnitsOf(InProfile)' = UnitsOf(InProfile)
    BY <2>1, <1>a DEF InProfile, UnitsOf
  <2> QED BY <2>1, <2>2 DEF FilesAreOfArchives, CoverageOf
<1>7. CASE PutsSnapshot
  BY <1>7, <1>b DEF PutsSnapshot, NextCycle, files, history, InProfile
<1>8. CASE Raises
  BY <1>8, <1>b DEF Raises, NextCycle, files, InProfile
<1>9. CASE SaveFails
  BY <1>9, <1>b DEF SaveFails, files, history, InProfile
<1>10. CASE MeasuresAgain
  BY <1>10, <1>b DEF MeasuresAgain, files, history, InProfile
<1>11. CASE UNCHANGED vars
  <2>1. UNCHANGED <<archives, step, cycle, profdata, summary, failed, merged,
                    kept>>
    BY <1>11 DEF vars, files, history
  <2> QED BY <2>1 DEF FilesAreOfArchives, InProfile, CoverageOf, UnitsOf
<1> QED BY <1>1, <1>2, <1>3, <1>4, <1>5, <1>6, <1>7, <1>8, <1>9, <1>10, <1>11
           DEF Next

\* As long as no cycle fails, they are measured one after the other.
LEMMA NoneLostStep ==
    ASSUME MeasurementAssumption, Types, DirsAreOfCycle, NoneIsLost,
           [Next]_vars
    PROVE  NoneIsLost'
<1> SUFFICES ASSUME OnlySummariesFail'
             PROVE  \/ CyclesBefore(0..(cycle - 1))'
                    \/ step' = "done" /\ CyclesBefore(0..MaxCycle)'
  BY DEF NoneIsLost
<1>a. \/ CyclesBefore(0..(cycle - 1))
      \/ step = "done" /\ CyclesBefore(0..MaxCycle)
  BY WhatStays DEF NoneIsLost, OnlySummariesFail
<1>b. \A fault : fault # "summary" => ~Fails(fault)
  BY DEF OnlySummariesFail, Fails
<1>c. cycle \in 0..MaxCycle /\ MaxCycle \in Nat
  BY DEF Types, Cycles, MeasurementAssumption
<1> USE DEF CyclesBefore
<1>1. CASE CopiesArchive
  BY <1>1, <1>a DEF CopiesArchive, history
<1>2. CASE ExtractsCorpus
  BY <1>2, <1>a DEF ExtractsCorpus, GoesOn, history
<1>3. CASE RunsCoverage
  BY <1>3, <1>a, <1>b DEF RunsCoverage, GoesOn
<1>4. CASE MergesProfdata
  <2>1. step = "merge" /\ cycle \in kept
    BY <1>4, <1>a DEF MergesProfdata
  <2>2. profraw # Missing
    BY <2>1 DEF DirsAreOfCycle, Missing, Holds
  <2>3. Merged # Missing
    BY DEF Merged, Missing, Holds
  <2>4. /\ step' = "summary" /\ merged' = merged \union {cycle}
        /\ UNCHANGED <<cycle, kept, snapshots>>
    BY <1>4, <1>b, <2>2, <2>3 DEF MergesProfdata
  <2> QED BY <1>a, <2>1, <2>4
<1>5. CASE GeneratesSummary
  BY <1>5, <1>a DEF GeneratesSummary, GoesOn, history
<1>6. CASE ProcessesCrashes
  BY <1>6, <1>a DEF ProcessesCrashes, GoesOn, history
<1>7. CASE PutsSnapshot
  <2>1. /\ step = "snapshot"
        /\ DOMAIN snapshots' = DOMAIN snapshots \union {cycle}
        /\ UNCHANGED <<merged, kept>>
        /\ \/ step' = "copy" /\ cycle' = cycle + 1
           \/ step' = "done" /\ cycle = MaxCycle /\ cycle' = cycle
    BY <1>7, <1>c DEF PutsSnapshot, NextCycle, history
  <2>2. 0..(cycle - 1) \union {cycle} = 0..cycle /\ (cycle + 1) - 1 = cycle
    BY <1>c
  <2>3. /\ DOMAIN snapshots' = 0..cycle
        /\ merged' = 0..cycle /\ kept' = 0..cycle
    BY <1>a, <2>1, <2>2
  <2> QED BY <2>1, <2>2, <2>3
<1>8. CASE Raises \/ SaveFails
  BY <1>8, <1>b DEF Raises, SaveFails
<1>9. CASE MeasuresAgain
  <2>1. PICK c \in Cycles : IsUnmeasured(c) /\ cycle' = c
    BY <1>9 DEF MeasuresAgain
  <2>2. /\ step = "done" /\ step' = "copy"
        /\ UNCHANGED <<snapshots, merged, kept>>
    BY <1>9 DEF MeasuresAgain, history
  <2>3. CASE CyclesBefore(0..(cycle - 1))
    <3>1. c = cycle
      BY <1>c, <2>1, <2>3 DEF IsUnmeasured, Cycles
    <3> QED BY <2>1, <2>2, <2>3, <3>1
  <2>4. CASE CyclesBefore(0..MaxCycle)
    <3>1. MaxCycle \in DOMAIN snapshots
      BY <1>c, <2>4
    <3>2. MaxCycle < c /\ c \in 0..MaxCycle
      BY <2>1, <3>1 DEF IsUnmeasured, Cycles
    <3> QED BY <1>c, <3>2
  <2> QED BY <1>a, <2>3, <2>4
<1>10. CASE UNCHANGED vars
  BY <1>10, <1>a DEF vars, history
<1> QED BY <1>1, <1>2, <1>3, <1>4, <1>5, <1>6, <1>7, <1>8, <1>9, <1>10
           DEF Next

\* Crashes are processed right before the snapshot that reports them.
LEMMA CrashesStep ==
    ASSUME Types, DirsAreOfCycle, CrashesInHand, [Next]_vars
    PROVE  CrashesInHand'
<1>1. CrashKeys(cycle)' = CrashKeys(cycle) \/ step' # "snapshot"
  BY WhatStays DEF Next, vars, files, CopiesArchive, ExtractsCorpus,
     RunsCoverage, MergesProfdata, GeneratesSummary, ProcessesCrashes,
     PutsSnapshot, Raises, SaveFails, MeasuresAgain, NextCycle, GoesOn,
     CrashKeys
<1>2. CASE ProcessesCrashes
  <2>1. SUFFICES ASSUME step' = "snapshot"
                 PROVE  /\ crashes' \subseteq CrashKeys(cycle)
                        /\ is_bug /\ "run" \notin failed' =>
                             crashes' = CrashKeys(cycle)
    BY <1>1, WhatStays DEF CrashesInHand
  <2>2. /\ step = "crashes" /\ failed' = failed
        /\ crashes' = IF is_bug THEN {CrashKey[u] : u \in crashes_dir} ELSE {}
    BY <1>2, <2>1 DEF ProcessesCrashes, GoesOn
  <2>3. /\ crashes_dir \subseteq CrashesOf(archives[cycle])
        /\ "run" \notin failed => crashes_dir = CrashesOf(archives[cycle])
    BY <2>2 DEF DirsAreOfCycle
  <2> QED BY <2>2, <2>3 DEF CrashKeys
<1>3. CASE UNCHANGED vars
  BY <1>1, <1>3 DEF vars, files, CrashesInHand
<1>4. CASE Next /\ ~ProcessesCrashes
  BY <1>4 DEF Next, CrashesInHand, CopiesArchive, ExtractsCorpus,
     RunsCoverage, MergesProfdata, GeneratesSummary, PutsSnapshot, Raises,
     SaveFails, MeasuresAgain, NextCycle, GoesOn
<1> QED BY <1>2, <1>3, <1>4

\* What a snapshot counts is what was merged, and no less than what was kept.
LEMMA SnapshotCounts ==
    ASSUME MeasurementAssumption, Types, FilesAreOfArchives, step = "snapshot"
    PROVE  /\ CurrentCoverage <= EdgesOf(merged)
           /\ cycle \in kept => \/ CurrentCoverage >= EdgesOf(kept)
                                \/ "summary" \in failed /\ CurrentCoverage = 0
<1> DEFINE most == CoverageOf(UnitsOf(merged))
           least == CoverageOf(UnitsOf(kept))
<1>1. /\ EdgesIn(summary) \subseteq most
      /\ cycle \in kept => \/ least \subseteq EdgesIn(summary)
                           \/ "summary" \in failed /\ summary = Missing
  BY DEF FilesAreOfArchives
<1>2. UnitsOf(merged) \subseteq Units
  BY DEF Types, UnitsOf
<1>3. IsFiniteSet(most)
  BY <1>2, CoverageIsFinite
<1>4. CurrentCoverage = Cardinality(EdgesIn(summary))
  BY DEF CurrentCoverage, EdgesIn
<1>5. EdgesOf(merged) = Cardinality(most) /\ EdgesOf(kept) = Cardinality(least)
  BY DEF EdgesOf
<1> HIDE DEF most, least
<1>6. /\ IsFiniteSet(EdgesIn(summary))
      /\ Cardinality(EdgesIn(summary)) <= Cardinality(most)
  BY <1>1, <1>3, FS_Subset
<1>7. least \subseteq EdgesIn(summary) =>
        /\ IsFiniteSet(least)
        /\ Cardinality(least) <= Cardinality(EdgesIn(summary))
  BY <1>6, FS_Subset
<1>8. \A file : IsFiniteSet(file) => Cardinality(file) \in Nat
  BY FS_CardinalityType
<1>9. Cardinality(EdgesIn(Missing)) = 0
  BY FilesHold, FS_EmptySet
<1> QED BY <1>1, <1>4, <1>5, <1>6, <1>7, <1>8, <1>9

\* A snapshot is right when it is put into the queue, and stays so.
LEMMA SnapshotsStep ==
    ASSUME MeasurementAssumption, MeasurementInvariant, [Next]_vars
    PROVE  CoverageIsOfArchives' /\ CrashesAreOfCycle'
<1> USE DEF MeasurementInvariant
<1>1. \A cs : EdgesOf(cs)' = EdgesOf(cs)
  BY WhatStays DEF EdgesOf, UnitsOf
<1>2. CASE PutsSnapshot
  <2>1. /\ step = "snapshot" /\ failed' = failed
        /\ DOMAIN snapshots' = DOMAIN snapshots \union {cycle}
        /\ snapshots'[cycle] = [edges_covered |-> CurrentCoverage,
                                crashes |-> crashes,
                                merged |-> merged, kept |-> kept]
        /\ \A c \in DOMAIN snapshots \ {cycle} : snapshots'[c] = snapshots[c]
    BY <1>2 DEF PutsSnapshot
  <2>2. /\ snapshots'[cycle].edges_covered = CurrentCoverage
        /\ snapshots'[cycle].crashes = crashes
        /\ snapshots'[cycle].merged = merged
        /\ snapshots'[cycle].kept = kept
    BY <2>1
  <2>3. failed \subseteq {"summary"} => merged = 0..cycle /\ kept = 0..cycle
    <3>1. cycle \in Nat /\ 0..(cycle - 1) \union {cycle} = 0..cycle
      BY DEF Types, Cycles, MeasurementAssumption
    <3> QED BY <2>1, <3>1 DEF NoneIsLost, OnlySummariesFail, CyclesBefore
  <2>4. CoverageIsOfArchives'
    BY <1>1, <2>1, <2>2, <2>3, SnapshotCounts DEF CoverageIsOfArchives
  <2>5. CrashesAreOfCycle'
    BY <2>1, <2>2, WhatStays DEF CrashesAreOfCycle, CrashesInHand, CrashKeys
  <2> QED BY <2>4, <2>5
<1>3. CASE ~PutsSnapshot
  <2>1. /\ DOMAIN snapshots' \subseteq DOMAIN snapshots
        /\ \A c \in DOMAIN snapshots' : snapshots'[c] = snapshots[c]
    BY <1>3 DEF Next, vars, CopiesArchive, ExtractsCorpus, RunsCoverage,
       MergesProfdata, GeneratesSummary, ProcessesCrashes, Raises, SaveFails,
       MeasuresAgain
  <2> QED BY <1>1, <2>1, WhatStays DEF CoverageIsOfArchives, CrashesAreOfCycle
<1> QED BY <1>2, <1>3

-----------------------------------------------------------------------------
(***************************************************************************)
(* The invariant.                                                          *)
(***************************************************************************)
LEMMA InvariantInit ==
    ASSUME MeasurementAssumption, Init
    PROVE  MeasurementInvariant
<1>1. Types
  BY CoverageIsFile DEF Init, Types, Cycles, Measuring, MeasurementAssumption
<1>2. DirsAreOfCycle /\ CrashesInHand
  BY DEF Init, DirsAreOfCycle, CrashesInHand, Measuring
<1>3. FilesAreOfArchives
  <2>1. CoverageOf(UnitsOf(merged)) = {} /\ CoverageOf(UnitsOf(InProfile)) = {}
    BY CoverageOfNone DEF Init, InProfile
  <2> QED BY <2>1, FilesHold DEF Init, FilesAreOfArchives
<1>4. CoverageIsOfArchives /\ CrashesAreOfCycle
  BY DEF Init, CoverageIsOfArchives, CrashesAreOfCycle
<1>5. NoneIsLost
  BY DEF Init, NoneIsLost, CyclesBefore
<1> QED BY <1>1, <1>2, <1>3, <1>4, <1>5 DEF MeasurementInvariant

\* The inductive invariant holds, whatever fails.
THEOREM InvariantHolds ==
    ASSUME MeasurementAssumption
    PROVE  Spec => []MeasurementInvariant
<1>1. Init => MeasurementInvariant
  BY InvariantInit
<1>2. MeasurementInvariant /\ [Next]_vars => MeasurementInvariant'
  BY TypesStep, DirsStep, FilesStep, NoneLostStep, CrashesStep, SnapshotsStep
     DEF MeasurementInvariant
<1> QED BY <1>1, <1>2, PTL DEF Spec

\* The variables keep their types: a file is one file or missing.
THEOREM TypeCorrect ==
    ASSUME MeasurementAssumption
    PROVE  Spec => []TypeOK
<1>1. ASSUME NEW file, IsFile(file)
      PROVE  file \subseteq EdgeSets /\ Cardinality(file) <= 1
  <2>1. CASE file = Missing
    BY <2>1, FS_EmptySet DEF Missing
  <2>2. ASSUME NEW edges \in EdgeSets, file = Holds(edges)
        PROVE  file \subseteq EdgeSets /\ Cardinality(file) <= 1
    <3>1. Cardinality({edges}) = 1
      BY FS_Singleton
    <3> QED BY <2>2, <3>1 DEF Holds
  <2> QED BY <1>1, <2>1, <2>2 DEF IsFile
<1>2. MeasurementInvariant => TypeOK
  <2>1. SUFFICES ASSUME Types PROVE TypeOK
    BY DEF MeasurementInvariant
  <2>2. DOMAIN archives \subseteq Cycles
    BY <2>1 DEF Types, Cycles, MeasurementAssumption
  <2> QED BY <1>1, <2>1, <2>2 DEF Types, Measuring, TypeOK
<1> QED BY <1>2, InvariantHolds, PTL

\* The coverage of a snapshot is that of the archives up to its cycle: what was
\* merged, no less than what was merged in full, and all if no cycle failed.
THEOREM CoverageIsRight ==
    ASSUME MeasurementAssumption
    PROVE  Spec => []CoverageIsOfArchives
<1>1. MeasurementInvariant => CoverageIsOfArchives
  BY DEF MeasurementInvariant
<1> QED BY <1>1, InvariantHolds, PTL

\* A crash belongs to the snapshot of the cycle that found it.
THEOREM CrashesAreRight ==
    ASSUME MeasurementAssumption
    PROVE  Spec => []CrashesAreOfCycle
<1>1. MeasurementInvariant => CrashesAreOfCycle
  BY DEF MeasurementInvariant
<1> QED BY <1>1, InvariantHolds, PTL
=============================================================================
