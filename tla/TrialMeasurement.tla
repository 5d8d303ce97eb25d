-------------------------- MODULE TrialMeasurement --------------------------
(***************************************************************************)
(* The workers of the measurer that measure the snapshots of one trial, one *)
(* after the other (measure_trial_coverage of                              *)
(* experiment/measurer/measure_manager.py).  Module Measurer sees a cycle  *)
(* as one step; here it is the steps of measure_snapshot_coverage, which   *)
(* work on files that stay from one cycle to the next: the archive of a    *)
(* cycle holds only units that are new, and the coverage of all before is  *)
(* in the trial's .profdata file.  An exception ends the cycle, not the    *)
(* worker; a worker that ends is followed by one that begins after the     *)
(* latest snapshot, with the files as they are.                            *)
(***************************************************************************)
EXTENDS Naturals, FiniteSets

CONSTANTS
    Units,          \* the inputs a fuzzer may have found
    MaxCycle,       \* the last cycle, max_cycle
    Edges,          \* the branches that a unit covers
    NoCrash,
    CrashKey,       \* the key of the crash of a unit, or NoCrash
    MeasureFaults,  \* what can go wrong, a subset of AllMeasureFaults
    MaxMeasureFaults \* bound on how many kinds go wrong in one behaviour

(***************************************************************************)
(*   raise    a step raises                                                *)
(*   run      the coverage run fails: some of its output is missing        *)
(*   merge    llvm-profdata fails                                          *)
(*   summary  llvm-cov fails: its output file is cut off                   *)
(*   save     a batch of snapshots cannot be saved                         *)
(***************************************************************************)
AllMeasureFaults == {"raise", "run", "merge", "summary", "save"}

Cycles == 0..MaxCycle

MeasurementAssumption ==
    /\ IsFiniteSet(Units)
    /\ MaxCycle \in Nat
    /\ DOMAIN Edges = Units /\ \A u \in Units : IsFiniteSet(Edges[u])
    /\ DOMAIN CrashKey = Units
    /\ MeasureFaults \subseteq AllMeasureFaults
    /\ MaxMeasureFaults \in Nat

CoverageOf(units) == UNION {Edges[u] : u \in units}
CrashesOf(units) == {u \in units : CrashKey[u] # NoCrash}

\* A file is the set of what it holds, or of nothing when there is none or
\* when it is empty.
Missing == {}
Holds(edges) == {edges}

VARIABLES
    archives,    \* the units in the corpus archives that come to the filestore
    is_bug,      \* whether the benchmark is of type bug
    cycle, step, \* the cycle that is measured, and what comes next
    corpus_dir,  \* the units in it
    crashes_dir, \* the units in it that crashed
    profraw,     \* the edges in the .profraw files, a file
    profdata,    \* the edges in the .profdata file, a file
    summary,     \* the edges in cov_summary.json, a file that can be parsed
    crashes,     \* the keys of the crashes that were processed
    snapshots,   \* what was put into the queue, of cycles
    failed,      \* the faults that happened
    merged, kept \* cycles whose units came into the .profdata file, and those
                 \* of which it has them all

files == <<corpus_dir, crashes_dir, profraw, profdata, summary, crashes>>
history == <<merged, kept>>
vars == <<archives, is_bug, cycle, step, files, snapshots, failed, history>>

Init ==
    /\ archives \in UNION {[0..c -> SUBSET Units] : c \in Cycles}
    /\ is_bug \in BOOLEAN
    /\ cycle = 0
    /\ step = "copy"
    /\ corpus_dir = {} /\ crashes_dir = {} /\ crashes = {}
    /\ profraw = Missing /\ profdata = Missing /\ summary = Missing
    /\ snapshots = [c \in {} |-> {}]
    /\ failed = {} /\ merged = {} /\ kept = {}

GoesOn(from, to) == step = from /\ step' = to /\ UNCHANGED cycle

\* A step that succeeds, or fails if it can, any number of times.
Succeeds == UNCHANGED failed
Fails(fault) ==
    /\ fault \in MeasureFaults
    /\ failed' = failed \union {fault}
    /\ Cardinality(failed') <= MaxMeasureFaults

NextCycle ==
    IF cycle < MaxCycle THEN step' = "copy" /\ cycle' = cycle + 1
    ELSE step' = "done" /\ UNCHANGED cycle

\* Mutant of EmptyDirs: only some of the directories are recreated.
EmptyDirs_KeepsCrashes ==
    corpus_dir' = {} /\ profraw' = Missing /\ UNCHANGED crashes_dir

\* initialize_measurement_dirs.
EmptyDirs == corpus_dir' = {} /\ profraw' = Missing /\ crashes_dir' = {}

\* The archive of the cycle is copied.  The worker ends when there is none,
\* or not yet, or when copying it fails.
CopiesArchive ==
    /\ step = "copy"
    /\ \/ /\ cycle \in DOMAIN archives
          /\ step' = "extract"
          /\ EmptyDirs
       \/ step' = "done" /\ UNCHANGED <<corpus_dir, profraw, crashes_dir>>
    /\ UNCHANGED <<archives, is_bug, cycle, profdata, summary, crashes,
                   snapshots, failed, history>>

ExtractsCorpus ==
    /\ GoesOn("extract", "run")
    /\ corpus_dir' = corpus_dir \union archives[cycle]
    /\ UNCHANGED <<archives, is_bug, crashes_dir, profraw, profdata, summary,
                   crashes, snapshots, failed, history>>

\* run_cov_new_units: the binary writes its coverage and the units that crash.
RunsCoverage ==
    /\ GoesOn("run", "merge")
    /\ \/ /\ Succeeds
          /\ profraw' = Holds(CoverageOf(corpus_dir))
          /\ crashes_dir' = crashes_dir \union CrashesOf(corpus_dir)
          /\ kept' = kept \union {cycle}
       \/ /\ Fails("run")
          /\ kept' = kept \ {cycle}
          /\ \E units \in SUBSET corpus_dir :
               /\ profraw' \in {Holds(CoverageOf(units)), Missing}
               /\ crashes_dir' = crashes_dir \union CrashesOf(units)
    /\ UNCHANGED <<archives, is_bug, corpus_dir, profdata, summary, crashes,
                   snapshots, merged>>

\* Mutant of Merged: what was there before is not among files_to_merge.
Merged_New == profraw

\* What generate_profdata merges.
Merged == Holds(UNION (profraw \union profdata))

\* generate_coverage_information: without any profraw file there is nothing to
\* do, and without a profdata file, or with an empty one, no summary.  A merge
\* that fails leaves the file of the cycle before, or cuts it off.
MergesProfdata ==
    /\ step = "merge"
    /\ UNCHANGED cycle
    /\ \/ /\ profraw = Missing
          /\ step' = "crashes"
          /\ UNCHANGED <<profdata, failed, history>>
       \/ /\ profraw # Missing
          /\ \/ /\ Succeeds
                /\ profdata' = Merged
                /\ merged' = merged \union {cycle} /\ UNCHANGED kept
             \/ /\ Fails("merge")
                /\ \/ profdata' = profdata /\ kept' = kept \ {cycle}
                   \/ profdata' = Missing /\ kept' = {}
                /\ UNCHANGED merged
          /\ step' = IF profdata' = Missing THEN "crashes" ELSE "summary"
    /\ UNCHANGED <<archives, is_bug, corpus_dir, crashes_dir, profraw, summary,
                   crashes, snapshots>>

GeneratesSummary ==
    /\ GoesOn("summary", "crashes")
    /\ \/ Succeeds /\ summary' = profdata
       \/ Fails("summary") /\ summary' = Missing
    /\ UNCHANGED <<archives, is_bug, corpus_dir, crashes_dir, profraw, profdata,
                   crashes, snapshots, history>>

\* process_crashes, of benchmarks of the type bug.
ProcessesCrashes ==
    /\ GoesOn("crashes", "snapshot")
    /\ crashes' = IF is_bug THEN {CrashKey[u] : u \in crashes_dir} ELSE {}
    /\ UNCHANGED <<archives, is_bug, corpus_dir, crashes_dir, profraw, profdata,
                   summary, snapshots, failed, history>>

\* get_current_coverage.
CurrentCoverage ==
    Cardinality(UNION summary)

PutsSnapshot ==
    /\ step = "snapshot"
    /\ snapshots' = [c \in DOMAIN snapshots \union {cycle} |->
         IF c = cycle THEN [edges_covered |-> CurrentCoverage,
                            crashes |-> crashes,
                            merged |-> merged, kept |-> kept]
         ELSE snapshots[c]]
    /\ NextCycle
    /\ UNCHANGED <<archives, is_bug, files, failed, history>>

\* An exception in any step is caught around the cycle: there is no snapshot
\* of it, and the files stay as they are.
Raises ==
    /\ step # "done"
    /\ Fails("raise")
    /\ NextCycle
    /\ kept' = IF step \in {"run", "merge"} THEN kept \ {cycle} ELSE kept
    /\ UNCHANGED <<archives, is_bug, files, snapshots, merged>>

-----------------------------------------------------------------------------
(***************************************************************************)
(* The measurer, between two workers.                                      *)
(***************************************************************************)
\* A batch that cannot be saved is lost.
SaveFails ==
    /\ step = "done"
    /\ Fails("save")
    /\ \E first \in DOMAIN snapshots :
         snapshots' = [c \in {d \in DOMAIN snapshots : d < first} |->
                         snapshots[c]]
    /\ UNCHANGED <<archives, is_bug, cycle, step, files, history>>

\* The next worker begins after the latest snapshot (get_unmeasured_snapshots).
IsUnmeasured(c) ==
    /\ \A d \in DOMAIN snapshots : d < c
    /\ c = 0 \/ c - 1 \in DOMAIN snapshots

MeasuresAgain ==
    /\ step = "done"
    /\ \E c \in Cycles : IsUnmeasured(c) /\ cycle' = c
    /\ step' = "copy"
    /\ UNCHANGED <<archives, is_bug, files, snapshots, failed, history>>

Next ==
    \/ CopiesArchive \/ ExtractsCorpus \/ RunsCoverage \/ MergesProfdata
    \/ GeneratesSummary \/ ProcessesCrashes \/ PutsSnapshot \/ Raises
    \/ SaveFails \/ MeasuresAgain

Spec == Init /\ [][Next]_vars

FairSpec == Spec /\ WF_vars(Next)

-----------------------------------------------------------------------------
(***************************************************************************)
(* Properties.                                                             *)
(***************************************************************************)
EdgeSets == SUBSET CoverageOf(Units)

TypeOK ==
    /\ DOMAIN archives \subseteq Cycles
    /\ \A c \in DOMAIN archives : archives[c] \subseteq Units
    /\ is_bug \in BOOLEAN
    /\ cycle \in Cycles
    /\ step \in {"copy", "extract", "run", "merge", "summary", "crashes",
                 "snapshot", "done"}
    /\ corpus_dir \subseteq Units /\ crashes_dir \subseteq Units
    /\ \A file \in {profraw, profdata, summary} :
         file \subseteq EdgeSets /\ Cardinality(file) <= 1
    /\ crashes \subseteq {CrashKey[u] : u \in Units}
    /\ DOMAIN snapshots \subseteq Cycles
    /\ failed \subseteq MeasureFaults
    /\ merged \subseteq DOMAIN archives /\ kept \subseteq DOMAIN archives

UnitsOf(cycles) == UNION {archives[c] : c \in cycles}
EdgesOf(cycles) == Cardinality(CoverageOf(UnitsOf(cycles)))

(***************************************************************************)
(* The coverage of a snapshot is that of all units archived up to its      *)
(* cycle, unless something failed.  What a fault costs is bounded: the     *)
(* units of a cycle whose run or merge failed or raised are missing in all *)
(* later snapshots, and those of no other cycle, unless a merge that       *)
(* failed left an empty profile, with all before; nothing is counted that  *)
(* was not merged (a cycle that is measured again after later ones counts  *)
(* theirs too); and a summary that could not be made is a coverage of 0    *)
(* for one cycle.                                                          *)
(***************************************************************************)
CoverageIsOfArchives ==
    \A c \in DOMAIN snapshots :
        LET snapshot == snapshots[c]
            covered == snapshot.edges_covered
        IN
        /\ covered <= EdgesOf(snapshot.merged)
        /\ c \in snapshot.kept =>
             \/ covered >= EdgesOf(snapshot.kept)
             \/ "summary" \in failed /\ covered = 0
        /\ failed \subseteq {"summary"} =>
             snapshot.merged = 0..c /\ snapshot.kept = 0..c

\* A crash belongs to the snapshot of the cycle that found it, and to no other.
CrashesAreOfCycle ==
    \A c \in DOMAIN snapshots :
        LET found == {CrashKey[u] : u \in CrashesOf(archives[c])} IN
        /\ snapshots[c].crashes \subseteq found
        /\ is_bug /\ "run" \notin failed => snapshots[c].crashes = found
=============================================================================
