---------------------------- MODULE MutantFuzzers ----------------------------
(***************************************************************************)
(* The fuzzers that fuzz mutants of the benchmark before the benchmark     *)
(* itself (fuzzers/..._um_...): build() compiles one program for each      *)
(* mutation of the sources until an alarm ends it, fuzz() runs some of     *)
(* them for a while, passes what they found on, and ends with the target.  *)
(* Time is counted in units of which DEFAULT_MUTANT_TIMEOUT has 3.         *)
(***************************************************************************)
EXTENDS Naturals, FiniteSets, FiniteSetsExt

CONSTANTS
    MaxMutations,    \* bound: mutations of the sources
    MutantTimes      \* values of FUZZ_PROP * MAX_TOTAL_TIME

MutantAssumption == MaxMutations \in Nat /\ MutantTimes \subseteq Nat

VARIABLES
    variant,
    pc,
    mutations,  \* mutations to try
    ind,        \* the next one
    src,        \* what distinguishes $SRC from the original: mutations, Built
    bins,       \* programs in mutant_bins: the mutations they are built of
    out,        \* the programs in $OUT
    others,     \* files in $OUT that are named as a mutant's program is
    mutantTime,
    todo,       \* programs that fuzz() still runs
    used,       \* time spent on mutants
    input, storage,  \* the seed corpus, and /storage/input_corpus
    found       \* what the latest mutant has found

vars == <<variant, pc, mutations, ind, src, bins, out, others, mutantTime, todo,
          used, input, storage, found>>

DEFAULT_MUTANT_TIMEOUT == 3
Original == {}
Built == 0
Dictionary == {MaxMutations + 1}

-----------------------------------------------------------------------------
(* The variants: the fuzzer they are made of, whether mutants are chosen   *)
(* by prioritize_mutants, whether the seed corpus is refilled and the      *)
(* store cleared before each mutant, and whether cp's target is a          *)
(* directory or the files in it.                                           *)

Variant(engine, prioritize, refill, clear, toDirectory) ==
    [engine |-> engine, prioritize |-> prioritize, refill |-> refill,
     clear |-> clear, toDirectory |-> toDirectory]

honggfuzz_um_random == Variant("honggfuzz", FALSE, TRUE, FALSE, FALSE)
honggfuzz_um_random_75 == Variant("honggfuzz", FALSE, TRUE, FALSE, FALSE)
honggfuzz_um_prioritize == Variant("honggfuzz", TRUE, TRUE, FALSE, FALSE)
honggfuzz_um_prioritize_75 == Variant("honggfuzz", TRUE, TRUE, FALSE, FALSE)
honggfuzz_um_parallel == Variant("honggfuzz", FALSE, FALSE, FALSE, FALSE)
aflplusplus_um_random == Variant("aflplusplus", FALSE, TRUE, TRUE, TRUE)
aflplusplus_um_random_75 == Variant("aflplusplus", FALSE, TRUE, FALSE, FALSE)
aflplusplus_um_prioritize == Variant("aflplusplus", TRUE, TRUE, TRUE, TRUE)
aflplusplus_um_prioritize_75 == Variant("aflplusplus", TRUE, TRUE, TRUE, TRUE)
aflplusplus_um_parallel == Variant("aflplusplus", FALSE, FALSE, FALSE, FALSE)

Variants ==
    {honggfuzz_um_random, honggfuzz_um_random_75, honggfuzz_um_prioritize,
     honggfuzz_um_prioritize_75, honggfuzz_um_parallel, aflplusplus_um_random,
     aflplusplus_um_random_75, aflplusplus_um_prioritize,
     aflplusplus_um_prioritize_75, aflplusplus_um_parallel}

\* A corpus: whether it has seeds (bound: none, or two and more files), whether
\* a directory was copied into it, and the finds in it.
Corpus == [seeds: BOOLEAN, dir: BOOLEAN, found: SUBSET (1 .. MaxMutations)]
EmptyCorpus == [seeds |-> FALSE, dir |-> FALSE, found |-> {}]

\* cp -r with the names of the files of both directories: the last name in the
\* second, or a new one, is the target.
\* If that is a file, or is new and A has several names, cp fails.
CopyOntoNames(from, several, to) ==
    IF to.seeds \/ (several /\ ~to.dir) THEN to
    ELSE [to EXCEPT !.dir = TRUE, !.found = @ \union from]
\* The same with the directory as the target.
CopyInto(from, to) == [to EXCEPT !.found = @ \union from]

Init ==
    /\ variant \in Variants
    /\ pc = "original"
    /\ mutations = 0 /\ ind = 1
    /\ src = {}
    /\ bins = {} /\ out = {}
    /\ others \in {{}, {Dictionary}}
    /\ mutantTime \in MutantTimes
    /\ todo = {} /\ used = 0
    /\ input \in {EmptyCorpus, [EmptyCorpus EXCEPT !.seeds = TRUE]}
    /\ storage = EmptyCorpus
    /\ found = {}

fuzzing == <<others, mutantTime, todo, used, input, storage, found>>

-----------------------------------------------------------------------------
(* build() *)

\* The original is built in restored directories and saved.
BuildOriginal ==
    /\ pc = "original"
    /\ \/ bins' = {Original} /\ out' = {Original} /\ pc' = "mutate"
       \/ pc' = "failed" /\ UNCHANGED <<bins, out>>
    /\ UNCHANGED <<variant, mutations, ind, src, fuzzing>>

\* With no source files prioritize divides by zero.
Mutate ==
    /\ pc = "mutate"
    /\ mutations' \in 0 .. MaxMutations
    /\ \/ pc' = "loop"
       \/ variant.prioritize /\ mutations' = 0 /\ pc' = "failed"
    /\ UNCHANGED <<variant, ind, src, bins, out, fuzzing>>

\* In restored directories the mutation replaces its file and $OUT is emptied.
ApplyMutation ==
    /\ pc = "loop"
    /\ ind <= mutations
    /\ src' = src \union {ind}
    /\ out' = {}
    /\ pc' = "compile"
    /\ UNCHANGED <<variant, mutations, ind, bins, fuzzing>>

\* Mutant of Restored: only the mutated file is copied back.
Restored_File(sources) == sources \ {ind}
\* What restore_directory leaves of $SRC.
Restored(sources) == {}

\* A program that is the same as the original's is not kept, nor one that
\* cannot be compiled: then AFL++'s build leaves the sources built in.
BuildMutant ==
    /\ pc = "compile"
    /\ \/ bins' = bins \union {src} /\ out' = {src} /\ src' = Restored(src)
       \/ bins' = bins /\ out' = {src} /\ src' = Restored(src)
       \/ bins' = bins /\ out' = {} /\ src' = Restored(src \union {Built})
    /\ ind' = ind + 1
    /\ pc' = "loop"
    /\ UNCHANGED <<variant, mutations, fuzzing>>

\* The alarm: the exception passes through restore_directory, which puts
\* nothing back then.
Alarm ==
    /\ pc \in {"loop", "compile"}
    /\ ind <= mutations
    /\ pc' = "collect"
    /\ UNCHANGED <<variant, mutations, ind, src, bins, out, fuzzing>>

AllTried ==
    /\ pc = "loop"
    /\ ind > mutations
    /\ pc' = "collect"
    /\ UNCHANGED <<variant, mutations, ind, src, bins, out, fuzzing>>

Collected == bins

Collect ==
    /\ pc = "collect"
    /\ out' = Collected
    /\ pc' = "built"
    /\ UNCHANGED <<variant, mutations, ind, src, bins, fuzzing>>

-----------------------------------------------------------------------------
(* fuzz() *)

\* glob(target.*) finds the dictionary of the target, too.
Mutants == (out \ {Original}) \union others
Timeout ==
    Max({DEFAULT_MUTANT_TIMEOUT,
         mutantTime \div Max({Cardinality(Mutants), 1})})
CeilDiv(a, b) == (a + b - 1) \div b

\* Mutant of NumMutants: all of them.
NumMutants_All == Cardinality(Mutants)
NumMutants == Min({CeilDiv(mutantTime, Timeout), Cardinality(Mutants)})

Fuzz ==
    /\ pc = "built"
    /\ todo' \in kSubset(NumMutants, Mutants)
    /\ pc' = "mutants"
    /\ UNCHANGED <<variant, mutations, ind, src, bins, out, others, mutantTime,
                   used, input, storage, found>>

Refill(corpus) ==
    IF variant.refill
    THEN CopyOntoNames(storage.found, ~storage.dir, corpus)
    ELSE corpus

\* What a mutant finds stays in the store; both corpora are restored.  AFL++
\* has one directory in its output, honggfuzz has two.
Kept(store, finds) ==
    IF variant.toDirectory THEN CopyInto(finds, store)
    ELSE CopyOntoNames(finds, variant.engine = "honggfuzz", store)

FuzzMutant(m) ==
    /\ pc = "mutants"
    /\ todo' = todo \ {m}
    /\ input' = IF storage.found = {} THEN input ELSE Refill(input)
    /\ \/ /\ m \in SUBSET (1 .. MaxMutations)   \* until the timeout
          /\ found' = m
          /\ used' = used + Timeout
       \/ /\ found' = {}                        \* the fuzzer cannot run it
          /\ UNCHANGED used
    /\ storage' = LET store == IF variant.clear THEN EmptyCorpus ELSE storage
                  IN IF found' = {} THEN store ELSE Kept(store, found')
    /\ UNCHANGED <<variant, pc, mutations, ind, src, bins, out, others,
                   mutantTime>>

\* Mutant of Handed: the files of the corpus are the target of cp.
Handed_OntoNames ==
    CopyOntoNames(storage.found, ~storage.dir, input)
Handed ==
    IF variant.toDirectory THEN CopyInto(storage.found, input)
    ELSE IF storage.found = {} THEN input
    ELSE CopyOntoNames(storage.found, ~storage.dir, input)

FuzzTarget ==
    /\ pc = "mutants"
    /\ todo = {}
    /\ input' = Handed
    /\ pc' = "target"
    /\ UNCHANGED <<variant, mutations, ind, src, bins, out, others, mutantTime,
                   todo, used, storage, found>>

Next ==
    \/ BuildOriginal \/ Mutate \/ ApplyMutation \/ BuildMutant \/ Alarm
    \/ AllTried \/ Collect
    \/ Fuzz \/ (\E m \in todo : FuzzMutant(m)) \/ FuzzTarget

Spec == Init /\ [][Next]_vars

-----------------------------------------------------------------------------
TypeOK ==
    /\ variant \in Variants
    /\ mutations \in 0 .. MaxMutations /\ ind \in 1 .. MaxMutations + 1
    /\ src \subseteq 0 .. MaxMutations
    /\ bins \union out \subseteq SUBSET (0 .. MaxMutations)
    /\ input \in Corpus /\ storage \in Corpus

\* A program is built of the original sources with one mutation, although the
\* builds before it may have failed half-way, and build() leaves the original
\* in $OUT wherever the alarm ended it, after $OUT was emptied as well.
MutantsDifferByOneMutation ==
    /\ \A program \in bins : Cardinality(program) <= 1
    /\ pc \in {"built", "mutants", "target"} => Original \in out

\* However many mutants there are, the target has what is left of the trial
\* when the mutants' share, and at most one timeout more, is over.
TargetGetsItsTime == used < mutantTime + DEFAULT_MUTANT_TIMEOUT

\* The variants that copy into the directory hand the finds of the latest
\* mutant to the target (those of the mutants before are cleared; the other
\* variants hand over nothing if there are seeds, as cp fails).
LatestFindsReachTarget ==
    pc = "target" /\ variant.toDirectory => found \subseteq input.found
=============================================================================
