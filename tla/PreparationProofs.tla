-------------------------- MODULE PreparationProofs --------------------------
(***************************************************************************)
(* What happens before trials run, proved for every number of mutations,   *)
(* every time mutants are given and every machine: configurations, cpus    *)
(* and requests (ExperimentConfig, which has no steps: the lemmas are of   *)
(* its operators, for any arguments), the mutants of a benchmark           *)
(* (MutantFuzzers, by an inductive invariant), and the build of every      *)
(* benchmark for every integration (FuzzerBuilds).                         *)
(*                                                                         *)
(* A build() is a sequence of steps of no fixed length, and its proof is   *)
(* not the run of it: a step, and a sequence of steps, "leads" from what   *)
(* is there to what is there after it.  That of two sequences in a row is  *)
(* one lemma (LeadsOn), and an integration's is put together of those of   *)
(* its parts.  The invariants say that what is left of build() leads on,   *)
(* from where the machine is, to what was promised of it.                  *)
(***************************************************************************)
EXTENDS PreparationMC, FiniteSetTheorems, SequenceTheorems, TLAPS

-----------------------------------------------------------------------------
(* Configurations and requests. *)

\* Whatever parameters and values a configuration has, if it is accepted then
\* it has what the experiment reads, and filestores of its kind.
LEMMA AnyAcceptedIsComplete ==
    ASSUME NEW config PROVE C!AcceptedIsComplete(config)
<1> SUFFICES ASSUME C!ConfigValid(config)
             PROVE  /\ C!Read(C!IsLocal(config))
                         \ {"cloud_sql_instance_connection_name"}
                         \subseteq C!FullConfig(config)
                    /\ \A param \in C!Filestores :
                         (config[param].start = "/") <=> C!IsLocal(config)
    BY DEF C!AcceptedIsComplete
<1>1. C!Mandatory(C!IsLocal(config)) \subseteq DOMAIN config
    BY DEF C!ConfigValid
<1>2. C!Read(C!IsLocal(config)) \ {"cloud_sql_instance_connection_name"}
        \subseteq C!FullConfig(config)
    BY <1>1 DEF C!Mandatory, C!Read, C!ReadAlways, C!ReadInCloud, C!FullConfig,
                C!Defaults, C!Set, C!Filestores, C!CloudParams
<1>3. ASSUME NEW param \in C!Filestores
      PROVE  (config[param].start = "/") <=> C!IsLocal(config)
    <2>1. C!ValueValid(param, config[param], C!IsLocal(config))
        BY <1>1 DEF C!ConfigValid, C!Mandatory
    <2>2. C!TypeOf(param) = "str"
        BY DEF C!TypeOf, C!Filestores, C!Flags, C!Numbers
    <2>3. config[param].start \in C!StartsWith(param, C!IsLocal(config))
        BY <2>1, <2>2 DEF C!ValueValid, C!IsInstance
    <2> QED BY <2>3 DEF C!StartsWith
<1> QED BY <1>2, <1>3

\* Every configuration that is accepted is complete.
THEOREM ConfigsAreComplete == PartSpec => []AcceptedIsComplete
<1>1. AcceptedIsComplete
    BY AnyAcceptedIsComplete DEF AcceptedIsComplete
<1> QED BY <1>1, PTL

\* Whatever benchmarks there are, and whatever a request asks for, what it is
\* run with has one type, which is the type of the request.
LEMMA AnyChosenHaveOneType ==
    ASSUME NEW request, NEW all PROVE C!ChosenHaveOneType(request, all)
<1> DEFINE chosen == C!ChosenBenchmarks(request, all)
           type == C!RequestType(request)
<1> SUFFICES ASSUME C!RequestValid(request), chosen # {}
             PROVE  C!TypesValid(chosen) /\ C!ExperimentTypes(chosen) # {}
    BY DEF C!ChosenHaveOneType
<1>1. type \in C!Types
    BY DEF C!RequestValid
<1>2. \A b \in chosen : b.type = type
    BY DEF C!ChosenBenchmarks, C!ValidBenchmarks
<1>3. C!TypesValid(chosen)
    <2>1. {b.type : b \in chosen} \subseteq {type}
        BY <1>2
    <2> QED BY <2>1 DEF C!TypesValid, C!Types
<1>4. type \in C!ExperimentTypes(chosen)
    BY <1>1, <1>2 DEF C!ExperimentTypes
<1> QED BY <1>3, <1>4

\* The benchmarks of a request that is run have one type.
THEOREM ChosenAreOfOneType == PartSpec => []ChosenHaveOneType
<1>1. ChosenHaveOneType
    BY AnyChosenHaveOneType DEF ChosenHaveOneType
<1> QED BY <1>1, PTL

-----------------------------------------------------------------------------
(* Cpus. *)

\* The sets of cpus of two runners are one after the other.
LEMMA SetsAreApart ==
    ASSUME NEW k \in Nat \ {0}, NEW i \in Nat, NEW j \in Nat, i < j
    PROVE  k * i + k - 1 < k * j
<1>1. j >= i + 1
    OBVIOUS
<1>2. k * j >= k * (i + 1)
    BY <1>1
<1>3. k * (i + 1) = k * i + k
    OBVIOUS
<1> QED BY <1>2, <1>3

\* The last set ends within the cpus for runners.
LEMMA SetsAreWithin ==
    ASSUME NEW k \in Nat \ {0}, NEW r \in Nat,
           NEW i \in 0 .. ((r \div k) - 1)
    PROVE  k * i + k - 1 < r
<1>1. (r \div k) \in Nat /\ k * (r \div k) <= r
    OBVIOUS
<1>2. k * i + k - 1 < k * (r \div k)
    BY <1>1, SetsAreApart
<1> QED BY <1>1, <1>2

\* Cpus that are accepted can be given away, on every machine.
LEMMA AnyCpusAreDisjoint ==
    ASSUME NEW runners \in Nat, NEW measurers \in Nat, NEW cpus \in Nat,
           NEW cores \in Int
    PROVE  C!CpusAreDisjoint(runners, measurers, cpus, cores)
<1> DEFINE sets == C!RunnerCpusets(runners, cores)
           rest == C!MeasurerCpus(runners, measurers)
<1> SUFFICES ASSUME C!CpusValid(runners, measurers, cpus, cores),
                    runners # C!None
             PROVE  /\ cores >= 1 => sets # {}
                    /\ \A s \in sets :
                         /\ s \subseteq 0 .. (cpus - 1)
                         /\ s \intersect rest = {}
                         /\ \A t \in sets : s # t => s \intersect t = {}
                    /\ rest \subseteq 0 .. (cpus - 1)
    BY DEF C!CpusAreDisjoint
<1>1. /\ runners >= 1 /\ runners >= cores
      /\ runners + measurers <= cpus
    BY DEF C!CpusValid, C!None
<1>2. rest \subseteq 0 .. (cpus - 1) /\ \A c \in rest : c >= runners
    BY <1>1 DEF C!MeasurerCpus
<1>none. CASE cores < 1
    BY <1>2, <1>none DEF C!RunnerCpusets
<1> SUFFICES ASSUME cores >= 1
             PROVE  /\ sets # {}
                    /\ \A s \in sets :
                         /\ s \subseteq 0 .. (cpus - 1)
                         /\ s \intersect rest = {}
                         /\ \A t \in sets : s # t => s \intersect t = {}
    BY <1>2, <1>none
<1>cores. cores \in Nat \ {0}
    OBVIOUS
<1>sets. sets = {(cores * i) .. (cores * i + cores - 1) :
                    i \in 0 .. ((runners \div cores) - 1)}
    BY DEF C!RunnerCpusets
<1> HIDE DEF sets
<1>3. sets # {}
    <2>1. (runners \div cores) >= 1
        BY <1>1, <1>cores
    <2>2. (cores * 0) .. (cores * 0 + cores - 1) \in sets
        BY <2>1, <1>cores, <1>sets
    <2> QED BY <2>2
<1>4. ASSUME NEW s \in sets
      PROVE  /\ s \subseteq 0 .. (cpus - 1)
             /\ s \intersect rest = {}
             /\ \A t \in sets : s # t => s \intersect t = {}
    <2>1. PICK i \in 0 .. ((runners \div cores) - 1) :
              s = (cores * i) .. (cores * i + cores - 1)
        BY <1>sets
    <2>2. i \in Nat /\ cores * i \in Nat
        BY <1>cores
    <2>3. cores * i + cores - 1 < runners
        BY <1>cores, SetsAreWithin
    <2>4. s \subseteq 0 .. (cpus - 1) /\ s \intersect rest = {}
        BY <1>1, <1>2, <2>1, <2>2, <2>3
    <2>5. ASSUME NEW t \in sets, s # t PROVE s \intersect t = {}
        <3>1. PICK j \in 0 .. ((runners \div cores) - 1) :
                  t = (cores * j) .. (cores * j + cores - 1)
            BY <1>sets
        <3>2. j \in Nat /\ cores * j \in Nat /\ i # j
            BY <1>cores, <2>1, <2>5, <3>1
        <3>3. CASE i < j
            <4>1. cores * i + cores - 1 < cores * j
                BY <1>cores, <2>2, <3>2, <3>3, SetsAreApart
            <4> QED BY <2>1, <2>2, <3>1, <3>2, <4>1
        <3>4. CASE j < i
            <4>1. cores * j + cores - 1 < cores * i
                BY <1>cores, <2>2, <3>2, <3>4, SetsAreApart
            <4> QED BY <2>1, <2>2, <3>1, <3>2, <4>1
        <3> QED BY <2>2, <3>2, <3>3, <3>4
    <2> QED BY <2>4, <2>5
<1> QED BY <1>2, <1>3, <1>4

\* What is asked about cpus is how many there are.
CpusGiven ==
    given.cpus \in [runners : Nat, measurers : Nat, cpus : Nat,
                    cores : Int]

\* Accepted cpus are enough for disjoint sets of them, and for one set where a
\* runner has at least one core.
THEOREM CpusAreApart == PartSpec => []CpusAreDisjoint
<1>1. PartInit => CpusGiven
    <2> SUFFICES ASSUME PartInit PROVE CpusGiven
        OBVIOUS
    <2>1. CASE part = "cpus"
        <3>1. given.cpus \in Cpus
            BY <2>1 DEF PartInit, Given
        <3> QED BY <3>1, PreparationAssumption DEF Cpus, CpusGiven
    <2>2. CASE part # "cpus"
        <3>1. given.cpus = NoCpus
            BY <2>2 DEF PartInit, Given
        <3> QED BY <3>1 DEF NoCpus, CpusGiven
    <2> QED BY <2>1, <2>2
<1>2. CpusGiven /\ [PartNext]_<<part, given, vars, fuzzingMutants>>
        => CpusGiven'
    BY DEF CpusGiven, PartNext
<1>3. CpusGiven => CpusAreDisjoint
    BY AnyCpusAreDisjoint DEF CpusGiven, CpusAreDisjoint
<1> QED BY <1>1, <1>2, <1>3, PTL DEF PartSpec

-----------------------------------------------------------------------------
(* Mutants: the parts of the invariant. *)

\* build() is in one of its steps, or fuzz() is.
MutantsTyped ==
    /\ M!TypeOK
    /\ pc \in {"original", "mutate", "failed", "loop", "compile", "collect",
              "built", "mutants", "target"}
    /\ IsFiniteSet(others)
    /\ mutantTime \in Nat

\* Between two builds there is no mutation in the sources, and in a build
\* there is one; the program of the original is among those that are kept.
SourcesRestored ==
    /\ pc \in {"original", "mutate", "loop"} => src = {}
    /\ pc = "compile" => src = {ind} /\ ind <= mutations
    /\ \A program \in bins : M!Cardinality(program) <= 1
    /\ pc \notin {"original", "failed"} => M!Original \in bins
    /\ pc \in {"built", "mutants", "target"} => M!Original \in out

\* The time that was used and that of the programs left is that of as many
\* timeouts as programs were chosen.
TimeIsShared ==
    IF pc \in {"mutants", "target"}
    THEN /\ IsFiniteSet(todo_)
         /\ used \in Nat
         /\ used + Cardinality(todo_) * M!Timeout <= M!NumMutants * M!Timeout
    ELSE used = 0

\* What the latest mutant found is in the store, and then with the target.
FindsAreKept ==
    variant.toDirectory =>
        /\ found \subseteq storage.found
        /\ pc = "target" => found \subseteq input.found

MutantsInvariant ==
    MutantsTyped /\ SourcesRestored /\ TimeIsShared /\ FindsAreKept

-----------------------------------------------------------------------------
(* Mutants: the operators. *)

\* The larger and the smaller of two numbers.
LEMMA MaxOfTwo ==
    ASSUME NEW a \in Nat, NEW b \in Nat
    PROVE  M!Max({a, b}) = IF a >= b THEN a ELSE b
<1> DEFINE max == IF a >= b THEN a ELSE b
           IsMax(x) == x \in {a, b} /\ \A y \in {a, b} : x >= y
<1>1. IsMax(max)
    OBVIOUS
<1>2. \A x : IsMax(x) => x = max
    OBVIOUS
<1>3. M!Max({a, b}) = CHOOSE x : IsMax(x)
    BY DEF M!Max
<1> QED BY <1>1, <1>2, <1>3

LEMMA MinOfTwo ==
    ASSUME NEW a \in Nat, NEW b \in Nat
    PROVE  M!Min({a, b}) = IF a <= b THEN a ELSE b
<1> DEFINE min == IF a <= b THEN a ELSE b
           IsMin(x) == x \in {a, b} /\ \A y \in {a, b} : x <= y
<1>1. IsMin(min)
    OBVIOUS
<1>2. \A x : IsMin(x) => x = min
    OBVIOUS
<1>3. M!Min({a, b}) = CHOOSE x : IsMin(x)
    BY DEF M!Min
<1> QED BY <1>1, <1>2, <1>3

\* MutantFuzzers counts as this module does.
LEMMA SameCardinality ==
    ASSUME NEW S PROVE M!Cardinality(S) = Cardinality(S)
BY DEF M!Cardinality, Cardinality

\* There are finitely many programs, so that they can be counted.
LEMMA MutantsAreCounted ==
    ASSUME MutantsTyped
    PROVE  IsFiniteSet(M!Mutants) /\ Cardinality(M!Mutants) \in Nat
<1> USE PreparationAssumption DEF M!MutantAssumption
<1>1. IsFiniteSet(0 .. MaxMutations)
    BY FS_Interval
<1>2. IsFiniteSet(SUBSET (0 .. MaxMutations))
    BY <1>1, FS_SUBSET
<1>3. out \ {M!Original} \subseteq SUBSET (0 .. MaxMutations)
    BY DEF MutantsTyped, M!TypeOK
<1>4. IsFiniteSet(out \ {M!Original})
    BY <1>2, <1>3, FS_Subset
<1>5. IsFiniteSet(M!Mutants)
    BY <1>4, FS_Union DEF M!Mutants, MutantsTyped
<1> QED BY <1>5, FS_CardinalityType

\* What a quotient leaves, and what it is rounded up to.
LEMMA Quotient ==
    ASSUME NEW a \in Nat, NEW b \in Nat \ {0}
    PROVE  /\ (a \div b) \in Nat /\ b * (a \div b) <= a
           /\ M!CeilDiv(a, b) \in Nat /\ b * M!CeilDiv(a, b) < a + b
<1>1. /\ (a \div b) \in Nat /\ b * (a \div b) <= a
    OBVIOUS
<1>2. a + b - 1 \in Nat
    OBVIOUS
<1> QED BY <1>1, <1>2 DEF M!CeilDiv

\* As many timeouts as there are programs to run take less than the mutants'
\* share and one timeout more.
LEMMA ShareIsKept ==
    ASSUME MutantsTyped
    PROVE  /\ M!Timeout \in Nat /\ M!NumMutants \in Nat
           /\ M!NumMutants * M!Timeout < mutantTime + M!DEFAULT_MUTANT_TIMEOUT
<1> DEFINE n == Cardinality(M!Mutants)
           m == IF n >= 1 THEN n ELSE 1
           share == mutantTime \div m
           t == IF 3 >= share THEN 3 ELSE share
           most == M!CeilDiv(mutantTime, t)
<1>1. n \in Nat /\ m \in Nat \ {0} /\ n <= m /\ mutantTime \in Nat
    BY MutantsAreCounted DEF MutantsTyped
<1>2. share \in Nat /\ m * share <= mutantTime
    BY <1>1, Quotient
<1>3. t \in Nat \ {0}
    BY <1>2
<1>4. M!Timeout = t
    <2>1. M!Max({n, 1}) = m
        BY <1>1, MaxOfTwo
    <2>2. M!Max({3, share}) = t
        BY <1>2, MaxOfTwo
    <2> QED
        BY <2>1, <2>2, SameCardinality
        DEF M!Timeout, M!DEFAULT_MUTANT_TIMEOUT
<1>5. most \in Nat /\ t * most < mutantTime + t
    BY <1>1, <1>3, Quotient
<1>6. M!NumMutants = IF most <= n THEN most ELSE n
    BY <1>1, <1>4, <1>5, MinOfTwo, SameCardinality DEF M!NumMutants
<1>7. M!NumMutants \in Nat /\ M!NumMutants <= most /\ M!NumMutants <= m
    BY <1>1, <1>5, <1>6
<1> HIDE DEF n, m, share, most
<1>8. CASE t = 3
    <2>1. M!NumMutants * 3 <= most * 3
        BY <1>5, <1>7
    <2> QED BY <1>1, <1>4, <1>5, <1>7, <1>8, <2>1 DEF M!DEFAULT_MUTANT_TIMEOUT
<1>9. CASE t = share
    <2>1. M!NumMutants * share <= m * share
        BY <1>1, <1>2, <1>7
    <2> QED
        BY <1>1, <1>2, <1>3, <1>4, <1>7, <1>9, <2>1
        DEF M!DEFAULT_MUTANT_TIMEOUT
<1> QED BY <1>8, <1>9

-----------------------------------------------------------------------------
(* Mutants: the invariant is inductive. *)

\* It holds before build().
LEMMA MutantsInit == M!Init => MutantsInvariant
<1> SUFFICES ASSUME M!Init PROVE MutantsInvariant
    OBVIOUS
<1> USE PreparationAssumption DEF M!MutantAssumption, M!Init
<1>1. MutantsTyped
    <2>1. IsFiniteSet({}) /\ IsFiniteSet({M!Dictionary})
        BY FS_EmptySet, FS_Singleton
    <2>2. M!EmptyCorpus \in M!Corpus
        BY DEF M!Corpus, M!EmptyCorpus
    <2>3. [M!EmptyCorpus EXCEPT !.seeds = TRUE] \in M!Corpus
        BY DEF M!Corpus, M!EmptyCorpus
    <2>4. M!TypeOK
        <3>1. input \in M!Corpus /\ storage \in M!Corpus
            BY <2>2, <2>3
        <3>2. 0 \in 0 .. MaxMutations /\ 1 \in 1 .. MaxMutations + 1
            OBVIOUS
        <3>3. bins \union out \subseteq SUBSET (0 .. MaxMutations)
            OBVIOUS
        <3> QED BY <3>1, <3>2, <3>3 DEF M!TypeOK
    <2> QED BY <2>1, <2>4 DEF MutantsTyped
<1>2. SourcesRestored
    BY DEF SourcesRestored
<1>3. TimeIsShared
    BY DEF TimeIsShared
<1>4. FindsAreKept
    BY DEF FindsAreKept
<1> QED BY <1>1, <1>2, <1>3, <1>4 DEF MutantsInvariant

\* Corpora stay corpora.
LEMMA CopiedOntoNames ==
    ASSUME NEW finds \in SUBSET (1 .. MaxMutations), NEW several \in BOOLEAN,
           NEW to \in M!Corpus
    PROVE  M!CopyOntoNames(finds, several, to) \in M!Corpus
BY DEF M!CopyOntoNames, M!Corpus

LEMMA CopiedInto ==
    ASSUME NEW finds \in SUBSET (1 .. MaxMutations), NEW to \in M!Corpus
    PROVE  /\ M!CopyInto(finds, to) \in M!Corpus
           /\ M!CopyInto(finds, to).found = to.found \union finds
BY DEF M!CopyInto, M!Corpus

\* The types.
LEMMA MutantsStayTyped ==
    ASSUME MutantsInvariant, M!Next PROVE MutantsTyped'
<1> USE PreparationAssumption
    DEF M!MutantAssumption, MutantsInvariant, MutantsTyped, M!fuzzing
<1>1. CASE M!BuildOriginal
    BY <1>1 DEF M!BuildOriginal, M!TypeOK, M!Original
<1>2. CASE M!Mutate
    BY <1>2 DEF M!Mutate, M!TypeOK
<1>3. CASE M!ApplyMutation
    <2>1. ind \in 0 .. MaxMutations
        BY <1>3 DEF M!ApplyMutation, M!TypeOK
    <2> QED BY <1>3, <2>1 DEF M!ApplyMutation, M!TypeOK
<1>4. CASE M!BuildMutant
    <2>1. ind' \in 1 .. MaxMutations + 1
        BY <1>4 DEF M!BuildMutant, M!TypeOK, SourcesRestored
    <2>2. src' = {}
        BY <1>4 DEF M!BuildMutant, M!Restored
    <2>3. bins' \union out' \subseteq SUBSET (0 .. MaxMutations)
        BY <1>4 DEF M!BuildMutant, M!TypeOK
    <2> QED BY <1>4, <2>1, <2>2, <2>3 DEF M!BuildMutant, M!TypeOK
<1>5. CASE M!Alarm \/ M!AllTried
    BY <1>5 DEF M!Alarm, M!AllTried, M!TypeOK
<1>6. CASE M!Collect
    BY <1>6 DEF M!Collect, M!Collected, M!TypeOK
<1>7. CASE M!Fuzz
    BY <1>7 DEF M!Fuzz, M!TypeOK
<1>8. ASSUME NEW m \in todo_, M!FuzzMutant(m) PROVE MutantsTyped'
    <2>1. input' \in M!Corpus
        BY <1>8, CopiedOntoNames
        DEF M!FuzzMutant, M!Refill, M!TypeOK, M!Corpus
    <2>2. found' \in SUBSET (1 .. MaxMutations)
        BY <1>8 DEF M!FuzzMutant
    <2>3. storage' \in M!Corpus
        <3>1. PICK store \in M!Corpus :
                  storage' \in {store, M!Kept(store, found')}
            BY <1>8 DEF M!FuzzMutant, M!TypeOK, M!EmptyCorpus, M!Corpus
        <3>2. M!Kept(store, found') \in M!Corpus
            BY <2>2, CopiedOntoNames, CopiedInto DEF M!Kept
        <3> QED BY <3>1, <3>2
    <2> QED BY <1>8, <2>1, <2>3 DEF M!FuzzMutant, M!TypeOK
<1>9. CASE M!FuzzTarget
    <2>1. input' \in M!Corpus
        BY <1>9, CopiedOntoNames, CopiedInto
        DEF M!FuzzTarget, M!Handed, M!TypeOK, M!Corpus
    <2> QED BY <1>9, <2>1 DEF M!FuzzTarget, M!TypeOK
<1> QED
    BY <1>1, <1>2, <1>3, <1>4, <1>5, <1>6, <1>7, <1>8, <1>9 DEF M!Next

\* The sources, the programs that are kept, and the original among them.
LEMMA SourcesStayRestored ==
    ASSUME MutantsInvariant, M!Next PROVE SourcesRestored'
<1> USE DEF MutantsInvariant, SourcesRestored, M!fuzzing
<1>1. CASE M!BuildOriginal
    <2>1. M!Cardinality(M!Original) = 0
        BY FS_EmptySet, SameCardinality DEF M!Original
    <2> QED BY <1>1, <2>1 DEF M!BuildOriginal
<1>2. CASE M!Mutate
    BY <1>2 DEF M!Mutate
<1>3. CASE M!ApplyMutation
    BY <1>3 DEF M!ApplyMutation
<1>4. CASE M!BuildMutant
    <2>1. M!Cardinality(src) <= 1
        <3>1. src = {ind}
            BY <1>4 DEF M!BuildMutant
        <3>2. Cardinality({ind}) = 1
            BY FS_Singleton
        <3> QED BY <3>1, <3>2, SameCardinality
    <2>2. src' = {}
        BY <1>4 DEF M!BuildMutant, M!Restored
    <2> QED BY <1>4, <2>1, <2>2 DEF M!BuildMutant
<1>5. CASE M!Alarm \/ M!AllTried
    BY <1>5 DEF M!Alarm, M!AllTried
<1>6. CASE M!Collect
    BY <1>6 DEF M!Collect, M!Collected
<1>7. CASE M!Fuzz
    BY <1>7 DEF M!Fuzz
<1>8. CASE \E m \in todo_ : M!FuzzMutant(m)
    BY <1>8 DEF M!FuzzMutant
<1>9. CASE M!FuzzTarget
    BY <1>9 DEF M!FuzzTarget
<1> QED
    BY <1>1, <1>2, <1>3, <1>4, <1>5, <1>6, <1>7, <1>8, <1>9 DEF M!Next

\* What is counted does not change while programs are run.
LEMMA CountsStay ==
    ASSUME UNCHANGED <<out, others, mutantTime>>
    PROVE  M!Timeout' = M!Timeout /\ M!NumMutants' = M!NumMutants
BY DEF M!Timeout, M!NumMutants, M!Mutants

\* The time.
LEMMA TimeStaysShared ==
    ASSUME MutantsInvariant, M!Next PROVE TimeIsShared'
<1> DEFINE t == M!Timeout
           n == M!NumMutants
<1>1. MutantsTyped /\ t \in Nat /\ n \in Nat
    BY ShareIsKept DEF MutantsInvariant
<1>2. CASE pc' \notin {"mutants", "target"}
    BY <1>2
    DEF MutantsInvariant, TimeIsShared, M!Next, M!BuildOriginal, M!Mutate,
        M!ApplyMutation, M!BuildMutant, M!Alarm, M!AllTried, M!Collect, M!Fuzz,
        M!FuzzMutant, M!FuzzTarget, M!fuzzing
<1>3. CASE M!Fuzz
    <2>1. used' = 0 /\ pc' = "mutants" /\ t' = t /\ n' = n
        BY <1>3, CountsStay DEF M!Fuzz, MutantsInvariant, TimeIsShared
    <2>2. todo_' \subseteq M!Mutants /\ Cardinality(todo_') = n
        BY <1>3, SameCardinality DEF M!Fuzz, M!kSubset
    <2>3. IsFiniteSet(todo_')
        BY <1>1, <2>2, MutantsAreCounted, FS_Subset
    <2> HIDE DEF n, t
    <2>4. 0 + Cardinality(todo_') * t <= n * t
        BY <1>1, <2>2
    <2> QED BY <2>1, <2>3, <2>4 DEF TimeIsShared, n, t
<1>4. ASSUME NEW m \in todo_, M!FuzzMutant(m) PROVE TimeIsShared'
    <2>1. /\ pc = "mutants" /\ pc' = pc /\ todo_' = todo_ \ {m}
          /\ used' \in {used, used + t}
          /\ t' = t /\ n' = n
        BY <1>4, CountsStay DEF M!FuzzMutant
    <2>2. /\ IsFiniteSet(todo_) /\ used \in Nat
          /\ used + Cardinality(todo_) * t <= n * t
        BY <2>1 DEF MutantsInvariant, TimeIsShared
    <2>3. /\ IsFiniteSet(todo_') /\ Cardinality(todo_) \in Nat
          /\ Cardinality(todo_') = Cardinality(todo_) - 1
          /\ Cardinality(todo_') \in Nat
        BY <2>1, <2>2, FS_RemoveElement, FS_CardinalityType
    <2> HIDE DEF n, t
    <2>4. Cardinality(todo_') * t + t = Cardinality(todo_) * t
        BY <1>1, <2>3
    <2>5. used' \in Nat /\ used' + Cardinality(todo_') * t <= n * t
        BY <1>1, <2>1, <2>2, <2>3, <2>4
    <2> QED BY <2>1, <2>3, <2>5 DEF TimeIsShared, n, t
<1>5. CASE M!FuzzTarget
    <2>1. /\ pc = "mutants" /\ pc' = "target"
          /\ UNCHANGED <<todo_, used>> /\ t' = t /\ n' = n
        BY <1>5, CountsStay DEF M!FuzzTarget
    <2> QED BY <2>1 DEF MutantsInvariant, TimeIsShared
<1> QED
    BY <1>2, <1>3, <1>4, <1>5
    DEF M!Next, M!BuildOriginal, M!Mutate, M!ApplyMutation, M!BuildMutant,
        M!Alarm, M!AllTried, M!Collect

\* The finds.
LEMMA FindsStayKept ==
    ASSUME MutantsInvariant, M!Next PROVE FindsAreKept'
<1> USE DEF MutantsInvariant, FindsAreKept, M!fuzzing
<1>1. ASSUME NEW m \in todo_, M!FuzzMutant(m) PROVE FindsAreKept'
    <2>1. variant' = variant /\ pc' = pc /\ pc = "mutants"
        BY <1>1 DEF M!FuzzMutant
    <2>2. CASE found' = {}
        BY <2>1, <2>2
    <2>3. CASE found' # {} /\ variant.toDirectory
        <3>1. PICK store \in M!Corpus : storage' = M!CopyInto(found', store)
            BY <1>1, <2>3
            DEF M!FuzzMutant, M!Kept, MutantsTyped, M!TypeOK, M!EmptyCorpus,
                M!Corpus
        <3>2. found' \in SUBSET (1 .. MaxMutations)
            BY <1>1 DEF M!FuzzMutant
        <3> QED BY <2>1, <3>1, <3>2, CopiedInto
    <2> QED BY <2>1, <2>2, <2>3
<1>2. CASE M!FuzzTarget
    <2>1. /\ UNCHANGED <<variant, found, storage>> /\ input \in M!Corpus
          /\ storage.found \in SUBSET (1 .. MaxMutations)
          /\ variant.toDirectory =>
               input' = M!CopyInto(storage.found, input)
        BY <1>2
        DEF M!FuzzTarget, M!Handed, MutantsTyped, M!TypeOK, M!Corpus
    <2> QED BY <2>1, CopiedInto
<1> QED
    BY <1>1, <1>2
    DEF M!Next, M!BuildOriginal, M!Mutate, M!ApplyMutation, M!BuildMutant,
        M!Alarm, M!AllTried, M!Collect, M!Fuzz

\* The invariant holds throughout.
THEOREM MutantsInvariantHolds == PartSpec => []MutantsInvariant
<1>1. PartInit => MutantsInvariant
    BY MutantsInit DEF PartInit
<1>2. MutantsInvariant /\ M!Next => MutantsInvariant'
    BY MutantsStayTyped, SourcesStayRestored, TimeStaysShared, FindsStayKept
    DEF MutantsInvariant
<1>3. MutantsInvariant /\ UNCHANGED fuzzingMutants => MutantsInvariant'
    BY CountsStay
    DEF fuzzingMutants, MutantsInvariant, MutantsTyped, M!TypeOK,
        SourcesRestored, TimeIsShared, FindsAreKept
<1>4. [PartNext]_<<part, given, vars, fuzzingMutants>>
        => M!Next \/ UNCHANGED fuzzingMutants
    BY DEF PartNext
<1> QED BY <1>1, <1>2, <1>3, <1>4, PTL DEF PartSpec

\* Mutants differ from the original by one mutation, and build() leaves the
\* original, wherever the alarm ends it.
THEOREM OneMutation == PartSpec => []MutantsDifferByOneMutation
<1>1. MutantsInvariant => MutantsDifferByOneMutation
    BY DEF MutantsInvariant, SourcesRestored, MutantsDifferByOneMutation,
           M!MutantsDifferByOneMutation
<1> QED BY <1>1, MutantsInvariantHolds, PTL

\* The target has its share of the trial's time, whatever the mutants' share
\* is and however many there are.
THEOREM TargetHasItsTime == PartSpec => []TargetGetsItsTime
<1>1. MutantsInvariant => TargetGetsItsTime
    <2> SUFFICES ASSUME MutantsInvariant
                 PROVE  used < mutantTime + M!DEFAULT_MUTANT_TIMEOUT
        BY DEF TargetGetsItsTime, M!TargetGetsItsTime
    <2> DEFINE t == M!Timeout
               n == M!NumMutants
    <2>1. /\ t \in Nat /\ n \in Nat /\ mutantTime \in Nat
          /\ n * t < mutantTime + M!DEFAULT_MUTANT_TIMEOUT
        BY ShareIsKept DEF MutantsInvariant, MutantsTyped
    <2>2. CASE pc \in {"mutants", "target"}
        <3>1. /\ used \in Nat /\ Cardinality(todo_) \in Nat
              /\ used + Cardinality(todo_) * t <= n * t
            BY <2>2, FS_CardinalityType DEF MutantsInvariant, TimeIsShared
        <3> HIDE DEF n, t
        <3>2. Cardinality(todo_) * t >= 0
            BY <2>1, <3>1
        <3> QED BY <2>1, <3>1, <3>2 DEF M!DEFAULT_MUTANT_TIMEOUT
    <2>3. CASE pc \notin {"mutants", "target"}
        BY <2>1, <2>3
        DEF MutantsInvariant, TimeIsShared, M!DEFAULT_MUTANT_TIMEOUT
    <2> QED BY <2>2, <2>3
<1> QED BY <1>1, MutantsInvariantHolds, PTL

\* The target is handed what the latest mutant found.
THEOREM FindsReachTarget == PartSpec => []LatestFindsReachTarget
<1>1. MutantsInvariant => LatestFindsReachTarget
    BY DEF MutantsInvariant, FindsAreKept, LatestFindsReachTarget,
           M!LatestFindsReachTarget
<1> QED BY <1>1, MutantsInvariantHolds, PTL

-----------------------------------------------------------------------------
(* Builds: what steps do, and where sequences of them lead. *)

\* What a step does to the sources: whether something was built in them, and
\* what was put aside.
Sources == [dirty : BOOLEAN, backups : Seq(BOOLEAN)]

\* A step leads from a to b: a build only from directories that are restored.
ToSources(step, a, b) ==
    /\ a \in Sources /\ b \in Sources
    /\ step.op = "build" =>
          ~a.dirty /\ b = [dirty |-> TRUE, backups |-> a.backups]
    /\ step.op = "enter" =>
          b = [dirty |-> a.dirty, backups |-> <<a.dirty>> \o a.backups]
    /\ step.op = "exit" =>
          /\ a.backups # <<>>
          /\ b = [dirty |-> Head(a.backups), backups |-> Tail(a.backups)]
    /\ step.op \notin {"build", "enter", "exit"} => b = a

\* A program in $OUT, as the machine puts it there.
Program(dir, kind, asan, pristine, derived) ==
    [dir |-> dir, kind |-> kind, asan |-> asan, pristine |-> pristine,
     derived |-> derived]

\* The environments and $OUT.
Out(e, s, ds, fs, ps) ==
    [env |-> e, saved |-> s, dirs |-> ds, files |-> fs, programs |-> ps]

\* The fuzz target in $OUT itself, and what a new program replaces.
TargetsIn(ps) == {p \in ps : p.dir = OUT /\ ~p.derived}
Puts(ps, p) == {q \in ps : q.derived \/ q.dir # p.dir} \union {p}

\* A step leads from a to b: it raises no error, and a build has its directory.
\* "raise" leads anywhere, for the build is not finished then.
ToOut(step, a, b) ==
    LET dir == a.env.out \o step.dir
        e == Changed(IF step.base = "env" THEN a.env ELSE a.saved, step.change)
        fs == {dir \o In(name) : name \in step.names}
    IN
    /\ step.op = "set" =>
          LET c == Changed(a.env, step.change)
          IN  /\ c.asan \in BOOLEAN
              /\ b = Out(c, a.saved, a.dirs, a.files, a.programs)
    /\ step.op = "save" => b = Out(a.env, a.env, a.dirs, a.files, a.programs)
    /\ step.op = "back" =>
          b = Out(a.saved, a.saved, a.dirs, a.files, a.programs)
    /\ step.op = "build" =>
          /\ e.out \in a.dirs /\ e.asan \in BOOLEAN
          /\ b = Out(a.env, a.saved, a.dirs, a.files,
                     Puts(a.programs,
                          Program(e.out, KindOf(e), e.asan, TRUE, FALSE)))
    /\ step.op \in {"enter", "exit"} => b = a
    /\ step.op = "mkdir" =>
          /\ dir \notin a.dirs
          /\ b = Out(a.env, a.saved, a.dirs \union {dir}, a.files, a.programs)
    /\ step.op = "copy" =>
          /\ dir \in a.dirs
          /\ b = Out(a.env, a.saved, a.dirs, a.files \union fs, a.programs)
    /\ step.op = "move" =>
          /\ step.from \in a.files /\ Front(step.to) \in a.dirs
          /\ b = Out(a.env, a.saved, a.dirs,
                     (a.files \ {step.from}) \union {step.to}, a.programs)
    /\ step.op = "copytarget" =>
          /\ step.dir \in a.dirs
          /\ \A p \in TargetsIn(a.programs) :
               b = Out(a.env, a.saved, a.dirs, a.files,
                       Puts(a.programs, Program(step.dir, p.kind, p.asan,
                                                p.pristine, p.derived)))
    /\ step.op = "derive" =>
          b = Out(a.env, a.saved, a.dirs, a.files,
                  a.programs \union
                    {Program(p.dir, step.kind, p.asan, p.pristine, TRUE) :
                        p \in TargetsIn(a.programs)})

\* The two views of a step are separate.
Does(what, step, a, b) ==
    IF what = "sources" THEN ToSources(step, a, b) ELSE ToOut(step, a, b)

\* A sequence of steps, of whatever steps there are.
IsBuild(steps) == \E S : steps \in Seq(S)

\* Steps lead from a to b, by what is in between.
Leads(what, steps, a, b) ==
    /\ IsBuild(steps)
    /\ \E at : /\ at[1] = a /\ at[Len(steps) + 1] = b
               /\ \A i \in 1 .. Len(steps) :
                    Does(what, steps[i], at[i], at[i + 1])

\* No steps lead nowhere.
LEMMA LeadsNowhere == ASSUME NEW what, NEW a PROVE Leads(what, <<>>, a, a)
<1>1. IsBuild(<<>>) /\ Len(<<>>) = 0
    <2>1. <<>> \in Seq({})
        OBVIOUS
    <2> QED BY <2>1 DEF IsBuild
<1> DEFINE at == [i \in {1} |-> a]
<1>2. at[1] = a
    OBVIOUS
<1> HIDE DEF at
<1> QED BY <1>1, <1>2 DEF Leads

\* One step leads where it goes.
LEMMA LeadsOnce ==
    ASSUME NEW what, NEW step, NEW a, NEW b, Does(what, step, a, b)
    PROVE  Leads(what, <<step>>, a, b)
<1> DEFINE at == [i \in 1 .. 2 |-> IF i = 1 THEN a ELSE b]
<1>1. IsBuild(<<step>>)
    <2>1. <<step>> \in Seq({step})
        OBVIOUS
    <2> QED BY <2>1 DEF IsBuild
<1>2. Len(<<step>>) = 1 /\ <<step>>[1] = step
    OBVIOUS
<1>3. at[1] = a /\ at[2] = b
    OBVIOUS
<1> HIDE DEF at
<1>4. \A i \in 1 .. 1 : Does(what, <<step>>[i], at[i], at[i + 1])
    BY <1>2, <1>3
<1> QED BY <1>1, <1>2, <1>3, <1>4 DEF Leads

\* Steps lead on from where other steps led.
LEMMA LeadsOn ==
    ASSUME NEW what, NEW s, NEW t, NEW a, NEW b, NEW c,
           Leads(what, s, a, b), Leads(what, t, b, c)
    PROVE  Leads(what, s \o t, a, c)
<1>1. PICK S : s \in Seq(S)
    BY DEF Leads, IsBuild
<1>2. PICK T : t \in Seq(T)
    BY DEF Leads, IsBuild
<1>3. s \in Seq(S \union T) /\ t \in Seq(S \union T)
    BY <1>1, <1>2, SeqMonotonic
<1> DEFINE m == Len(s)
           n == Len(t)
<1>4. m \in Nat /\ n \in Nat
    BY <1>3, LenProperties
<1>5. /\ s \o t \in Seq(S \union T) /\ Len(s \o t) = m + n
      /\ \A i \in 1 .. m + n :
           (s \o t)[i] = IF i <= m THEN s[i] ELSE t[i - m]
    BY <1>3, ConcatProperties
<1>6. PICK p : /\ p[1] = a /\ p[m + 1] = b
               /\ \A i \in 1 .. m : Does(what, s[i], p[i], p[i + 1])
    BY DEF Leads
<1>7. PICK q : /\ q[1] = b /\ q[n + 1] = c
               /\ \A i \in 1 .. n : Does(what, t[i], q[i], q[i + 1])
    BY DEF Leads
<1> HIDE DEF m, n
<1> DEFINE at == [i \in 1 .. m + n + 1 |-> IF i <= m THEN p[i] ELSE q[i - m]]
<1>8. at[1] = a /\ at[m + n + 1] = c
    BY <1>4, <1>6, <1>7
<1>a. \A i \in 1 .. m + n + 1 : at[i] = IF i <= m THEN p[i] ELSE q[i - m]
    OBVIOUS
<1> HIDE DEF at
<1>9. ASSUME NEW i \in 1 .. m + n
      PROVE  Does(what, (s \o t)[i], at[i], at[i + 1])
    <2>1. CASE i < m
        <3>1. at[i] = p[i] /\ at[i + 1] = p[i + 1] /\ i \in 1 .. m
            BY <1>4, <1>a, <2>1
        <3> QED BY <1>5, <1>6, <3>1
    <2>2. CASE i = m
        <3>1. at[i] = p[i] /\ at[i + 1] = p[i + 1] /\ i \in 1 .. m
            BY <1>4, <1>6, <1>7, <1>a, <2>2
        <3> QED BY <1>5, <1>6, <3>1
    <2>3. CASE i > m
        <3>1. /\ at[i] = q[i - m] /\ at[i + 1] = q[(i - m) + 1]
              /\ i - m \in 1 .. n /\ ~(i <= m)
            BY <1>4, <1>a, <2>3
        <3> QED BY <1>5, <1>7, <3>1
    <2>4. i < m \/ i = m \/ i > m
        BY <1>4
    <2> QED BY <2>1, <2>2, <2>3, <2>4
<1>10. IsBuild(s \o t)
    BY <1>5 DEF IsBuild
<1> QED BY <1>5, <1>8, <1>9, <1>10 DEF Leads

\* What leads somewhere goes there by its first step and the rest: this is how a
\* step of the machine is found to be one that was foreseen.
LEMMA LeadsFirst ==
    ASSUME NEW what, NEW s, NEW a, NEW b, Leads(what, s, a, b), s # <<>>
    PROVE  \E c : Does(what, s[1], a, c) /\ Leads(what, Tail(s), c, b)
<1>1. PICK S : s \in Seq(S)
    BY DEF Leads, IsBuild
<1> DEFINE n == Len(Tail(s))
<1>2. /\ Len(s) \in Nat \ {0}
      /\ Tail(s) \in Seq(S) /\ n = Len(s) - 1
      /\ \A i \in 1 .. n : Tail(s)[i] = s[i + 1]
    BY <1>1, EmptySeq, HeadTailProperties
<1>3. n \in Nat /\ Len(s) = n + 1
    BY <1>2
<1>4. PICK p : /\ p[1] = a /\ p[n + 2] = b
               /\ \A i \in 1 .. n + 1 : Does(what, s[i], p[i], p[i + 1])
    BY <1>3 DEF Leads
<1> HIDE DEF n
<1> DEFINE at == [i \in 1 .. n + 1 |-> p[i + 1]]
<1>5. at[1] = p[2] /\ at[n + 1] = b
    BY <1>3, <1>4
<1>6. ASSUME NEW i \in 1 .. n PROVE Does(what, Tail(s)[i], at[i], at[i + 1])
    <2>1. at[i] = p[i + 1] /\ at[i + 1] = p[(i + 1) + 1] /\ i + 1 \in 1 .. n + 1
        BY <1>3
    <2> QED BY <1>2, <1>4, <2>1 DEF n
<1> HIDE DEF at
<1>7. IsBuild(Tail(s))
    BY <1>2 DEF IsBuild
<1>8. Leads(what, Tail(s), p[2], b)
    BY <1>5, <1>6, <1>7 DEF Leads, n
<1>9. Does(what, s[1], a, p[2])
    BY <1>3, <1>4
<1> QED BY <1>8, <1>9

-----------------------------------------------------------------------------
(* Sources: what build() leaves of them. *)

At(d, stack) == [dirty |-> d, backups |-> stack]

\* Steps lead from d to e, whatever was put aside before.
Leaves(steps, d, e) ==
    /\ d \in BOOLEAN /\ e \in BOOLEAN
    /\ \A stack \in Seq(BOOLEAN) :
         Leads("sources", steps, At(d, stack), At(e, stack))

\* Steps after steps.
LEMMA LeavesOn ==
    ASSUME NEW s, NEW t, NEW d, NEW e, NEW f, Leaves(s, d, e), Leaves(t, e, f)
    PROVE  Leaves(s \o t, d, f)
BY LeadsOn DEF Leaves

\* No steps.
LEMMA LeavesNothing ==
    ASSUME NEW d \in BOOLEAN PROVE Leaves(<<>>, d, d)
BY LeadsNowhere DEF Leaves

\* The steps that are not about sources.
Idle == {"set", "save", "back", "mkdir", "copy", "move", "copytarget",
         "derive", "raise"}

\* A step that is not about sources leaves them as they are.
LEMMA LeavesAlone ==
    ASSUME NEW step, step.op \in Idle, NEW d \in BOOLEAN
    PROVE  Leaves(<<step>>, d, d)
<1> SUFFICES ASSUME NEW stack \in Seq(BOOLEAN)
             PROVE  Leads("sources", <<step>>, At(d, stack), At(d, stack))
    BY DEF Leaves
<1>1. Does("sources", step, At(d, stack), At(d, stack))
    BY DEF Does, ToSources, At, Sources, Idle
<1> QED BY <1>1, LeadsOnce

\* A build wants directories that nothing was built in, and leaves them dirty.
LEMMA LeavesBuilt ==
    ASSUME NEW base, NEW change
    PROVE  Leaves(BuildsWith(base, change), FALSE, TRUE)
<1> DEFINE step == [op |-> "build", base |-> base, change |-> change]
<1> SUFFICES ASSUME NEW stack \in Seq(BOOLEAN)
             PROVE  Leads("sources", <<step>>, At(FALSE, stack),
                          At(TRUE, stack))
    BY DEF Leaves, BuildsWith
<1>1. Does("sources", step, At(FALSE, stack), At(TRUE, stack))
    BY DEF Does, ToSources, At, Sources
<1> QED BY <1>1, LeadsOnce

\* restore_directory leaves the directories as they were, whatever is done in
\* between; and these may be nested.
LEMMA LeavesRestored ==
    ASSUME NEW s, NEW d, NEW e, Leaves(s, d, e)
    PROVE  Leaves(Restoring(s), d, d)
<1> SUFFICES ASSUME NEW stack \in Seq(BOOLEAN)
             PROVE  Leads("sources", Restoring(s), At(d, stack), At(d, stack))
    BY DEF Leaves
<1> DEFINE more == <<d>> \o stack
           enter == [op |-> "enter"]
           exit == [op |-> "exit"]
<1>1. d \in BOOLEAN /\ e \in BOOLEAN
    BY DEF Leaves
<1>2. /\ more \in Seq(BOOLEAN) /\ more # <<>>
      /\ Head(more) = d /\ Tail(more) = stack
    <2>1. <<d>> \in Seq(BOOLEAN) /\ Len(<<d>>) = 1 /\ <<d>>[1] = d
        BY <1>1
    <2>2. /\ more \in Seq(BOOLEAN) /\ Len(more) = 1 + Len(stack)
          /\ \A i \in 1 .. 1 + Len(stack) :
               more[i] = IF i <= 1 THEN <<d>>[i] ELSE stack[i - 1]
        BY <2>1, ConcatProperties
    <2>3. Len(stack) \in Nat
        BY LenProperties
    <2> HIDE DEF more
    <2>4. more # <<>>
        BY <2>2, <2>3
    <2>5. Head(more) = d
        BY <2>1, <2>2, <2>3
    <2>6. /\ Tail(more) \in Seq(BOOLEAN) /\ Len(Tail(more)) = Len(stack)
          /\ \A i \in 1 .. Len(stack) : Tail(more)[i] = more[i + 1]
        BY <2>2, <2>3, <2>4, HeadTailProperties
    <2>7. \A i \in 1 .. Len(stack) : Tail(more)[i] = stack[i]
        BY <2>2, <2>3, <2>6
    <2>8. Tail(more) = stack
        BY <2>6, <2>7, SeqEqual
    <2> QED BY <2>2, <2>4, <2>5, <2>8
<1> HIDE DEF more
<1>3. Leads("sources", <<enter>>, At(d, stack), At(d, more))
    <2>1. Does("sources", enter, At(d, stack), At(d, more))
        BY <1>1, <1>2 DEF Does, ToSources, At, Sources, more
    <2> QED BY <2>1, LeadsOnce
<1>4. Leads("sources", s, At(d, more), At(e, more))
    BY <1>2 DEF Leaves
<1>5. Leads("sources", <<exit>>, At(e, more), At(d, stack))
    <2>1. Does("sources", exit, At(e, more), At(d, stack))
        BY <1>1, <1>2 DEF Does, ToSources, At, Sources
    <2> QED BY <2>1, LeadsOnce
<1>6. Leads("sources", <<enter>> \o s, At(d, stack), At(e, more))
    BY <1>3, <1>4, LeadsOn
<1> QED BY <1>5, <1>6, LeadsOn DEF Restoring

\* Steps that build nothing.
LEMMA IdleSteps ==
    ASSUME NEW d \in BOOLEAN, NEW x, NEW y
    PROVE  /\ Leaves(Sets(x), d, d) /\ Leaves(Saves, d, d)
           /\ Leaves(Restores, d, d) /\ Leaves(Mkdir(x), d, d)
           /\ Leaves(CopiesTo(x, y), d, d) /\ Leaves(Copies(x), d, d)
           /\ Leaves(Moves(x, y), d, d) /\ Leaves(CopiesTarget(x), d, d)
           /\ Leaves(Derives(x), d, d) /\ Leaves(Raises, d, d)
BY LeavesAlone
DEF Idle, Sets, Saves, Restores, Mkdir, CopiesTo, Copies, Moves, CopiesTarget,
    Derives, Raises

\* A build in the present environment.
LEMMA BuildsOnce == Leaves(Builds, FALSE, TRUE)
BY LeavesBuilt DEF Builds

\* AFL's build, and others with one build.
LEMMA AflSources ==
    ASSUME NEW names
    PROVE  /\ Leaves(AflEnvironment, FALSE, FALSE)
           /\ Leaves(AflBuild(names), FALSE, TRUE)
<1>1. Leaves(AflEnvironment, FALSE, FALSE)
    BY IdleSteps DEF AflEnvironment
<1>2. Leaves(AflEnvironment \o Builds, FALSE, TRUE)
    BY <1>1, BuildsOnce, LeavesOn
<1> QED BY <1>1, <1>2, IdleSteps, LeavesOn DEF AflBuild

\* A build after the environment is set, and files copied after it.
LEMMA OneBuild ==
    ASSUME NEW change, NEW names
    PROVE  /\ Leaves(Sets(change) \o Builds, FALSE, TRUE)
           /\ Leaves(Sets(change) \o Builds \o Copies(names), FALSE, TRUE)
<1>1. Leaves(Sets(change) \o Builds, FALSE, TRUE)
    BY IdleSteps, BuildsOnce, LeavesOn
<1> QED BY <1>1, IdleSteps, LeavesOn

\* AFL++'s modes: there is one build that is not put back.
LEMMA AflPlusPlusSources ==
    ASSUME NEW modes, NEW image,
           "cmplog" \in modes => "symcc" \notin modes
    PROVE  Leaves(AflPlusPlusBuild(modes, image), FALSE,
                  \/ "cmplog" \in modes /\ "qemu" \notin modes
                  \/ "symcc" \in modes)
<1> DEFINE qemu == "qemu" \in modes
           cmplog == "cmplog" \in modes /\ ~qemu
           symcc == "symcc" \in modes
           first == Sets(Compiler(IF qemu THEN "clang" ELSE "afl-clang-fast",
                         IF "eclipser" \in modes THEN "Standalone"
                         ELSE "AFLDriver"))
           second == IF qemu \/ symcc THEN Sets(NoAsan) ELSE <<>>
           third == IF cmplog
                    THEN Mkdir(In("cmplog"))
                         \o BuildsWith("env", Below("cmplog")
                                              ++ Adds({"cmplog"}))
                    ELSE <<>>
           fourth == IF symcc
                     THEN Mkdir(Uninstrumented)
                          \o BuildsWith("env", Below("uninstrumented")
                                               ++ Compiler("symcc", "harness"))
                     ELSE <<>>
<1>1. Leaves(first, FALSE, FALSE)
    BY IdleSteps
<1>2. Leaves(second, FALSE, FALSE)
    BY IdleSteps, LeavesNothing
<1>3. Leaves(Restoring(Builds), FALSE, FALSE)
    BY BuildsOnce, LeavesRestored
<1>4. Leaves(third, FALSE, cmplog)
    BY IdleSteps, LeavesBuilt, LeavesNothing, LeavesOn
<1>5. Leaves(fourth, cmplog, cmplog \/ symcc)
    BY IdleSteps, LeavesBuilt, LeavesNothing, LeavesOn
<1>6. Leaves(Copies(AflPlusPlusTools(image)), cmplog \/ symcc, cmplog \/ symcc)
    BY IdleSteps
<1>7. AflPlusPlusBuild(modes, image) =
        first \o second \o Restoring(Builds) \o third \o fourth
            \o Copies(AflPlusPlusTools(image))
    BY DEF AflPlusPlusBuild
<1> HIDE DEF first, second, third, fourth
<1>8. Leaves(first \o second \o Restoring(Builds), FALSE, FALSE)
    BY <1>1, <1>2, <1>3, LeavesOn
<1>9. Leaves(AflPlusPlusBuild(modes, image), FALSE, cmplog \/ symcc)
    BY <1>4, <1>5, <1>6, <1>7, <1>8, LeavesOn
<1> QED BY <1>9

\* The promise of an integration, about sources.
Sound(i) == \E e : Leaves(i.build, FALSE, e)

\* An integration whose build() leads somewhere is sound.
LEMMA IsSound ==
    ASSUME NEW image, NEW build, NEW fuzz, NEW e, Leaves(build, FALSE, e)
    PROVE  Sound(Integration(image, build, fuzz))
BY DEF Sound, Integration

\* AFL++'s modes that integrations use.
LEMMA AflPlusPlusModes ==
    ASSUME NEW image
    PROVE  /\ Leaves(AflPlusPlusBuild(DefaultModes, image), FALSE, TRUE)
           /\ Leaves(AflPlusPlusBuild({"qemu"}, image), FALSE, FALSE)
           /\ Leaves(AflPlusPlusBuild({"tracepc"}, image), FALSE, FALSE)
           /\ Leaves(AflPlusPlusBuild({"tracepc", "symcc"}, image), FALSE, TRUE)
           /\ Leaves(AflPlusPlusBuild({"qemu", "eclipser"}, image), FALSE,
                     FALSE)
<1>1. Leaves(AflPlusPlusBuild(DefaultModes, image), FALSE, TRUE)
    BY AflPlusPlusSources DEF DefaultModes
<1>2. Leaves(AflPlusPlusBuild({"qemu"}, image), FALSE, FALSE)
    BY AflPlusPlusSources
<1>3. Leaves(AflPlusPlusBuild({"tracepc"}, image), FALSE, FALSE)
    BY AflPlusPlusSources
<1>4. Leaves(AflPlusPlusBuild({"tracepc", "symcc"}, image), FALSE, TRUE)
    BY AflPlusPlusSources
<1>5. Leaves(AflPlusPlusBuild({"qemu", "eclipser"}, image), FALSE, FALSE)
    BY AflPlusPlusSources
<1> QED BY <1>1, <1>2, <1>3, <1>4, <1>5

\* AFL, and the fuzzers that are built as it is.
LEMMA AflAreSound ==
    ASSUME NEW b
    PROVE  /\ Sound(afl(b)) /\ Sound(afl_2_52_b(b))
           /\ Sound(afl_random_favored(b)) /\ Sound(afl_virginmap(b))
           /\ Sound(pythia_bb(b)) /\ Sound(pythia_effect_bb(b))
           /\ Sound(darwin(b)) /\ Sound(fafuzz(b)) /\ Sound(learnperffuzz(b))
           /\ Sound(fairfuzz(b)) /\ Sound(aflfast(b)) /\ Sound(ecofuzz(b))
           /\ Sound(mopt(b)) /\ Sound(manul(b))
           /\ Sound(aflsmart(b)) /\ Sound(aflsmart_plusplus(b))
<1>1. Leaves(afl_build(b), FALSE, TRUE)
    BY AflSources DEF afl_build
<1>2. Leaves(PeachBuild(b), FALSE, TRUE)
    BY <1>1, IdleSteps, LeavesOn DEF PeachBuild
<1>3. \A names, fuzz : Sound(Integration({}, AflBuild(names), fuzz))
    BY AflSources, IsSound
<1>4. \A fuzz : Sound(Integration({}, PeachBuild(b), fuzz))
    BY <1>2, IsSound
<1> QED
    BY <1>3, <1>4
    DEF afl, afl_2_52_b, afl_random_favored, afl_virginmap, pythia_bb,
        pythia_effect_bb, darwin, fafuzz, learnperffuzz, fairfuzz, aflfast,
        ecofuzz, mopt, manul, aflsmart, aflsmart_plusplus, afl_build,
        afl_2_52_b_build, afl_random_favored_build, afl_virginmap_build,
        pythia_bb_build, pythia_effect_bb_build, darwin_build, fafuzz_build,
        learnperffuzz_build, AflBuild

\* The fuzzers with one build in an environment of their own.
LEMMA OneBuildAreSound ==
    ASSUME NEW b
    PROVE  /\ Sound(tortoisefuzz(b)) /\ Sound(lafintel(b)) /\ Sound(neuzz(b))
           /\ Sound(honggfuzz(b)) /\ Sound(honggfuzz_qemu(b))
           /\ Sound(weizz_qemu(b)) /\ Sound(libfuzzer(b))
           /\ Sound(glibfuzzer(b)) /\ Sound(libafl_libfuzzer(b))
           /\ Sound(wingfuzz(b)) /\ Sound(coverage(b)) /\ Sound(centipede(b))
           /\ Sound(centipede_function_filter(b)) /\ Sound(libafl(b))
           /\ Sound(libafl_27042023(b)) /\ Sound(libafl_text(b))
           /\ Sound(nautilus(b)) /\ Sound(token_level(b))
           /\ Sound(gramatron(b)) /\ Sound(grimoire(b))
           /\ Sound(aflcc(b)) /\ Sound(klee(b))
<1>1. \A image, change, names, fuzz :
        Sound(Integration(image,
                          Sets(change) \o Builds \o Copies(names), fuzz))
    BY OneBuild, IsSound
<1>2. \A image, change, fuzz :
        Sound(Integration(image, Sets(change) \o Builds, fuzz))
    BY OneBuild, IsSound
<1>3. Sound(tortoisefuzz(b))
    <2> DEFINE change == Compiler("afl-clang-fast", "AFLDriver")
    <2>1. Leaves(AflEnvironment \o Sets(change), FALSE, FALSE)
        BY AflSources, IdleSteps, LeavesOn
    <2>2. Leaves(AflEnvironment \o Sets(change) \o Builds, FALSE, TRUE)
        BY <2>1, BuildsOnce, LeavesOn
    <2>3. Leaves(AflEnvironment \o Sets(change) \o Builds
                 \o Copies({"afl-fuzz"}), FALSE, TRUE)
        BY <2>2, IdleSteps, LeavesOn
    <2> QED BY <2>3, IsSound DEF tortoisefuzz
<1>4. /\ Sound(lafintel(b)) /\ Sound(neuzz(b)) /\ Sound(honggfuzz(b))
      /\ Sound(honggfuzz_qemu(b)) /\ Sound(weizz_qemu(b))
    BY <1>1 DEF lafintel, neuzz, honggfuzz, HonggfuzzBuild, honggfuzz_qemu,
                weizz_qemu
<1>5. /\ Sound(libfuzzer(b)) /\ Sound(glibfuzzer(b))
      /\ Sound(libafl_libfuzzer(b)) /\ Sound(wingfuzz(b)) /\ Sound(coverage(b))
      /\ Sound(centipede(b)) /\ Sound(centipede_function_filter(b))
      /\ Sound(libafl(b)) /\ Sound(libafl_27042023(b)) /\ Sound(libafl_text(b))
    BY <1>2
    DEF libfuzzer, glibfuzzer, libafl_libfuzzer, wingfuzz, coverage, centipede,
        centipede_function_filter, libafl, libafl_27042023, libafl_text,
        LinkedBuild, Linked, LibAFL
<1>6. ASSUME NEW cc PROVE Sound(Grammar(b, cc))
    <2> DEFINE set == Sets(Compiler(cc, "empty"))
    <2>1. Leaves(Copies({"grammar.json"}) \o set, FALSE, FALSE)
        BY IdleSteps, LeavesOn
    <2>2. Leaves(Copies({"grammar.json"}) \o set \o Builds, FALSE, TRUE)
        BY <2>1, BuildsOnce, LeavesOn
    <2>3. Leaves(Raises, FALSE, FALSE)
        BY IdleSteps
    <2> QED BY <2>2, <2>3, IsSound DEF Grammar
<1>7. /\ Sound(nautilus(b)) /\ Sound(token_level(b)) /\ Sound(gramatron(b))
      /\ Sound(grimoire(b))
    BY <1>6 DEF nautilus, token_level, gramatron, grimoire
<1>8. Sound(aflcc(b))
    <2>1. Leaves(aflcc_build(b), FALSE, TRUE)
        BY OneBuild DEF aflcc_build
    <2>2. Leaves(aflcc_post_build(b), TRUE, TRUE)
        BY IdleSteps, LeavesOn DEF aflcc_post_build
    <2>3. Leaves(aflcc_build(b) \o aflcc_post_build(b), FALSE, TRUE)
        BY <2>1, <2>2, LeavesOn
    <2> QED BY <2>3, IsSound DEF aflcc
<1>9. Sound(klee(b))
    <2>1. Leaves(klee_build(b), FALSE, TRUE)
        BY OneBuild, IdleSteps, LeavesOn DEF klee_build
    <2> QED BY <2>1, IsSound DEF klee
<1> QED BY <1>3, <1>4, <1>5, <1>7, <1>8, <1>9

\* AFL++, its copies, and the fuzzers that call its build().
LEMMA AflPlusPlusAreSound ==
    ASSUME NEW b
    PROVE  /\ Sound(aflplusplus(b)) /\ Sound(aflpp_random_default(b))
           /\ Sound(aflpp_random_no_favs(b)) /\ Sound(aflpp_random_wrs(b))
           /\ Sound(aflpp_random_wrs_rf(b)) /\ Sound(aflpp_random_wrs_rp(b))
           /\ Sound(aflpp_random_wrs_rf_rp(b)) /\ Sound(afl_qemu(b))
           /\ Sound(aflplusplus_qemu(b)) /\ Sound(aflplusplus_frida(b))
           /\ Sound(aflrustrust(b))
<1>1. \A image, fuzz :
        /\ Sound(Integration({}, AflPlusPlusBuild(DefaultModes, image), fuzz))
        /\ Sound(Integration({}, AflPlusPlusBuild({"qemu"}, image), fuzz))
    BY AflPlusPlusModes, IsSound
<1>2. Sound(aflplusplus_frida(b))
    <2>1. Leaves(AflPlusPlusBuild({"qemu"}, FridaFiles)
                 \o Copies({"frida_hook.so"}), FALSE, FALSE)
        BY AflPlusPlusModes, IdleSteps, LeavesOn
    <2> QED BY <2>1, IsSound DEF aflplusplus_frida
<1>3. Sound(aflrustrust(b))
    <2>1. Leaves(AflPlusPlusBuild(DefaultModes, {})
                 \o Copies({"fuzzbench_forkserver"}), FALSE, TRUE)
        BY AflPlusPlusModes, IdleSteps, LeavesOn
    <2> QED BY <2>1, IsSound DEF aflrustrust
<1> QED
    BY <1>1, <1>2, <1>3
    DEF aflplusplus, aflpp_random_default, aflpp_random_no_favs,
        aflpp_random_wrs, aflpp_random_wrs_rf, aflpp_random_wrs_rp,
        aflpp_random_wrs_rf_rp, afl_qemu, aflplusplus_qemu

\* HasteFuzz restores the directories after each of its builds.
LEMMA HasteIsSound == ASSUME NEW b PROVE Sound(hastefuzz(b))
<1> DEFINE set == Sets(Compiler("afl-clang-fast", "AFLDriver"))
           cmplog == Below("cmplog") ++ Adds({"cmplog"})
           haste == IF b.type = "bug"
                    THEN Mkdir(Hastemode)
                         \o Restoring(BuildsWith("env",
                                                 Below("hastemode") ++ NoAsan))
                    ELSE <<>>
<1>1. /\ Leaves(Restoring(Builds), FALSE, FALSE)
      /\ \A change :
           Leaves(Restoring(BuildsWith("env", change)), FALSE, FALSE)
    BY BuildsOnce, LeavesBuilt, LeavesRestored
<1>2. Leaves(haste, FALSE, FALSE)
    BY <1>1, IdleSteps, LeavesNothing, LeavesOn
<1>3. Leaves(set \o Restoring(Builds) \o Mkdir(In("cmplog")), FALSE, FALSE)
    BY <1>1, IdleSteps, LeavesOn
<1>4. hastefuzz(b).build =
        set \o Restoring(Builds) \o Mkdir(In("cmplog"))
            \o Restoring(BuildsWith("env", cmplog)) \o haste
            \o Copies({"afl-fuzz"})
    BY DEF hastefuzz, Integration
<1> HIDE DEF set, cmplog, haste
<1>5. Leaves(set \o Restoring(Builds) \o Mkdir(In("cmplog"))
             \o Restoring(BuildsWith("env", cmplog)) \o haste, FALSE, FALSE)
    BY <1>1, <1>2, <1>3, LeavesOn
<1>6. Leaves(hastefuzz(b).build, FALSE, FALSE)
    BY <1>4, <1>5, IdleSteps, LeavesOn
<1> QED BY <1>6 DEF Sound

\* A second program, in directories where nothing was built.
LEMMA ThenPlainSources == Leaves(ThenPlain, FALSE, TRUE)
<1>1. Leaves(Copies({"afl-fuzz"}) \o Mkdir(Uninstrumented), FALSE, FALSE)
    BY IdleSteps, LeavesOn
<1> QED BY <1>1, LeavesBuilt, LeavesOn DEF ThenPlain

\* The plain program first: AFL++ puts the directories back after both builds.
LEMMA PlainThenSources == Leaves(PlainThenAflPlusPlus, FALSE, FALSE)
<1> DEFINE first == AflPlusPlusBuild({"qemu", "eclipser"}, {})
<1>1. Leaves(Saves \o first, FALSE, FALSE)
    BY IdleSteps, AflPlusPlusModes, LeavesOn
<1> HIDE DEF first
<1>2. Leaves(Saves \o first \o Mkdir(Uninstrumented), FALSE, FALSE)
    BY <1>1, IdleSteps, LeavesOn
<1>3. Leaves(Saves \o first \o Mkdir(Uninstrumented)
             \o CopiesTarget(Uninstrumented), FALSE, FALSE)
    BY <1>2, IdleSteps, LeavesOn
<1>4. Leaves(Saves \o first \o Mkdir(Uninstrumented)
             \o CopiesTarget(Uninstrumented) \o Restores, FALSE, FALSE)
    BY <1>3, IdleSteps, LeavesOn
<1> QED BY <1>4, AflPlusPlusModes, LeavesOn DEF PlainThenAflPlusPlus, first

\* The fuzzers next to a symbolic executor or Eclipser.
LEMMA SymbolicAreSound ==
    ASSUME NEW b
    PROVE  /\ Sound(symcc_afl(b)) /\ Sound(symcc_afl_single(b))
           /\ Sound(symcc_aflplusplus(b)) /\ Sound(symcc_aflplusplus_single(b))
           /\ Sound(symqemu_aflplusplus(b)) /\ Sound(eclipser_aflplusplus(b))
           /\ Sound(eclipser(b)) /\ Sound(eclipser_new(b))
           /\ Sound(fuzzolic_aflplusplus_z3(b))
           /\ Sound(fuzzolic_aflplusplus_fuzzy(b))
<1>1. Leaves(AflTools, FALSE, FALSE)
    BY IdleSteps DEF AflTools
<1>2. Leaves(symcc_afl_build(b), FALSE, TRUE)
    <2>1. Leaves(Restoring(afl_build(b)), FALSE, FALSE)
        BY AflSources, LeavesRestored DEF afl_build
    <2>2. Leaves(Restoring(afl_build(b)) \o AflTools, FALSE, FALSE)
        BY <1>1, <2>1, LeavesOn
    <2>3. Leaves(Restoring(afl_build(b)) \o AflTools \o Mkdir(Uninstrumented),
                 FALSE, FALSE)
        BY <2>2, IdleSteps, LeavesOn
    <2>4. Leaves(Restoring(afl_build(b)) \o AflTools \o Mkdir(Uninstrumented)
                 \o BuildsWith("env", SymCC), FALSE, TRUE)
        BY <2>3, LeavesBuilt, LeavesOn
    <2> QED BY <2>4, IdleSteps, LeavesOn DEF symcc_afl_build
<1>3. Sound(symcc_aflplusplus(b))
    <2> DEFINE first == AflPlusPlusBuild({"tracepc"}, {})
    <2>1. Leaves(Restoring(first), FALSE, FALSE)
        BY AflPlusPlusModes, LeavesRestored
    <2> HIDE DEF first
    <2>2. Leaves(Saves \o Restoring(first) \o AflTools, FALSE, FALSE)
        BY <1>1, <2>1, IdleSteps, LeavesOn
    <2>3. Leaves(Saves \o Restoring(first) \o AflTools
                 \o Mkdir(Uninstrumented), FALSE, FALSE)
        BY <2>2, IdleSteps, LeavesOn
    <2>4. Leaves(Saves \o Restoring(first) \o AflTools
                 \o Mkdir(Uninstrumented) \o BuildsWith("saved", SymCC),
                 FALSE, TRUE)
        BY <2>3, LeavesBuilt, LeavesOn
    <2>5. Leaves(Saves \o Restoring(first) \o AflTools
                 \o Mkdir(Uninstrumented) \o BuildsWith("saved", SymCC)
                 \o CopiesTo(Uninstrumented, SymCCFiles), FALSE, TRUE)
        BY <2>4, IdleSteps, LeavesOn
    <2> QED BY <2>5, IsSound DEF symcc_aflplusplus, first
<1>4. Sound(symcc_aflplusplus_single(b))
    <2> DEFINE first == AflPlusPlusBuild({"tracepc", "symcc"}, {})
    <2>1. Leaves(Restoring(first), FALSE, FALSE)
        BY AflPlusPlusModes, LeavesRestored
    <2> HIDE DEF first
    <2>2. Leaves(Restoring(first) \o AflTools, FALSE, FALSE)
        BY <1>1, <2>1, LeavesOn
    <2>3. Leaves(Restoring(first) \o AflTools
                 \o CopiesTo(Uninstrumented, SymCCFiles), FALSE, FALSE)
        BY <2>2, IdleSteps, LeavesOn
    <2> QED BY <2>3, IsSound DEF symcc_aflplusplus_single, first
<1>5. Sound(symqemu_aflplusplus(b))
    <2>1. Leaves(PlainThenAflPlusPlus \o AflTools, FALSE, FALSE)
        BY <1>1, PlainThenSources, LeavesOn
    <2>2. \A names :
            Leaves(PlainThenAflPlusPlus \o AflTools
                   \o CopiesTo(Uninstrumented, names), FALSE, FALSE)
        BY <2>1, IdleSteps, LeavesOn
    <2> QED BY <2>2, IsSound DEF symqemu_aflplusplus
<1>6. Sound(eclipser_aflplusplus(b))
    <2>1. Leaves(PlainThenAflPlusPlus \o Copies({"afl-fuzz"}), FALSE, FALSE)
        BY PlainThenSources, IdleSteps, LeavesOn
    <2> QED BY <2>1, IsSound DEF eclipser_aflplusplus
<1>7. Leaves(Restoring(Builds), FALSE, FALSE)
    BY BuildsOnce, LeavesRestored
<1>8. Sound(eclipser(b)) /\ Sound(eclipser_new(b))
    <2>1. Leaves(Saves \o AflEnvironment \o Restoring(Builds), FALSE, FALSE)
        BY <1>7, IdleSteps, AflSources, LeavesOn
    <2>2. Leaves(Saves \o AflEnvironment \o Restoring(Builds) \o ThenPlain,
                 FALSE, TRUE)
        BY <2>1, ThenPlainSources, LeavesOn
    <2> QED BY <2>2, IsSound DEF eclipser, eclipser_new
<1>9. Leaves(FuzzolicBuild, FALSE, TRUE)
    <2> DEFINE set == Sets(Compiler("afl-clang-fast", "AFLDriver"))
    <2>1. Leaves(Saves \o set \o Restoring(Builds), FALSE, FALSE)
        BY <1>7, IdleSteps, LeavesOn
    <2> QED BY <2>1, ThenPlainSources, LeavesOn DEF FuzzolicBuild
<1> QED
    BY <1>2, <1>3, <1>4, <1>5, <1>6, <1>8, <1>9, IsSound
    DEF symcc_afl, symcc_afl_single, fuzzolic_aflplusplus_z3,
        fuzzolic_aflplusplus_fuzzy

\* SymSan's two programs and AFL++'s, one restored inside the other.
LEMMA SymsanIsSound == ASSUME NEW b PROVE Sound(symsan(b))
<1> DEFINE change(dir) ==
               Below(dir) ++ [cc |-> "ko-clang", lib |-> "harness"]
               ++ (IF b.name = "libjpeg" THEN Unchanged ELSE NoAsan)
           track == Restoring(BuildsWith("env", change("symsantrack")))
           fast == Restoring(BuildsWith("env", change("symsanfast")))
           inner == Mkdir(In("symsantrack")) \o track
                    \o Mkdir(In("symsanfast")) \o fast
                    \o AflPlusPlusBuild(DefaultModes, {})
<1>1. Leaves(track, FALSE, FALSE) /\ Leaves(fast, FALSE, FALSE)
    BY LeavesBuilt, LeavesRestored
<1>2. symsan(b).build = Restoring(inner) \o Copies({"fastgen"})
    BY DEF symsan, Integration
<1> HIDE DEF track, fast
<1>3. Leaves(Mkdir(In("symsantrack")) \o track \o Mkdir(In("symsanfast")),
             FALSE, FALSE)
    BY <1>1, IdleSteps, LeavesOn
<1>4. Leaves(inner, FALSE, TRUE)
    BY <1>1, <1>3, AflPlusPlusModes, LeavesOn
<1> HIDE DEF inner
<1>5. Leaves(symsan(b).build, FALSE, FALSE)
    BY <1>2, <1>4, LeavesRestored, IdleSteps, LeavesOn
<1> QED BY <1>5 DEF Sound

\* PASTIS's three programs.
LEMMA PastisIsSound == ASSUME NEW b PROVE Sound(pastis(b))
<1> DEFINE dirs_ == Mkdir(TargetAflpp) \o Mkdir(TargetHf)
                    \o Mkdir(In("targets")) \o Mkdir(TargetFuzzers)
           plain == Restoring(BuildsWith("env",
                                         Compiler("clang", "Standalone")))
           aflpp == Restoring(AflPlusPlusBuild(DefaultModes, {}))
           hf == Restoring(HonggfuzzBuild)
           moved == Moves(TargetAflpp \o In("afl-fuzz"),
                          TargetFuzzers \o In("afl-fuzz"))
           last == Moves(TargetHf \o In("honggfuzz"),
                         TargetFuzzers \o In("honggfuzz"))
<1>1. Leaves(dirs_, FALSE, FALSE)
    BY IdleSteps, LeavesOn
<1>2. /\ Leaves(plain, FALSE, FALSE) /\ Leaves(aflpp, FALSE, FALSE)
      /\ Leaves(hf, FALSE, FALSE)
    BY LeavesBuilt, AflPlusPlusModes, OneBuild, LeavesRestored
    DEF HonggfuzzBuild
<1>3. Leaves(moved, FALSE, FALSE) /\ Leaves(last, FALSE, FALSE)
    BY IdleSteps
<1>4. pastis_build(b) =
        dirs_ \o plain \o Sets(To(TargetAflpp)) \o aflpp \o Sets(To(OUT))
            \o moved \o Sets(To(TargetHf)) \o hf \o Sets(To(OUT)) \o last
    BY DEF pastis_build
<1> HIDE DEF dirs_, plain, aflpp, hf, moved, last
<1>5. Leaves(dirs_ \o plain \o Sets(To(TargetAflpp)) \o aflpp \o Sets(To(OUT)),
             FALSE, FALSE)
    BY <1>1, <1>2, IdleSteps, LeavesOn
<1>6. Leaves(pastis_build(b), FALSE, FALSE)
    BY <1>2, <1>3, <1>4, <1>5, IdleSteps, LeavesOn
<1> QED BY <1>6, IsSound DEF pastis

\* The build() of every integration, for any benchmark, builds only in
\* directories that nothing was built in since they were restored.
THEOREM AllAreSound ==
    ASSUME NEW b, NEW f \in DOMAIN Integrations(AnyBenchmark)
    PROVE  Sound(Integrations(b)[f])
<1> DEFINE afls == {"afl", "afl_2_52_b", "afl_random_favored",
                    "afl_virginmap", "pythia_bb", "pythia_effect_bb",
                    "darwin", "fafuzz", "learnperffuzz", "fairfuzz",
                    "aflfast", "ecofuzz", "mopt", "manul", "aflsmart",
                    "aflsmart_plusplus"}
           ones == {"tortoisefuzz", "lafintel", "neuzz", "honggfuzz",
                    "honggfuzz_qemu", "weizz_qemu", "libfuzzer",
                    "glibfuzzer", "libafl_libfuzzer", "wingfuzz", "coverage",
                    "centipede", "centipede_function_filter", "libafl",
                    "libafl_27042023", "libafl_text", "nautilus",
                    "token_level", "gramatron", "grimoire", "aflcc", "klee"}
           modes == {"aflplusplus", "aflpp_random_default",
                     "aflpp_random_no_favs", "aflpp_random_wrs",
                     "aflpp_random_wrs_rf", "aflpp_random_wrs_rp",
                     "aflpp_random_wrs_rf_rp", "afl_qemu",
                     "aflplusplus_qemu", "aflplusplus_frida", "aflrustrust"}
           symbolic == {"symcc_afl", "symcc_afl_single", "symcc_aflplusplus",
                        "symcc_aflplusplus_single", "symqemu_aflplusplus",
                        "eclipser_aflplusplus", "eclipser", "eclipser_new",
                        "fuzzolic_aflplusplus_z3",
                        "fuzzolic_aflplusplus_fuzzy"}
<1>1. \/ f \in afls \/ f \in ones \/ f \in modes \/ f \in symbolic
      \/ f \in {"hastefuzz", "symsan", "pastis"}
    BY DEF Integrations
<1>2. f \in afls => Sound(Integrations(b)[f])
    BY AflAreSound DEF Integrations
<1>3. f \in ones => Sound(Integrations(b)[f])
    BY OneBuildAreSound DEF Integrations
<1>4. f \in modes => Sound(Integrations(b)[f])
    BY AflPlusPlusAreSound DEF Integrations
<1>5. f \in symbolic => Sound(Integrations(b)[f])
    BY SymbolicAreSound DEF Integrations
<1>6. f \in {"hastefuzz", "symsan", "pastis"} => Sound(Integrations(b)[f])
    BY HasteIsSound, SymsanIsSound, PastisIsSound DEF Integrations
<1> QED BY <1>1, <1>2, <1>3, <1>4, <1>5, <1>6

\* It has the parts of a program and no others.
IsProgram(p) == p = Program(p.dir, p.kind, p.asan, p.pristine, p.derived)

\* The parts of a program.
LEMMA ProgramsAre ==
    ASSUME NEW dir, NEW kind, NEW asan, NEW pristine, NEW derived
    PROVE  LET p == Program(dir, kind, asan, pristine, derived)
           IN  /\ IsProgram(p) /\ p.dir = dir /\ p.kind = kind /\ p.asan = asan
               /\ p.pristine = pristine /\ p.derived = derived
BY DEF Program, IsProgram

\* A program with another directory, and a program that is made of another.
LEMMA ProgramsCopied ==
    ASSUME NEW p, IsProgram(p), NEW dir, NEW kind, NEW derived
    PROVE  /\ [p EXCEPT !.dir = dir]
                = Program(dir, p.kind, p.asan, p.pristine, p.derived)
           /\ [p EXCEPT !.kind = kind, !.derived = derived]
                = Program(p.dir, kind, p.asan, p.pristine, derived)
<1> DEFINE q == Program(p.dir, p.kind, p.asan, p.pristine, p.derived)
<1>1. p = q
    BY DEF IsProgram
<1>2. [q EXCEPT !.dir = dir]
        = Program(dir, p.kind, p.asan, p.pristine, p.derived)
    BY DEF Program
<1>3. [q EXCEPT !.kind = kind, !.derived = derived]
        = Program(p.dir, kind, p.asan, p.pristine, derived)
    <2> DEFINE Fields(k, d) ==
                   [dir : {p.dir}, kind : {k}, asan : {p.asan},
                    pristine : {p.pristine}, derived : {d}]
    <2>1. q \in Fields(p.kind, p.derived)
        BY DEF Program
    <2>2. [q EXCEPT !.kind = kind, !.derived = derived]
            \in Fields(kind, derived)
        BY <2>1 DEF Program
    <2>3. \A r \in Fields(kind, derived) :
            r = Program(p.dir, kind, p.asan, p.pristine, derived)
        BY DEF Program
    <2> QED BY <2>2, <2>3
<1> HIDE DEF q
<1> QED BY <1>1, <1>2, <1>3

\* What becomes of the programs in $OUT.
LEMMA ProgramsBuilt ==
    ASSUME build_benchmark
    PROVE  LET e == Changed(IF todo[1].base = "env" THEN env ELSE saved,
                            todo[1].change)
           IN  \/ programs' = programs /\ state' # "building"
               \/ Put(Program(e.out, KindOf(e), e.asan, ~dirty, FALSE))
BY DEF build_benchmark, Fails, Program

\* CopyTarget puts a copy of the target.
LEMMA ProgramsMoved ==
    ASSUME CopyTarget, \A p \in programs : IsProgram(p)
    PROVE  \E p \in Target : Put(Program(todo[1].dir, p.kind, p.asan,
                                         p.pristine, p.derived))
<1>1. PICK p \in Target : Put([p EXCEPT !.dir = todo[1].dir])
    BY DEF CopyTarget
<1>2. IsProgram(p)
    BY DEF Target
<1>3. [p EXCEPT !.dir = todo[1].dir]
        = Program(todo[1].dir, p.kind, p.asan, p.pristine, p.derived)
    BY <1>2, ProgramsCopied
<1> QED BY <1>1, <1>3

\* DeriveProgram adds programs that are made of the target, or fails.
LEMMA ProgramsDerived ==
    ASSUME DeriveProgram, \A p \in programs : IsProgram(p)
    PROVE  \/ programs' = programs /\ state' # "building"
           \/ programs' = programs \union
                {Program(p.dir, todo[1].kind, p.asan, p.pristine, TRUE) :
                    p \in Target}
<1> DEFINE k == todo[1].kind
<1>1. \/ programs' = programs /\ state' # "building"
      \/ programs' = programs \union
            {[p EXCEPT !.kind = k, !.derived = TRUE] : p \in Target}
    BY DEF DeriveProgram, Fails
<1>2. \A p \in Target : [p EXCEPT !.kind = k, !.derived = TRUE]
                          = Program(p.dir, k, p.asan, p.pristine, TRUE)
    BY ProgramsCopied DEF Target
<1>3. {[p EXCEPT !.kind = k, !.derived = TRUE] : p \in Target}
        = {Program(p.dir, k, p.asan, p.pristine, TRUE) : p \in Target}
    BY <1>2
<1> QED BY <1>1, <1>3

\* What is left of build() is sound from where it is.
SourcesAreKept ==
    /\ state = "building" =>
         \E end : Leads("sources", todo, At(dirty, backups), end)
    /\ \A p \in programs : IsProgram(p) /\ p.pristine

\* Initially all of build() is left, and it is sound.
LEMMA SourcesInit == Init => SourcesAreKept
<1> SUFFICES ASSUME Init PROVE SourcesAreKept
    OBVIOUS
<1>1. PICK e : Leaves(todo, FALSE, e)
    BY AllAreSound DEF Init, The, Sound
<1>2. Leads("sources", todo, At(FALSE, <<>>), At(e, <<>>))
    <2>1. <<>> \in Seq(BOOLEAN)
        OBVIOUS
    <2> QED BY <1>1, <2>1 DEF Leaves
<1> QED BY <1>2 DEF Init, SourcesAreKept

\* Every step does what was foreseen of it, so what is left stays sound, and a
\* build is pristine.
LEMMA SourcesNext == SourcesAreKept /\ [Next]_vars => SourcesAreKept'
<1> SUFFICES ASSUME SourcesAreKept, [Next]_vars PROVE SourcesAreKept'
    OBVIOUS
<1>1. CASE UNCHANGED vars
    BY <1>1 DEF vars, SourcesAreKept
<1>2. ASSUME NEW op, Step(op)
      PROVE  \E next, end : /\ ToSources(todo[1], At(dirty, backups), next)
                            /\ Leads("sources", todo', next, end)
    <2>1. PICK end : Leads("sources", todo, At(dirty, backups), end)
        BY <1>2 DEF Step, SourcesAreKept
    <2> QED BY <1>2, <2>1, LeadsFirst DEF Step, Does
<1>3. CASE \/ SetEnvironment \/ SaveEnvironment \/ RestoreEnvironment
           \/ MakeDirectory \/ CopyFiles \/ MoveFile \/ RaiseError
    <2>1. /\ \E op \in Idle : Step(op) /\ todo[1].op = op
          /\ UNCHANGED <<dirty, backups, programs>>
        BY <1>3
        DEF SetEnvironment, SaveEnvironment, RestoreEnvironment, MakeDirectory,
            CopyFiles, MoveFile, RaiseError, Fails, Idle, Step
    <2> QED BY <1>2, <2>1 DEF ToSources, SourcesAreKept, Idle
<1>4. CASE build_benchmark
    <2>1. PICK next, end :
              /\ ToSources(todo[1], At(dirty, backups), next)
              /\ Leads("sources", todo', next, end)
        BY <1>2, <1>4 DEF build_benchmark
    <2>2. ~dirty /\ next = At(TRUE, backups)
        BY <1>4, <2>1 DEF build_benchmark, Step, ToSources, At
    <2>3. CASE state' = "building"
        <3>1. dirty' = TRUE /\ backups' = backups
            BY <1>4, <2>3 DEF build_benchmark, Fails
        <3>2. PICK dir, kind, asan :
                  Put(Program(dir, kind, asan, TRUE, FALSE))
            BY <1>4, <2>2, <2>3, ProgramsBuilt
        <3>3. \A p \in programs' :
                p \in programs \/ p = Program(dir, kind, asan, TRUE, FALSE)
            BY <3>2 DEF Put
        <3>4. Program(dir, kind, asan, TRUE, FALSE).pristine
            BY DEF Program
        <3>5. IsProgram(Program(dir, kind, asan, TRUE, FALSE))
            BY ProgramsAre
        <3>6. \A p \in programs' : IsProgram(p) /\ p.pristine
            BY <3>3, <3>4, <3>5 DEF SourcesAreKept
        <3> QED BY <2>1, <2>2, <3>1, <3>6 DEF SourcesAreKept
    <2>4. CASE state' # "building"
        <3>1. programs' = programs
            BY <1>4, <2>4 DEF build_benchmark, Fails, Step
        <3> QED BY <2>4, <3>1 DEF SourcesAreKept
    <2> QED BY <2>3, <2>4
<1>5. CASE EnterRestoreDirectory \/ restore_directory
    <2>1. PICK next, end :
              /\ ToSources(todo[1], At(dirty, backups), next)
              /\ Leads("sources", todo', next, end)
        BY <1>2, <1>5 DEF EnterRestoreDirectory, restore_directory
    <2>2. next = At(dirty', backups') /\ UNCHANGED programs
        BY <1>5, <2>1
        DEF EnterRestoreDirectory, restore_directory, Step, ToSources, At
    <2> QED BY <2>1, <2>2 DEF SourcesAreKept
<1>6. CASE CopyTarget \/ DeriveProgram
    <2>1. /\ \E op \in Idle : Step(op) /\ todo[1].op = op
          /\ UNCHANGED <<dirty, backups>>
        BY <1>6 DEF CopyTarget, DeriveProgram, Fails, Idle, Step
    <2>2. \A p \in Target : IsProgram(p) /\ p.pristine
        BY DEF Target, SourcesAreKept
    <2>3. ASSUME NEW q \in programs' PROVE IsProgram(q) /\ q.pristine
        <3>1. CASE q \in programs
            BY <3>1 DEF SourcesAreKept
        <3>2. CASE q \notin programs
            <4>1. PICK p \in Target : \E dir, kind, derived :
                    q = Program(dir, kind, p.asan, p.pristine, derived)
                <5>1. \A p \in programs : IsProgram(p)
                    BY DEF SourcesAreKept
                <5>2. CASE CopyTarget
                    BY <3>2, <5>1, <5>2, ProgramsMoved DEF Put
                <5>3. CASE DeriveProgram
                    <6>1. PICK p \in Target :
                              q = Program(p.dir, todo[1].kind, p.asan,
                                          p.pristine, TRUE)
                        BY <3>2, <5>1, <5>3, ProgramsDerived
                    <6>2. \A derived : derived = TRUE =>
                            q = Program(p.dir, todo[1].kind, p.asan,
                                        p.pristine, derived)
                        BY <6>1
                    <6> QED BY <6>2
                <5> QED BY <1>6, <5>2, <5>3
            <4> QED BY <2>2, <4>1, ProgramsAre
        <3> QED BY <3>1, <3>2
    <2> QED BY <1>2, <2>1, <2>3 DEF ToSources, SourcesAreKept, Idle
<1>7. CASE Finish
    BY <1>7 DEF Finish, SourcesAreKept
<1> QED BY <1>1, <1>3, <1>4, <1>5, <1>6, <1>7 DEF Next

-----------------------------------------------------------------------------
(* $OUT: what steps lead to. *)

\* ToOut does not depend on fields the step does not have.
LEMMA SetsLead ==
    ASSUME NEW e, NEW s, NEW ds, NEW fs, NEW ps, NEW c,
           Changed(e, c).asan \in BOOLEAN
    PROVE  Leads("out", Sets(c), Out(e, s, ds, fs, ps),
                 Out(Changed(e, c), s, ds, fs, ps))
<1> DEFINE step == [op |-> "set", change |-> c]
<1>1. Does("out", step, Out(e, s, ds, fs, ps),
           Out(Changed(e, c), s, ds, fs, ps))
    BY DEF Does, ToOut, Out
<1> QED BY <1>1, LeadsOnce DEF Sets

\* The environment is saved, and what was saved comes back.
LEMMA SavesLead ==
    ASSUME NEW e, NEW s, NEW ds, NEW fs, NEW ps
    PROVE  /\ Leads("out", Saves, Out(e, s, ds, fs, ps),
                    Out(e, e, ds, fs, ps))
           /\ Leads("out", Restores, Out(e, s, ds, fs, ps),
                    Out(s, s, ds, fs, ps))
<1>1. Does("out", [op |-> "save"], Out(e, s, ds, fs, ps),
           Out(e, e, ds, fs, ps))
    BY DEF Does, ToOut, Out
<1>2. Does("out", [op |-> "back"], Out(e, s, ds, fs, ps),
           Out(s, s, ds, fs, ps))
    BY DEF Does, ToOut, Out
<1> QED BY <1>1, <1>2, LeadsOnce DEF Saves, Restores

\* A build puts a program into the directory of its environment.
LEMMA BuildsLead ==
    ASSUME NEW e, NEW s, NEW ds, NEW fs, NEW ps, NEW base, NEW c, NEW x,
           x = Changed(IF base = "env" THEN e ELSE s, c),
           x.out \in ds, x.asan \in BOOLEAN
    PROVE  Leads("out", BuildsWith(base, c), Out(e, s, ds, fs, ps),
                 Out(e, s, ds, fs,
                     Puts(ps, Program(x.out, KindOf(x), x.asan, TRUE, FALSE))))
<1> DEFINE step == [op |-> "build", base |-> base, change |-> c]
<1>1. Does("out", step, Out(e, s, ds, fs, ps),
           Out(e, s, ds, fs,
               Puts(ps, Program(x.out, KindOf(x), x.asan, TRUE, FALSE))))
    BY DEF Does, ToOut, Out
<1> QED BY <1>1, LeadsOnce DEF BuildsWith

\* restore_directory changes nothing in $OUT.
LEMMA RestoringLead ==
    ASSUME NEW steps, NEW a, NEW b, Leads("out", steps, a, b)
    PROVE  Leads("out", Restoring(steps), a, b)
<1>1. \A x : /\ Does("out", [op |-> "enter"], x, x)
             /\ Does("out", [op |-> "exit"], x, x)
    BY DEF Does, ToOut
<1>2. /\ Leads("out", <<[op |-> "enter"]>>, a, a)
      /\ Leads("out", <<[op |-> "exit"]>>, b, b)
    BY <1>1, LeadsOnce
<1>3. Leads("out", <<[op |-> "enter"]>> \o steps, a, b)
    BY <1>2, LeadsOn
<1> QED BY <1>2, <1>3, LeadsOn DEF Restoring

\* A directory is made, where there was none.
LEMMA MkdirLeads ==
    ASSUME NEW e, NEW s, NEW ds, NEW fs, NEW ps, NEW dir,
           e.out \o dir \notin ds
    PROVE  Leads("out", Mkdir(dir), Out(e, s, ds, fs, ps),
                 Out(e, s, ds \union {e.out \o dir}, fs, ps))
<1> DEFINE step == [op |-> "mkdir", dir |-> dir]
<1>1. Does("out", step, Out(e, s, ds, fs, ps),
           Out(e, s, ds \union {e.out \o dir}, fs, ps))
    BY DEF Does, ToOut, Out
<1> QED BY <1>1, LeadsOnce DEF Mkdir

\* Files of these names in a directory.
UsesIn(dir, names) == {dir \o In(name) : name \in names}

\* Files are copied into a directory, which is there.
LEMMA CopiesLead ==
    ASSUME NEW e, NEW s, NEW ds, NEW fs, NEW ps, NEW dir, NEW names,
           e.out \o dir \in ds
    PROVE  Leads("out", CopiesTo(dir, names), Out(e, s, ds, fs, ps),
                 Out(e, s, ds, fs \union UsesIn(e.out \o dir, names), ps))
<1> DEFINE step == [op |-> "copy", dir |-> dir, names |-> names]
<1>1. Does("out", step, Out(e, s, ds, fs, ps),
           Out(e, s, ds, fs \union UsesIn(e.out \o dir, names), ps))
    BY DEF Does, ToOut, Out, UsesIn
<1> QED BY <1>1, LeadsOnce DEF CopiesTo

\* A file is moved, which is there, to a directory, which is there.
LEMMA MovesLead ==
    ASSUME NEW e, NEW s, NEW ds, NEW fs, NEW ps, NEW from, NEW to,
           from \in fs, Front(to) \in ds
    PROVE  Leads("out", Moves(from, to), Out(e, s, ds, fs, ps),
                 Out(e, s, ds, (fs \ {from}) \union {to}, ps))
<1> DEFINE step == [op |-> "move", from |-> from, to |-> to]
<1>1. Does("out", step, Out(e, s, ds, fs, ps),
           Out(e, s, ds, (fs \ {from}) \union {to}, ps))
    BY DEF Does, ToOut, Out
<1> QED BY <1>1, LeadsOnce DEF Moves

\* A path of two names.
LEMMA TwoNames ==
    ASSUME NEW S, NEW s \in Seq(S), NEW t \in Seq(S), Len(s) = 1, Len(t) = 1
    PROVE  /\ s \o t \in Seq(S) /\ Len(s \o t) = 2
           /\ (s \o t)[1] = s[1] /\ (s \o t)[2] = t[1]
<1>1. /\ s \o t \in Seq(S) /\ Len(s \o t) = Len(s) + Len(t)
      /\ \A i \in 1 .. Len(s) + Len(t) :
           (s \o t)[i] = IF i <= Len(s) THEN s[i] ELSE t[i - Len(s)]
    BY ConcatProperties
<1> QED BY <1>1

\* Paths of no name, of one and of two.
LEMMA Paths ==
    ASSUME NEW x, NEW y
    PROVE  /\ In(x) # OUT /\ (In(x) = In(y) => x = y)
           /\ OUT \o OUT = OUT /\ OUT \o In(x) = In(x) /\ In(x) \o OUT = In(x)
           /\ In(x) \o In(y) = <<x, y>> /\ Front(In(x) \o In(y)) = In(x)
<1>1. /\ OUT \in Seq({x, y}) /\ In(x) \in Seq({x, y}) /\ In(y) \in Seq({x, y})
      /\ In(x) # OUT /\ (In(x) = In(y) => x = y)
    BY DEF In, OUT
<1>2. OUT \o OUT = OUT /\ OUT \o In(x) = In(x) /\ In(x) \o OUT = In(x)
    BY <1>1, ConcatEmptySeq DEF OUT
<1>3. In(x) \o In(y) = <<x, y>>
    <2> DEFINE xy == <<x, y>>
    <2>1. /\ Len(In(x)) = 1 /\ In(x)[1] = x /\ Len(In(y)) = 1 /\ In(y)[1] = y
        BY DEF In
    <2>2. PICK S : /\ In(x) \in Seq(S) /\ In(y) \in Seq(S) /\ xy \in Seq(S)
        <3>1. xy \in Seq({x, y})
            OBVIOUS
        <3> QED BY <1>1, <3>1
    <2>3. Len(xy) = 2 /\ xy[1] = x /\ xy[2] = y
        OBVIOUS
    <2> HIDE DEF xy
    <2>4. /\ In(x) \o In(y) \in Seq(S) /\ Len(In(x) \o In(y)) = 2
          /\ (In(x) \o In(y))[1] = x /\ (In(x) \o In(y))[2] = y
        BY <2>1, <2>2, TwoNames
    <2>5. \A i \in 1 .. 2 : (In(x) \o In(y))[i] = xy[i]
        BY <2>3, <2>4
    <2>6. In(x) \o In(y) = xy
        BY <2>2, <2>3, <2>4, <2>5, SeqEqual
    <2> QED BY <2>6 DEF xy
<1>4. Front(<<x, y>>) = In(x)
    <2>1. /\ Front(<<x, y>>) \in Seq({x, y}) /\ Len(Front(<<x, y>>)) = 1
          /\ Front(<<x, y>>)[1] = x
        <3> DEFINE xy == <<x, y>>
        <3>1. xy[1] = x /\ xy[2] = y /\ Len(xy) = 2
            OBVIOUS
        <3>2. \A i \in 1 .. 1 : xy[i] \in {x, y}
            BY <3>1
        <3> HIDE DEF xy
        <3>3. Front(xy) = SubSeq(xy, 1, 1)
            BY <3>1 DEF Front
        <3>4. /\ SubSeq(xy, 1, 1) \in Seq({x, y}) /\ Len(SubSeq(xy, 1, 1)) = 1
              /\ SubSeq(xy, 1, 1)[1] = xy[1]
            BY <3>2, SubSeqProperties
        <3> QED BY <3>1, <3>3, <3>4 DEF xy
    <2>2. /\ In(x) \in Seq({x, y}) /\ Len(In(x)) = 1 /\ In(x)[1] = x
        BY DEF In
    <2> QED BY <2>1, <2>2, SeqEqual
<1> QED BY <1>1, <1>2, <1>3, <1>4

\* Paths of one and of two names are different.
LEMMA LongerPaths ==
    ASSUME NEW x, NEW y, NEW z, NEW w
    PROVE  /\ In(x) \o In(y) # OUT /\ In(x) \o In(y) # In(z)
           /\ In(x) \o In(y) = In(z) \o In(w) => x = z /\ y = w
<1>1. <<x, y>> # <<>> /\ <<x, y>> # <<z>>
    OBVIOUS
<1>2. <<x, y>> = <<z, w>> => x = z /\ y = w
    OBVIOUS
<1>3. <<x, y>> # OUT /\ <<x, y>> # In(z)
    BY <1>1 DEF In, OUT
<1> QED BY <1>2, <1>3, Paths

\* An environment.
Env(cc, lib, asan, out_, vs) ==
    [cc |-> cc, lib |-> lib, asan |-> asan, out |-> out_, vars |-> vs]

\* The parts of an environment.
LEMMA EnvFields ==
    ASSUME NEW cc, NEW lib, NEW asan, NEW o, NEW v
    PROVE  LET e == Env(cc, lib, asan, o, v)
           IN  /\ e.cc = cc /\ e.lib = lib /\ e.asan = asan /\ e.out = o
               /\ e.vars = v
BY DEF Env

\* What KindOf says of an environment: for each way of setting it one program.
LEMMA Kinds ==
    ASSUME NEW cc, NEW lib, NEW asan, NEW o, NEW v
    PROVE  LET kind == KindOf(Env(cc, lib, asan, o, v))
           IN  /\ "cmplog" \in v => kind = "cmplog"
               /\ "cmplog" \notin v =>
                    /\ cc \in {"afl-clang", "afl-clang-fast"} => kind = "afl"
                    /\ cc \notin {"afl-clang", "afl-clang-fast", "clang"} =>
                         kind = cc
                    /\ cc = "clang" =>
                         /\ lib = "AFL" /\ "trace-pc-guard" \in v =>
                              kind = "afl"
                         /\ lib \in {"libFuzzer", "glibFuzzer", "Wingfuzz",
                                     "centipede"} => kind = lib
                         /\ lib \in {"QEMU", "Standalone", "AFLDriver"} =>
                              kind = "plain"
<1> DEFINE e == Env(cc, lib, asan, o, v)
<1>1. e.cc = cc /\ e.lib = lib /\ e.vars = v
    BY EnvFields
<1> HIDE DEF e
<1>2. CASE "cmplog" \in v
    <2>1. KindOf(e) = "cmplog"
        BY <1>1, <1>2 DEF KindOf
    <2> QED BY <1>2, <2>1 DEF e
<1>3. CASE "cmplog" \notin v
    <2>1. cc \in {"afl-clang", "afl-clang-fast"} => KindOf(e) = "afl"
        BY <1>1, <1>3 DEF KindOf
    <2>2. cc \notin {"afl-clang", "afl-clang-fast", "clang"} => KindOf(e) = cc
        BY <1>1, <1>3 DEF KindOf
    <2>3. cc = "clang" /\ lib = "AFL" /\ "trace-pc-guard" \in v
            => KindOf(e) = "afl"
        BY <1>1, <1>3 DEF KindOf
    <2>4. lib \in {"libFuzzer", "glibFuzzer", "Wingfuzz", "centipede"}
            => (cc = "clang" => KindOf(e) = lib)
        BY <1>1, <1>3 DEF KindOf
    <2>5. cc = "clang" /\ lib \in {"QEMU", "Standalone", "AFLDriver"}
            => KindOf(e) = "plain"
        BY <1>1, <1>3 DEF KindOf
    <2> QED BY <1>3, <2>1, <2>2, <2>3, <2>4, <2>5 DEF e
<1> QED BY <1>2, <1>3

\* The programs after one is built; what is at a place among them.
Built(ps, dir, kind, asan) == Puts(ps, Program(dir, kind, asan, TRUE, FALSE))

IsAt(ps, dir, kind, asan) ==
    /\ \E p \in ps : p.dir = dir /\ p.kind = kind
    /\ \A p \in ps : p.dir = dir /\ ~p.derived => p.kind = kind /\ p.asan = asan

NoneAt(ps, dir) == \A p \in ps : p.dir # dir

\* fuzz() finds a program it runs, as FuzzFindsItsFiles says.
Found(r, ps) ==
    /\ ~r.optional => \E p \in ps : p.dir = r.dir /\ p.kind = r.kind
    /\ \A p \in ps : p.dir = r.dir /\ ~p.derived =>
          \/ p.kind = r.kind
          \/ \E q \in ps : q.derived /\ q.kind = r.kind

\* A built program takes the place of the one of its directory; the programs of
\* other directories stay.
LEMMA BuiltAt ==
    ASSUME NEW ps, NEW dir, NEW kind, NEW asan
    PROVE  /\ IsAt(Built(ps, dir, kind, asan), dir, kind, asan)
           /\ \A d, k, a : d # dir /\ IsAt(ps, d, k, a) =>
                IsAt(Built(ps, dir, kind, asan), d, k, a)
           /\ \A d : d # dir /\ NoneAt(ps, d) =>
                NoneAt(Built(ps, dir, kind, asan), d)
<1> DEFINE p == Program(dir, kind, asan, TRUE, FALSE)
<1>1. p.dir = dir /\ p.kind = kind /\ p.asan = asan /\ ~p.derived
    BY DEF Program
<1> HIDE DEF p
<1>2. Built(ps, dir, kind, asan) =
        {q \in ps : q.derived \/ q.dir # dir} \union {p}
    BY <1>1 DEF Built, Puts, p
<1>3. \A q : q \in Built(ps, dir, kind, asan) <=>
               q = p \/ (q \in ps /\ (q.derived \/ q.dir # dir))
    BY <1>2
<1> QED BY <1>1, <1>3 DEF IsAt, NoneAt

\* Where no programs are.
LEMMA NothingAt == ASSUME NEW d PROVE NoneAt({}, d)
BY DEF NoneAt

\* A program of the right kind is found.
LEMMA FoundAt ==
    ASSUME NEW ps, NEW dir, NEW kind, NEW asan, IsAt(ps, dir, kind, asan)
    PROVE  /\ \A r \in Runs(dir, kind) : Found(r, ps)
           /\ \A r \in RunsIfBuilt(dir, kind) : Found(r, ps)
BY DEF IsAt, Runs, RunsIfBuilt, Found

\* fuzz() can do without a program if there is no other in its place.
LEMMA FoundIfBuilt ==
    ASSUME NEW ps, NEW dir, NEW kind, NoneAt(ps, dir)
    PROVE  \A r \in RunsIfBuilt(dir, kind) : Found(r, ps)
BY DEF NoneAt, RunsIfBuilt, Found

\* A target is built, copied, and other programs are made of it.
LEMMA BuiltTarget ==
    ASSUME NEW ps, NEW kind, NEW asan
    PROVE  LET p == Program(OUT, kind, asan, TRUE, FALSE)
           IN  /\ TargetsIn(Built(ps, OUT, kind, asan)) = {p}
               /\ \A k : TargetsIn(Built(ps, OUT, kind, asan) \union
                            {Program(OUT, k, asan, TRUE, TRUE)}) = {p}
<1> DEFINE p == Program(OUT, kind, asan, TRUE, FALSE)
<1>1. p.dir = OUT /\ ~p.derived
    BY DEF Program
<1>2. \A k : Program(OUT, k, asan, TRUE, TRUE).derived
    BY DEF Program
<1> HIDE DEF p
<1>3. \A q : q \in Built(ps, OUT, kind, asan) <=>
               q = p \/ (q \in ps /\ (q.derived \/ q.dir # OUT))
    BY <1>1 DEF Built, Puts, p
<1>4. TargetsIn(Built(ps, OUT, kind, asan)) = {p}
    BY <1>1, <1>3 DEF TargetsIn
<1>5. ASSUME NEW k
      PROVE  TargetsIn(Built(ps, OUT, kind, asan) \union
                            {Program(OUT, k, asan, TRUE, TRUE)}) = {p}
    BY <1>1, <1>2, <1>3 DEF TargetsIn
<1> QED BY <1>4, <1>5 DEF p

\* The target is copied into a directory.
LEMMA CopiesTargetLeads ==
    ASSUME NEW e, NEW s, NEW ds, NEW fs, NEW ps, NEW dir \in ds,
           NEW kind, NEW asan,
           TargetsIn(ps) = {Program(OUT, kind, asan, TRUE, FALSE)}
    PROVE  Leads("out", CopiesTarget(dir), Out(e, s, ds, fs, ps),
                 Out(e, s, ds, fs, Built(ps, dir, kind, asan)))
<1> DEFINE step == [op |-> "copytarget", dir |-> dir]
<1>1. \A p \in TargetsIn(ps) :
        Built(ps, dir, kind, asan) =
            Puts(ps, Program(dir, p.kind, p.asan, p.pristine, p.derived))
    <2> DEFINE p == Program(OUT, kind, asan, TRUE, FALSE)
    <2>1. Program(dir, p.kind, p.asan, p.pristine, p.derived)
            = Program(dir, kind, asan, TRUE, FALSE)
        BY DEF Program
    <2> HIDE DEF p
    <2> QED BY <2>1 DEF Built, p
<1>2. Does("out", step, Out(e, s, ds, fs, ps),
           Out(e, s, ds, fs, Built(ps, dir, kind, asan)))
    BY <1>1 DEF Does, ToOut, Out
<1> QED BY <1>2, LeadsOnce DEF CopiesTarget

\* A program is made of the target.
LEMMA DerivesLead ==
    ASSUME NEW e, NEW s, NEW ds, NEW fs, NEW ps, NEW kind, NEW asan, NEW k,
           TargetsIn(ps) = {Program(OUT, kind, asan, TRUE, FALSE)}
    PROVE  Leads("out", Derives(k), Out(e, s, ds, fs, ps),
                 Out(e, s, ds, fs,
                     ps \union {Program(OUT, k, asan, TRUE, TRUE)}))
<1> DEFINE step == [op |-> "derive", kind |-> k]
           p == Program(OUT, kind, asan, TRUE, FALSE)
<1>1. {Program(q.dir, k, q.asan, q.pristine, TRUE) : q \in TargetsIn(ps)}
        = {Program(OUT, k, asan, TRUE, TRUE)}
    <2>1. Program(p.dir, k, p.asan, p.pristine, TRUE)
            = Program(OUT, k, asan, TRUE, TRUE)
        BY DEF Program
    <2> HIDE DEF p
    <2> QED BY <2>1 DEF p
<1>2. Does("out", step, Out(e, s, ds, fs, ps),
           Out(e, s, ds, fs, ps \union {Program(OUT, k, asan, TRUE, TRUE)}))
    BY <1>1 DEF Does, ToOut, Out
<1> QED BY <1>2, LeadsOnce DEF Derives

\* What is promised of an integration, when build() ends.
First(a, image) ==
    LET e == Env("none", "none", a, OUT, {})
    IN  Out(e, e, {OUT}, Uses(image), {})

\* What fuzz() needs is there; and if it must, the target reports memory errors
\* where the benchmark has them (a).
Ends(fuzz, a, must, end) ==
    /\ fuzz.files \subseteq end.files
    /\ \A r \in fuzz.runs : Found(r, end.programs)
    /\ must => \A p \in TargetsIn(end.programs) : p.asan = a

\* The promise of an integration: build() leads to what fuzz() takes.
Fits(i, a, must) ==
    \E end : Leads("out", i.build, First(a, i.image), end)
             /\ Ends(i.fuzz, a, must, end)

\* An integration is as promised if its build() leads to the files and the
\* programs that its fuzz() takes.
LEMMA ItFits ==
    ASSUME NEW image, NEW build, NEW needed, NEW runs, NEW a, NEW must,
           NEW e, NEW s, NEW ds, NEW fs, NEW ps,
           Leads("out", build, First(a, image), Out(e, s, ds, fs, ps)),
           needed \subseteq fs, \A r \in runs : Found(r, ps),
           must => \E kind : IsAt(ps, OUT, kind, a)
    PROVE  Fits(Integration(image, build, Fuzz(needed, runs)), a, must)
<1> DEFINE i == Integration(image, build, Fuzz(needed, runs))
           end == Out(e, s, ds, fs, ps)
<1>1. /\ i.image = image /\ i.build = build /\ i.fuzz = Fuzz(needed, runs)
      /\ i.fuzz.files = needed /\ i.fuzz.runs = runs
    BY DEF Integration, Fuzz
<1>2. end.files = fs /\ end.programs = ps
    BY DEF Out
<1> HIDE DEF i, end
<1>3. must => \A p \in TargetsIn(ps) : p.asan = a
    BY DEF TargetsIn, IsAt
<1>4. Ends(i.fuzz, a, must, end)
    BY <1>1, <1>2, <1>3 DEF Ends
<1>5. Leads("out", i.build, First(a, i.image), end)
    BY <1>1 DEF end
<1>6. Fits(i, a, must)
    BY <1>4, <1>5 DEF Fits
<1> QED BY <1>6 DEF i

\* The environment is set.
LEMMA EnvSet ==
    ASSUME NEW e, NEW s, NEW ds, NEW fs, NEW ps, NEW c,
           NEW cc, NEW lib, NEW asan \in BOOLEAN, NEW o, NEW v,
           Changed(e, c) = Env(cc, lib, asan, o, v)
    PROVE  Leads("out", Sets(c), Out(e, s, ds, fs, ps),
                 Out(Env(cc, lib, asan, o, v), s, ds, fs, ps))
<1>1. Changed(e, c).asan \in BOOLEAN
    BY DEF Env
<1>2. Leads("out", Sets(c), Out(e, s, ds, fs, ps),
            Out(Changed(e, c), s, ds, fs, ps))
    BY <1>1, SetsLead
<1> QED BY <1>2

\* The present environment or the saved one.
Base(base, e, s) == IF base = "env" THEN e ELSE s

\* What the two bases are.
LEMMA Bases ==
    ASSUME NEW e, NEW s
    PROVE  Base("env", e, s) = e /\ Base("saved", e, s) = s
BY DEF Base

\* The benchmark is built, in a changed environment or in the present one.
LEMMA EnvBuilds ==
    ASSUME NEW e, NEW s, NEW ds, NEW fs, NEW ps, NEW base, NEW c,
           NEW cc, NEW lib, NEW asan \in BOOLEAN, NEW o \in ds, NEW v,
           Changed(Base(base, e, s), c) = Env(cc, lib, asan, o, v),
           NEW kind, kind = KindOf(Env(cc, lib, asan, o, v))
    PROVE  Leads("out", BuildsWith(base, c), Out(e, s, ds, fs, ps),
                 Out(e, s, ds, fs, Built(ps, o, kind, asan)))
<1> DEFINE x == Env(cc, lib, asan, o, v)
<1>1. x.out = o /\ x.asan = asan
    BY DEF Env
<1>2. x = Changed(IF base = "env" THEN e ELSE s, c) /\ kind = KindOf(x)
    BY DEF Base
<1> HIDE DEF x
<1>3. Leads("out", BuildsWith(base, c), Out(e, s, ds, fs, ps),
            Out(e, s, ds, fs,
                Puts(ps, Program(x.out, KindOf(x), x.asan, TRUE, FALSE))))
    BY <1>1, <1>2, BuildsLead
<1> QED BY <1>1, <1>2, <1>3 DEF Built

\* A build in the present environment.
LEMMA ItBuilds ==
    ASSUME NEW cc, NEW lib, NEW asan \in BOOLEAN, NEW v,
           NEW s, NEW ds, NEW fs, NEW ps, NEW o \in ds,
           NEW kind, kind = KindOf(Env(cc, lib, asan, o, v))
    PROVE  LET e == Env(cc, lib, asan, o, v)
           IN  Leads("out", Builds, Out(e, s, ds, fs, ps),
                     Out(e, s, ds, fs, Built(ps, o, kind, asan)))
<1> DEFINE e == Env(cc, lib, asan, o, v)
<1>1. Changed(Base("env", e, s), Unchanged) = e
    BY DEF Changed, Unchanged, Env, Base
<1>2. Leads("out", BuildsWith("env", Unchanged), Out(e, s, ds, fs, ps),
            Out(e, s, ds, fs, Built(ps, o, kind, asan)))
    BY <1>1, EnvBuilds
<1> QED BY <1>2 DEF Builds

\* Files are copied into $OUT.
LEMMA UsesOut == ASSUME NEW names PROVE UsesIn(OUT, names) = Uses(names)
<1>1. \A name : OUT \o In(name) = In(name)
    BY Paths
<1> QED BY <1>1 DEF UsesIn, Uses

\* Files are copied into a directory below the one that OUT is set to.
LEMMA ItCopies ==
    ASSUME NEW cc, NEW lib, NEW asan \in BOOLEAN, NEW v, NEW o, NEW dir,
           NEW s, NEW ds, NEW fs, NEW ps, NEW names, NEW to \in ds,
           to = o \o dir
    PROVE  LET e == Env(cc, lib, asan, o, v)
           IN  Leads("out", CopiesTo(dir, names), Out(e, s, ds, fs, ps),
                     Out(e, s, ds, fs \union UsesIn(to, names), ps))
<1> DEFINE e == Env(cc, lib, asan, o, v)
<1>1. e.out = o
    BY DEF Env
<1> HIDE DEF e
<1>2. Leads("out", CopiesTo(dir, names), Out(e, s, ds, fs, ps),
            Out(e, s, ds, fs \union UsesIn(to, names), ps))
    BY <1>1, CopiesLead
<1> QED BY <1>2 DEF e

\* Files are copied into $OUT.
LEMMA ItCopiesOut ==
    ASSUME NEW cc, NEW lib, NEW asan \in BOOLEAN, NEW v,
           NEW s, NEW ds, NEW fs, NEW ps, NEW names, OUT \in ds
    PROVE  LET e == Env(cc, lib, asan, OUT, v)
           IN  Leads("out", Copies(names), Out(e, s, ds, fs, ps),
                     Out(e, s, ds, fs \union Uses(names), ps))
<1>1. OUT = OUT \o OUT
    BY Paths
<1> QED BY <1>1, ItCopies, UsesOut DEF Copies

\* A directory is made below the one that OUT is set to.
LEMMA ItMakes ==
    ASSUME NEW cc, NEW lib, NEW asan \in BOOLEAN, NEW v, NEW o, NEW dir,
           NEW s, NEW ds, NEW fs, NEW ps, NEW to, to = o \o dir, to \notin ds
    PROVE  LET e == Env(cc, lib, asan, o, v)
           IN  Leads("out", Mkdir(dir), Out(e, s, ds, fs, ps),
                     Out(e, s, ds \union {to}, fs, ps))
<1> DEFINE e == Env(cc, lib, asan, o, v)
<1>1. e.out = o
    BY DEF Env
<1> HIDE DEF e
<1>2. Leads("out", Mkdir(dir), Out(e, s, ds, fs, ps),
            Out(e, s, ds \union {e.out \o dir}, fs, ps))
    BY <1>1, MkdirLeads
<1> QED BY <1>1, <1>2 DEF e

\* A directory is made in $OUT.
LEMMA ItMakesBelow ==
    ASSUME NEW cc, NEW lib, NEW asan \in BOOLEAN, NEW v, NEW name,
           NEW s, NEW ds, NEW fs, NEW ps, In(name) \notin ds
    PROVE  LET e == Env(cc, lib, asan, OUT, v)
           IN  Leads("out", Mkdir(In(name)), Out(e, s, ds, fs, ps),
                     Out(e, s, ds \union {In(name)}, fs, ps))
<1>1. In(name) = OUT \o In(name)
    BY Paths
<1> QED BY <1>1, ItMakes

-----------------------------------------------------------------------------
(* $OUT: what each integration leads to. *)

\* What build() begins with.
LEMMA FirstIs ==
    ASSUME NEW a \in BOOLEAN, NEW image
    PROVE  LET e == Env("none", "none", a, OUT, {})
           IN  First(a, image) = Out(e, e, {OUT}, Uses(image), {})
BY DEF First

\* Fuzzers whose benchmark is built once, in $OUT.
LEMMA OneBuildLeads ==
    ASSUME NEW a \in BOOLEAN, NEW image, NEW c, NEW names,
           NEW cc, NEW lib, NEW asan \in BOOLEAN, NEW v,
           Changed(Env("none", "none", a, OUT, {}), c)
             = Env(cc, lib, asan, OUT, v),
           NEW kind, kind = KindOf(Env(cc, lib, asan, OUT, v))
    PROVE  LET e == Env("none", "none", a, OUT, {})
               x == Env(cc, lib, asan, OUT, v)
               ps == Built({}, OUT, kind, asan)
           IN  /\ Leads("out", Sets(c) \o Builds, First(a, image),
                        Out(x, e, {OUT}, Uses(image), ps))
               /\ Leads("out", Sets(c) \o Builds \o Copies(names),
                        First(a, image),
                        Out(x, e, {OUT}, Uses(image) \union Uses(names), ps))
               /\ IsAt(ps, OUT, kind, asan)
<1> DEFINE e == Env("none", "none", a, OUT, {})
           x == Env(cc, lib, asan, OUT, v)
           ps == Built({}, OUT, kind, asan)
           ds == {OUT}
<1>1. Leads("out", Sets(c), First(a, image),
            Out(x, e, ds, Uses(image), {}))
    BY FirstIs, EnvSet
<1>2. OUT \in ds
    OBVIOUS
<1> HIDE DEF ds
<1>3. Leads("out", Builds, Out(x, e, ds, Uses(image), {}),
            Out(x, e, ds, Uses(image), ps))
    BY <1>2, ItBuilds
<1>4. Leads("out", Copies(names), Out(x, e, ds, Uses(image), ps),
            Out(x, e, ds, Uses(image) \union Uses(names), ps))
    BY <1>2, ItCopiesOut
<1>5. IsAt(ps, OUT, kind, asan)
    BY BuiltAt
<1> HIDE DEF e, x, ps
<1>6. Leads("out", Sets(c) \o Builds, First(a, image),
            Out(x, e, ds, Uses(image), ps))
    BY <1>1, <1>3, LeadsOn
<1>7. Leads("out", Sets(c) \o Builds \o Copies(names), First(a, image),
            Out(x, e, ds, Uses(image) \union Uses(names), ps))
    BY <1>4, <1>6, LeadsOn
<1> QED BY <1>5, <1>6, <1>7 DEF e, x, ps, ds

\* They fit, if what fuzz() takes is copied or in the image.
LEMMA OneBuildFits ==
    ASSUME NEW a \in BOOLEAN, NEW image, NEW c, NEW names, NEW needed,
           NEW cc, NEW lib, NEW asan \in BOOLEAN, NEW v,
           Changed(Env("none", "none", a, OUT, {}), c)
             = Env(cc, lib, asan, OUT, v),
           NEW kind, kind = KindOf(Env(cc, lib, asan, OUT, v)),
           NEW must, must => asan = a,
           NEW runs, runs \subseteq Runs(OUT, kind)
    PROVE  /\ needed \subseteq Uses(image) =>
                Fits(Integration(image, Sets(c) \o Builds, Fuzz(needed, runs)),
                     a, must)
           /\ needed \subseteq Uses(image) \union Uses(names) =>
                Fits(Integration(image, Sets(c) \o Builds \o Copies(names),
                                 Fuzz(needed, runs)), a, must)
<1> DEFINE e == Env("none", "none", a, OUT, {})
           x == Env(cc, lib, asan, OUT, v)
           ps == Built({}, OUT, kind, asan)
<1>1. /\ Leads("out", Sets(c) \o Builds, First(a, image),
               Out(x, e, {OUT}, Uses(image), ps))
      /\ Leads("out", Sets(c) \o Builds \o Copies(names), First(a, image),
               Out(x, e, {OUT}, Uses(image) \union Uses(names), ps))
      /\ IsAt(ps, OUT, kind, asan)
    BY OneBuildLeads
<1> HIDE DEF e, x, ps
<1>2. \A r \in runs : Found(r, ps)
    BY <1>1, FoundAt
<1>3. must => \E k : IsAt(ps, OUT, k, a)
    BY <1>1
<1> QED BY <1>1, <1>2, <1>3, ItFits

\* More names, more files.
LEMMA UsesMore ==
    ASSUME NEW x, NEW y
    PROVE  /\ Uses({}) = {}
           /\ x \subseteq y => Uses(x) \subseteq Uses(y)
           /\ Uses(x) \union Uses(y) = Uses(x \union y)
BY DEF Uses

\* AFL, and the fuzzers that are built as it is.
LEMMA AflBuildFits ==
    ASSUME NEW a \in BOOLEAN, NEW names, NEW used_, used_ \subseteq names
    PROVE  Fits(Integration({}, AflBuild(names),
                            Fuzz(Uses(used_), Runs(OUT, "afl"))), a, TRUE)
<1> DEFINE c == Compiler("clang", "AFL") ++ Adds({"trace-pc-guard"})
           e == Env("none", "none", a, OUT, {})
           x == Env("clang", "AFL", a, OUT, {"trace-pc-guard"})
           fuzz == Fuzz(Uses(used_), Runs(OUT, "afl"))
<1>1. Changed(e, c) = x
    <2>1. Changed(e, c)
            = Env("clang", "AFL", a, OUT, {} \union {"trace-pc-guard"})
        BY DEF Changed, Env, ++, Compiler, Adds
    <2> QED BY <2>1
<1>2. KindOf(x) = "afl"
    BY Kinds
<1>3. Uses(used_) \subseteq Uses({}) \union Uses(names)
    BY UsesMore
<1> HIDE DEF c
<1>4. Fits(Integration({}, Sets(c) \o Builds \o Copies(names), fuzz), a, TRUE)
    BY <1>1, <1>2, <1>3, OneBuildFits
<1> QED BY <1>4 DEF AflBuild, AflEnvironment, c

\* AFL and the fuzzers that are built as it is.
LEMMA AflFit ==
    ASSUME NEW b, NEW a \in BOOLEAN
    PROVE  /\ Fits(afl(b), a, TRUE) /\ Fits(afl_2_52_b(b), a, TRUE)
           /\ Fits(afl_random_favored(b), a, TRUE)
           /\ Fits(afl_virginmap(b), a, TRUE) /\ Fits(pythia_bb(b), a, TRUE)
           /\ Fits(pythia_effect_bb(b), a, TRUE) /\ Fits(darwin(b), a, TRUE)
           /\ Fits(fafuzz(b), a, TRUE) /\ Fits(learnperffuzz(b), a, TRUE)
           /\ Fits(fairfuzz(b), a, TRUE) /\ Fits(aflfast(b), a, TRUE)
           /\ Fits(ecofuzz(b), a, TRUE) /\ Fits(mopt(b), a, TRUE)
           /\ Fits(manul(b), a, TRUE)
<1>1. \A names : "afl-fuzz" \in names =>
        Fits(Integration({}, AflBuild(names), AflFuzz({}, "afl")), a, TRUE)
    <2> SUFFICES ASSUME NEW names, "afl-fuzz" \in names
                 PROVE  Fits(Integration({}, AflBuild(names),
                                         AflFuzz({}, "afl")), a, TRUE)
        OBVIOUS
    <2>1. {"afl-fuzz"} \union {} \subseteq names
        OBVIOUS
    <2> QED BY <2>1, AflBuildFits DEF AflFuzz
<1>2. Fits(manul(b), a, TRUE)
    BY AflBuildFits DEF manul, AflBuild
<1> QED
    BY <1>1, <1>2
    DEF afl, afl_2_52_b, afl_random_favored, afl_virginmap, pythia_bb,
        pythia_effect_bb, darwin, fafuzz, learnperffuzz, fairfuzz, aflfast,
        ecofuzz, mopt, afl_build, afl_fuzz,
        afl_2_52_b_build, afl_random_favored_build, afl_virginmap_build,
        pythia_bb_build, pythia_effect_bb_build, darwin_build, fafuzz_build,
        learnperffuzz_build,
        afl_2_52_b_fuzz, afl_random_favored_fuzz, afl_virginmap_fuzz,
        pythia_bb_fuzz, pythia_effect_bb_fuzz, darwin_fuzz, fafuzz_fuzz,
        learnperffuzz_fuzz

\* The same, with files that are copied afterwards.
LEMMA AflBuildLeads ==
    ASSUME NEW a \in BOOLEAN, NEW names
    PROVE  LET e == Env("none", "none", a, OUT, {})
               x == Env("clang", "AFL", a, OUT, {"trace-pc-guard"})
               ps == Built({}, OUT, "afl", a)
           IN  /\ \A s, ds, fs, ps0 :
                    Leads("out", AflEnvironment, Out(e, s, ds, fs, ps0),
                          Out(x, s, ds, fs, ps0))
               /\ Leads("out", AflBuild(names), First(a, {}),
                        Out(x, e, {OUT}, Uses(names), ps))
               /\ IsAt(ps, OUT, "afl", a)
<1> DEFINE c == Compiler("clang", "AFL") ++ Adds({"trace-pc-guard"})
           e == Env("none", "none", a, OUT, {})
           x == Env("clang", "AFL", a, OUT, {"trace-pc-guard"})
           ps == Built({}, OUT, "afl", a)
<1>1. Changed(e, c) = x
    <2>1. Changed(e, c)
            = Env("clang", "AFL", a, OUT, {} \union {"trace-pc-guard"})
        BY DEF Changed, Env, ++, Compiler, Adds
    <2> QED BY <2>1
<1>2. KindOf(x) = "afl"
    BY Kinds
<1> HIDE DEF c
<1>3. /\ Leads("out", Sets(c) \o Builds \o Copies(names), First(a, {}),
               Out(x, e, {OUT}, Uses({}) \union Uses(names), ps))
      /\ IsAt(ps, OUT, "afl", a)
    BY <1>1, <1>2, OneBuildLeads
<1>4. Uses({}) \union Uses(names) = Uses(names)
    BY UsesMore
<1>5. \A s, ds, fs, ps0 : Leads("out", Sets(c), Out(e, s, ds, fs, ps0),
                                Out(x, s, ds, fs, ps0))
    BY <1>1, EnvSet
<1> HIDE DEF e, x, ps
<1> QED BY <1>3, <1>4, <1>5 DEF AflBuild, AflEnvironment, c, e, x, ps

\* AFLSmart, whose fuzz() takes the input models as well.
LEMMA PeachFit ==
    ASSUME NEW b, NEW a \in BOOLEAN
    PROVE  Fits(aflsmart(b), a, TRUE) /\ Fits(aflsmart_plusplus(b), a, TRUE)
<1> DEFINE e == Env("none", "none", a, OUT, {})
           x == Env("clang", "AFL", a, OUT, {"trace-pc-guard"})
           ps == Built({}, OUT, "afl", a)
           ds == {OUT}
           peach == {"peach-3.0.202", "input models"}
           used_ == {"afl-fuzz"} \union peach
<1>1. /\ Leads("out", AflBuild({"afl-fuzz"}), First(a, {}),
               Out(x, e, ds, Uses({"afl-fuzz"}), ps))
      /\ IsAt(ps, OUT, "afl", a)
    BY AflBuildLeads
<1>2. OUT \in ds
    OBVIOUS
<1> HIDE DEF ds, e, ps
<1>3. Leads("out", Copies(peach), Out(x, e, ds, Uses({"afl-fuzz"}), ps),
            Out(x, e, ds, Uses({"afl-fuzz"}) \union Uses(peach), ps))
    BY <1>2, ItCopiesOut
<1>4. Uses({"afl-fuzz"}) \union Uses(peach) = Uses(used_)
    BY UsesMore
<1> HIDE DEF x
<1>5. Leads("out", PeachBuild(b), First(a, {}),
            Out(x, e, ds, Uses(used_), ps))
    BY <1>1, <1>3, <1>4, LeadsOn DEF PeachBuild, afl_build
<1>6. \A r \in Runs(OUT, "afl") : Found(r, ps)
    BY <1>1, FoundAt
<1>7. ASSUME NEW few, few \subseteq peach
      PROVE  Fits(Integration({}, PeachBuild(b), AflFuzz(few, "afl")), a, TRUE)
    <2>1. {"afl-fuzz"} \union few \subseteq used_
        BY <1>7
    <2>2. Uses({"afl-fuzz"} \union few) \subseteq Uses(used_)
        BY <2>1 DEF Uses
    <2>3. \E kind : IsAt(ps, OUT, kind, a)
        BY <1>1
    <2> HIDE DEF used_
    <2> QED BY <1>5, <1>6, <2>2, <2>3, ItFits DEF AflFuzz
<1> QED BY <1>7 DEF aflsmart, aflsmart_plusplus

\* TortoiseFuzz, which has its own compiler in the environment of AFL.
LEMMA TortoiseFits ==
    ASSUME NEW b, NEW a \in BOOLEAN PROVE Fits(tortoisefuzz(b), a, TRUE)
<1> DEFINE c == Compiler("afl-clang-fast", "AFLDriver")
           e == Env("none", "none", a, OUT, {})
           x == Env("clang", "AFL", a, OUT, {"trace-pc-guard"})
           y == Env("afl-clang-fast", "AFLDriver", a, OUT, {"trace-pc-guard"})
           ps == Built({}, OUT, "afl", a)
           ds == {OUT}
<1>1. Leads("out", AflEnvironment, First(a, {}), Out(x, e, ds, Uses({}), {}))
    BY AflBuildLeads, FirstIs
<1>2. Changed(x, c) = y
    BY DEF Changed, Env, Compiler
<1>3. KindOf(y) = "afl"
    BY Kinds
<1>4. OUT \in ds
    OBVIOUS
<1> HIDE DEF c, ds, e
<1>5. Leads("out", Sets(c), Out(x, e, ds, Uses({}), {}),
            Out(y, e, ds, Uses({}), {}))
    BY <1>2, EnvSet
<1>6. Leads("out", Builds, Out(y, e, ds, Uses({}), {}),
            Out(y, e, ds, Uses({}), ps))
    BY <1>3, <1>4, ItBuilds
<1>7. Leads("out", Copies({"afl-fuzz"}), Out(y, e, ds, Uses({}), ps),
            Out(y, e, ds, Uses({}) \union Uses({"afl-fuzz"}), ps))
    BY <1>4, ItCopiesOut
<1>8. IsAt(ps, OUT, "afl", a)
    BY BuiltAt
<1> HIDE DEF x, y, ps
<1>9. Leads("out", AflEnvironment \o Sets(c) \o Builds, First(a, {}),
            Out(y, e, ds, Uses({}), ps))
    BY <1>1, <1>5, <1>6, LeadsOn
<1>10. Leads("out", AflEnvironment \o Sets(c) \o Builds \o Copies({"afl-fuzz"}),
             First(a, {}),
             Out(y, e, ds, Uses({}) \union Uses({"afl-fuzz"}), ps))
    BY <1>7, <1>9, LeadsOn
<1>11. /\ \A r \in Runs(OUT, "afl") : Found(r, ps)
       /\ \E kind : IsAt(ps, OUT, kind, a)
    BY <1>8, FoundAt
<1>12. Uses({"afl-fuzz"} \union {}) \subseteq Uses({}) \union Uses({"afl-fuzz"})
    <2>1. {"afl-fuzz"} \union {} = {"afl-fuzz"}
        OBVIOUS
    <2> QED BY <2>1
<1> QED BY <1>10, <1>11, <1>12, ItFits DEF tortoisefuzz, AflFuzz, c

\* Fuzzers with one build in an environment of their own.
LEMMA OwnBuildFits ==
    ASSUME NEW a \in BOOLEAN, NEW cc, NEW lib, NEW kind,
           kind = KindOf(Env(cc, lib, a, OUT, {})),
           NEW image, NEW names, NEW needed
    PROVE  /\ needed \subseteq image =>
                Fits(Integration(image, Sets(Compiler(cc, lib)) \o Builds,
                                 Fuzz(Uses(needed), Runs(OUT, kind))), a, TRUE)
           /\ needed \subseteq names =>
                Fits(Integration(image, Sets(Compiler(cc, lib)) \o Builds
                                 \o Copies(names),
                                 Fuzz(Uses(needed), Runs(OUT, kind))), a, TRUE)
           /\ Fits(Integration(image, Sets(Compiler(cc, lib)) \o Builds,
                               Fuzz({}, {})), a, TRUE)
<1> DEFINE c == Compiler(cc, lib)
           i == Integration(image, Sets(c) \o Builds,
                            Fuzz(Uses(needed), Runs(OUT, kind)))
           j == Integration(image, Sets(c) \o Builds \o Copies(names),
                            Fuzz(Uses(needed), Runs(OUT, kind)))
           k == Integration(image, Sets(c) \o Builds, Fuzz({}, {}))
<1>1. Changed(Env("none", "none", a, OUT, {}), c) = Env(cc, lib, a, OUT, {})
    BY DEF Changed, Env, Compiler
<1> HIDE DEF c
<1>2. needed \subseteq image => Fits(i, a, TRUE)
    <2> SUFFICES ASSUME needed \subseteq image PROVE Fits(i, a, TRUE)
        OBVIOUS
    <2>1. Uses(needed) \subseteq Uses(image)
        BY DEF Uses
    <2> QED BY <1>1, <2>1, OneBuildFits
<1>3. needed \subseteq names => Fits(j, a, TRUE)
    <2> SUFFICES ASSUME needed \subseteq names PROVE Fits(j, a, TRUE)
        OBVIOUS
    <2>1. Uses(needed) \subseteq Uses(image) \union Uses(names)
        BY DEF Uses
    <2> QED BY <1>1, <2>1, OneBuildFits
<1>4. Fits(k, a, TRUE)
    BY <1>1, OneBuildFits
<1> QED BY <1>2, <1>3, <1>4 DEF c

\* Fuzzers with a compiler of their own.
LEMMA OwnBuildsFit ==
    ASSUME NEW b, NEW a \in BOOLEAN
    PROVE  /\ Fits(lafintel(b), a, TRUE) /\ Fits(neuzz(b), a, TRUE)
           /\ Fits(honggfuzz(b), a, TRUE) /\ Fits(honggfuzz_qemu(b), a, TRUE)
<1>1. Fits(lafintel(b), a, TRUE)
    <2>1. KindOf(Env("afl-clang-fast", "AFL", a, OUT, {})) = "afl"
        BY Kinds
    <2>2. {"afl-fuzz"} \union {} \subseteq {"afl-fuzz"}
        OBVIOUS
    <2> QED BY <2>1, <2>2, OwnBuildFits DEF lafintel, afl_fuzz, AflFuzz
<1>2. Fits(neuzz(b), a, TRUE)
    <2>1. KindOf(Env("afl-clang", "Neuzz", a, OUT, {})) = "afl"
        BY Kinds
    <2>2. {"afl-fuzz"} \union {"neuzz", "nn.py"}
            \subseteq {"afl-fuzz", "afl-showmap", "neuzz", "nn.py"}
        OBVIOUS
    <2> QED BY <2>1, <2>2, OwnBuildFits DEF neuzz, AflFuzz
<1>3. Fits(honggfuzz(b), a, TRUE)
    <2>1. KindOf(Env("hfuzz-clang", "empty", a, OUT, {})) = "hfuzz-clang"
        BY Kinds
    <2> QED BY <2>1, OwnBuildFits DEF honggfuzz, HonggfuzzBuild
<1>4. Fits(honggfuzz_qemu(b), a, TRUE)
    <2>1. KindOf(Env("clang", "QEMU", a, OUT, {})) = "plain"
        BY Kinds
    <2> QED BY <2>1, OwnBuildFits DEF honggfuzz_qemu
<1> QED BY <1>1, <1>2, <1>3, <1>4

\* Weizz's program has no sanitizers.
LEMMA WeizzFits ==
    ASSUME NEW b, NEW a \in BOOLEAN PROVE Fits(weizz_qemu(b), a, FALSE)
<1> DEFINE c == Compiler("clang", "QEMU") ++ NoAsan
           names == {"weizz", "weizz-qemu"}
           fuzz == Fuzz(Uses(names), Runs(OUT, "plain"))
<1>1. Changed(Env("none", "none", a, OUT, {}), c)
        = Env("clang", "QEMU", FALSE, OUT, {})
    BY DEF Changed, Env, ++, Compiler, NoAsan
<1>2. KindOf(Env("clang", "QEMU", FALSE, OUT, {})) = "plain"
    <2>1. \A f : KindOf(Env("clang", "QEMU", f, OUT, {})) = "plain"
        BY Kinds
    <2> QED BY <2>1
<1>3. Uses(names) \subseteq Uses({}) \union Uses(names)
    OBVIOUS
<1> HIDE DEF c, names
<1>4. Fits(Integration({}, Sets(c) \o Builds \o Copies(names), fuzz), a, FALSE)
    BY <1>1, <1>2, <1>3, OneBuildFits
<1> QED BY <1>4 DEF weizz_qemu, c, names

\* Fuzzers that are linked into the benchmark.
LEMMA LinkedFit ==
    ASSUME NEW b, NEW a \in BOOLEAN
    PROVE  /\ Fits(libfuzzer(b), a, TRUE) /\ Fits(glibfuzzer(b), a, TRUE)
           /\ Fits(libafl_libfuzzer(b), a, TRUE) /\ Fits(wingfuzz(b), a, TRUE)
           /\ Fits(coverage(b), a, TRUE) /\ Fits(centipede(b), a, TRUE)
           /\ Fits(centipede_function_filter(b), a, TRUE)
           /\ Fits(libafl(b), a, TRUE) /\ Fits(libafl_27042023(b), a, TRUE)
           /\ Fits(libafl_text(b), a, TRUE)
<1> DEFINE libs == {"libFuzzer", "glibFuzzer", "Wingfuzz", "centipede"}
<1>1. \A lib \in libs : KindOf(Env("clang", lib, a, OUT, {})) = lib
    BY Kinds
<1>2. \A lib \in libs : Fits(Linked(lib), a, TRUE)
    <2> SUFFICES ASSUME NEW lib \in libs PROVE Fits(Linked(lib), a, TRUE)
        OBVIOUS
    <2>1. KindOf(Env("clang", lib, a, OUT, {})) = lib /\ Uses({}) = {}
        BY <1>1, UsesMore
    <2>2. Fits(Integration({}, Sets(Compiler("clang", lib)) \o Builds,
                           Fuzz(Uses({}), Runs(OUT, lib))), a, TRUE)
        BY <2>1, OwnBuildFits
    <2> QED BY <2>1, <2>2 DEF Linked, LinkedBuild
<1>3. Fits(centipede(b), a, TRUE)
    BY <1>1, OwnBuildFits DEF centipede, LinkedBuild
<1>4. Fits(centipede_function_filter(b), a, TRUE)
    <2>1. centipede_function_filter(b)
            = IF b.focused THEN centipede(b)
              ELSE Integration({"centipede"},
                               Sets(Compiler("clang", "centipede")) \o Builds,
                               Fuzz({}, {}))
        BY DEF centipede_function_filter, centipede, LinkedBuild, Integration
    <2>2. KindOf(Env("clang", "centipede", a, OUT, {})) = "centipede"
        BY <1>1
    <2>3. Fits(Integration({"centipede"},
                           Sets(Compiler("clang", "centipede")) \o Builds,
                           Fuzz({}, {})), a, TRUE)
        BY <2>2, OwnBuildFits
    <2> QED BY <1>3, <2>1, <2>3
<1>5. \A lib : Fits(LibAFL("libafl_cc", lib), a, TRUE)
    <2> SUFFICES ASSUME NEW lib PROVE Fits(LibAFL("libafl_cc", lib), a, TRUE)
        OBVIOUS
    <2>1. KindOf(Env("libafl_cc", lib, a, OUT, {})) = "libafl_cc"
        BY Kinds
    <2>2. Fits(Integration({}, Sets(Compiler("libafl_cc", lib)) \o Builds,
                           Fuzz(Uses({}), Runs(OUT, "libafl_cc"))), a, TRUE)
        BY <2>1, OwnBuildFits
    <2> QED BY <2>2, UsesMore DEF LibAFL
<1> HIDE DEF libs
<1>6. {"libFuzzer", "glibFuzzer", "Wingfuzz"} \subseteq libs
    BY DEF libs
<1> QED
    BY <1>2, <1>3, <1>4, <1>5, <1>6
    DEF libfuzzer, glibfuzzer, libafl_libfuzzer, wingfuzz, coverage, libafl,
        libafl_27042023, libafl_text

\* The fuzzers with grammars: what is promised of a build that raises is
\* promised vacuously.
LEMMA GrammarFits ==
    ASSUME NEW b, NEW a \in BOOLEAN, NEW cc,
           cc \notin {"afl-clang", "afl-clang-fast", "clang"}
    PROVE  Fits(Grammar(b, cc), a, TRUE)
<1> DEFINE c == Compiler(cc, "empty")
           e == Env("none", "none", a, OUT, {})
           x == Env(cc, "empty", a, OUT, {})
           ps == Built({}, OUT, cc, a)
           ds == {OUT}
           names == {"grammar.json"}
           fs == Uses({}) \union Uses(names)
           build == Copies(names) \o Sets(c) \o Builds
           fuzz == Fuzz(Uses(names), Runs(OUT, cc))
<1>1. First(a, {}) = Out(e, e, ds, Uses({}), {})
    BY FirstIs
<1>2. Changed(e, c) = x
    BY DEF Changed, Env, Compiler
<1>3. KindOf(x) = cc
    BY Kinds
<1>4. OUT \in ds
    OBVIOUS
<1> HIDE DEF c, ds, names
<1>5. Leads("out", Copies(names), Out(e, e, ds, Uses({}), {}),
            Out(e, e, ds, fs, {}))
    BY <1>4, ItCopiesOut
<1> HIDE DEF fs, e
<1>6. Leads("out", Sets(c), Out(e, e, ds, fs, {}), Out(x, e, ds, fs, {}))
    BY <1>2, EnvSet
<1>7. Leads("out", Builds, Out(x, e, ds, fs, {}), Out(x, e, ds, fs, ps))
    BY <1>3, <1>4, ItBuilds
<1>8. IsAt(ps, OUT, cc, a)
    BY BuiltAt
<1> HIDE DEF x, ps
<1>9. Leads("out", build, First(a, {}), Out(x, e, ds, fs, ps))
    BY <1>1, <1>5, <1>6, <1>7, LeadsOn
<1>10. /\ \A r \in Runs(OUT, cc) : Found(r, ps)
       /\ \E kind : IsAt(ps, OUT, kind, a)
       /\ Uses(names) \subseteq fs
    BY <1>8, FoundAt DEF fs
<1>11. Leads("out", Raises, First(a, {}), Out(x, e, ds, fs, ps))
    <2>1. \A p, q : Does("out", [op |-> "raise"], p, q)
        BY DEF Does, ToOut
    <2> QED BY <2>1, LeadsOnce DEF Raises
<1> HIDE DEF build
<1>12. /\ Fits(Integration({}, build, fuzz), a, TRUE)
       /\ Fits(Integration({}, Raises, fuzz), a, TRUE)
    BY <1>9, <1>10, <1>11, ItFits
<1> QED BY <1>12 DEF Grammar, build, c, names

\* Programs that are made of the target are there next to it.
IsDerived(ps, kind) ==
    \E p \in ps : p.dir = OUT /\ p.kind = kind /\ p.derived

\* Programs that are made of the target leave the others where they are.
LEMMA DerivedAt ==
    ASSUME NEW ps, NEW k, NEW asan
    PROVE  LET qs == ps \union {Program(OUT, k, asan, TRUE, TRUE)}
           IN  /\ IsDerived(qs, k)
               /\ \A kind : IsDerived(ps, kind) => IsDerived(qs, kind)
               /\ \A kind, a : IsAt(ps, OUT, kind, a) => IsAt(qs, OUT, kind, a)
               /\ TargetsIn(qs) = TargetsIn(ps)
<1> DEFINE q == Program(OUT, k, asan, TRUE, TRUE)
<1>1. q.dir = OUT /\ q.kind = k /\ q.derived
    BY DEF Program
<1> HIDE DEF q
<1> QED BY <1>1 DEF IsDerived, IsAt, TargetsIn, q

\* They are found.
LEMMA FoundDerived ==
    ASSUME NEW ps, NEW kind, IsDerived(ps, kind)
    PROVE  \A r \in Runs(OUT, kind) : Found(r, ps)
BY DEF IsDerived, Runs, Found

\* KLEE's bitcode is made of the target.
LEMMA KleeFits ==
    ASSUME NEW b, NEW a \in BOOLEAN PROVE Fits(klee(b), a, TRUE)
<1> DEFINE c == Compiler("wllvm", "AFL")
           image == {"klee", "ktest-tool"}
           e == Env("none", "none", a, OUT, {})
           x == Env("wllvm", "AFL", a, OUT, {})
           ps == Built({}, OUT, "wllvm", a)
           qs == ps \union {Program(OUT, "bc", a, TRUE, TRUE)}
           ds == {OUT}
<1>1. Changed(e, c) = x
    BY DEF Changed, Env, Compiler
<1>2. KindOf(x) = "wllvm"
    BY Kinds
<1> HIDE DEF c
<1>3. /\ Leads("out", Sets(c) \o Builds, First(a, image),
               Out(x, e, ds, Uses(image), ps))
      /\ IsAt(ps, OUT, "wllvm", a)
    BY <1>1, <1>2, OneBuildLeads
<1>4. TargetsIn(ps) = {Program(OUT, "wllvm", a, TRUE, FALSE)}
    BY BuiltTarget
<1> HIDE DEF ps, e, x
<1>5. Leads("out", Derives("bc"), Out(x, e, ds, Uses(image), ps),
            Out(x, e, ds, Uses(image), qs))
    BY <1>4, DerivesLead
<1>6. IsDerived(qs, "bc") /\ IsAt(qs, OUT, "wllvm", a)
    BY <1>3, DerivedAt
<1> HIDE DEF qs, ds
<1>7. Leads("out", klee_build(b), First(a, image),
            Out(x, e, ds, Uses(image), qs))
    BY <1>3, <1>5, LeadsOn DEF klee_build, c
<1>8. \A r \in Runs(OUT, "bc") : Found(r, qs)
    BY <1>6, FoundDerived
<1>9. Fits(Integration(image, klee_build(b),
                       Fuzz(Uses(image), Runs(OUT, "bc"))), a, TRUE)
    BY <1>6, <1>7, <1>8, ItFits
<1> QED BY <1>9 DEF klee, klee_fuzz

\* aflcc's three programs are made of the target.
LEMMA AflccFits ==
    ASSUME NEW b, NEW a \in BOOLEAN PROVE Fits(aflcc(b), a, TRUE)
<1> DEFINE c == Compiler("aflc-gclang", "AFL")
           e == Env("none", "none", a, OUT, {})
           x == Env("aflc-gclang", "AFL", a, OUT, {})
           one == "original"
           two == "normalized-none-nopt"
           three == "no-collision-all-opt"
           ps0 == Built({}, OUT, "aflc-gclang", a)
           ps1 == ps0 \union {Program(OUT, one, a, TRUE, TRUE)}
           ps2 == ps1 \union {Program(OUT, two, a, TRUE, TRUE)}
           ps3 == ps2 \union {Program(OUT, three, a, TRUE, TRUE)}
           ds == {OUT}
           fs == Uses({})
           tools == {"afl-fuzz"}
           gs == fs \union Uses(tools)
           made == Out(x, e, ds, fs, ps0)
           target == {Program(OUT, "aflc-gclang", a, TRUE, FALSE)}
<1>1. Changed(e, c) = x
    BY DEF Changed, Env, Compiler
<1>2. KindOf(x) = "aflc-gclang"
    BY Kinds
<1> HIDE DEF c
<1>3. /\ Leads("out", aflcc_build(b), First(a, {}), Out(x, e, ds, fs, ps0))
      /\ IsAt(ps0, OUT, "aflc-gclang", a)
    BY <1>1, <1>2, OneBuildLeads DEF aflcc_build, c
<1>4. TargetsIn(ps0) = target
    BY BuiltTarget
<1>5. OUT \in ds
    OBVIOUS
<1> HIDE DEF ps0, e, ds, fs
<1>6. /\ TargetsIn(ps1) = target /\ IsDerived(ps1, one)
      /\ IsAt(ps1, OUT, "aflc-gclang", a)
    BY <1>3, <1>4, DerivedAt
<1>7. Leads("out", Derives(one), Out(x, e, ds, fs, ps0),
            Out(x, e, ds, fs, ps1))
    BY <1>4, DerivesLead
<1> HIDE DEF ps1
<1>8. /\ TargetsIn(ps2) = target /\ IsDerived(ps2, one) /\ IsDerived(ps2, two)
      /\ IsAt(ps2, OUT, "aflc-gclang", a)
    BY <1>6, DerivedAt
<1>9. Leads("out", Derives(two), Out(x, e, ds, fs, ps1),
            Out(x, e, ds, fs, ps2))
    BY <1>6, DerivesLead
<1> HIDE DEF ps2
<1>10. /\ IsDerived(ps3, one) /\ IsDerived(ps3, two) /\ IsDerived(ps3, three)
       /\ IsAt(ps3, OUT, "aflc-gclang", a)
    BY <1>8, DerivedAt
<1>11. Leads("out", Derives(three), Out(x, e, ds, fs, ps2),
             Out(x, e, ds, fs, ps3))
    BY <1>8, DerivesLead
<1> HIDE DEF ps3, target, tools
<1>12. Leads("out", Copies(tools), Out(x, e, ds, fs, ps3),
             Out(x, e, ds, gs, ps3))
    BY <1>5, ItCopiesOut
<1> HIDE DEF x, gs
<1>13. Leads("out", aflcc_post_build(b), Out(x, e, ds, fs, ps0),
             Out(x, e, ds, gs, ps3))
    BY <1>7, <1>9, <1>11, <1>12, LeadsOn DEF aflcc_post_build, tools
<1>14. Leads("out", aflcc_build(b) \o aflcc_post_build(b), First(a, {}),
             Out(x, e, ds, gs, ps3))
    BY <1>3, <1>13, LeadsOn
<1>15. /\ \A r \in Runs(OUT, one) : Found(r, ps3)
       /\ \A r \in Runs(OUT, two) : Found(r, ps3)
       /\ \A r \in Runs(OUT, three) : Found(r, ps3)
    BY <1>10, FoundDerived
<1>16. \A r \in Runs(OUT, one) \union Runs(OUT, two) \union Runs(OUT, three) :
          Found(r, ps3)
    BY <1>15
<1>17. Uses(tools) \subseteq gs
    BY DEF gs
<1>18. Fits(Integration({}, aflcc_build(b) \o aflcc_post_build(b),
                        aflcc_fuzz(b)), a, TRUE)
    BY <1>10, <1>14, <1>16, <1>17, ItFits DEF aflcc_fuzz, tools
<1> QED BY <1>18 DEF aflcc

\* The environment and the program of AFL++'s modes.
ModesEnv(modes, asan, o) ==
    Env(IF "qemu" \in modes THEN "clang" ELSE "afl-clang-fast",
        IF "eclipser" \in modes THEN "Standalone" ELSE "AFLDriver",
        asan, o, {})
ModesAsan(modes, a) ==
    IF "qemu" \in modes \/ "symcc" \in modes THEN FALSE ELSE a
ModesKind(modes) == IF "qemu" \in modes THEN "plain" ELSE "afl"

\* The kind of program is that of the environment.
LEMMA ModesKinds ==
    ASSUME NEW modes, NEW asan \in BOOLEAN, NEW o
    PROVE  ModesKind(modes) = KindOf(ModesEnv(modes, asan, o))
<1>1. \A lib : KindOf(Env("afl-clang-fast", lib, asan, o, {})) = "afl"
    BY Kinds
<1>2. /\ KindOf(Env("clang", "Standalone", asan, o, {})) = "plain"
      /\ KindOf(Env("clang", "AFLDriver", asan, o, {})) = "plain"
    BY Kinds
<1> QED BY <1>1, <1>2 DEF ModesEnv, ModesKind

\* All modes begin with a build in restored directories.
LEMMA ModesStart ==
    ASSUME NEW modes, NEW a \in BOOLEAN, NEW cc, NEW lib, NEW s,
           NEW ds, NEW fs, NEW ps, NEW o \in ds,
           NEW asan \in BOOLEAN, asan = ModesAsan(modes, a)
    PROVE  Leads("out",
             Sets(Compiler(
                    IF "qemu" \in modes THEN "clang" ELSE "afl-clang-fast",
                    IF "eclipser" \in modes THEN "Standalone"
                    ELSE "AFLDriver"))
             \o (IF "qemu" \in modes \/ "symcc" \in modes
                 THEN Sets(NoAsan) ELSE <<>>)
             \o Restoring(Builds),
             Out(Env(cc, lib, a, o, {}), s, ds, fs, ps),
             Out(ModesEnv(modes, asan, o), s, ds, fs,
                 Built(ps, o, ModesKind(modes), asan)))
<1> DEFINE cc2 == IF "qemu" \in modes THEN "clang" ELSE "afl-clang-fast"
           lib2 == IF "eclipser" \in modes THEN "Standalone" ELSE "AFLDriver"
           e == Env(cc, lib, a, o, {})
           x == ModesEnv(modes, a, o)
           y == ModesEnv(modes, asan, o)
           kind == ModesKind(modes)
           c == Compiler(cc2, lib2)
           off == IF "qemu" \in modes \/ "symcc" \in modes
                  THEN Sets(NoAsan) ELSE <<>>
<1>1. /\ x = Env(cc2, lib2, a, o, {}) /\ y = Env(cc2, lib2, asan, o, {})
      /\ kind = KindOf(y)
    BY ModesKinds DEF ModesEnv
<1> HIDE DEF cc2, lib2, x, y, kind
<1>2. Changed(e, c) = x
    BY <1>1 DEF Changed, Env, Compiler
<1>3. Changed(x, NoAsan) = Env(cc2, lib2, FALSE, o, {})
    BY <1>1 DEF Changed, Env, NoAsan
<1>4. Leads("out", Sets(c), Out(e, s, ds, fs, ps), Out(x, s, ds, fs, ps))
    BY <1>1, <1>2, EnvSet
<1>5. Leads("out", off, Out(x, s, ds, fs, ps), Out(y, s, ds, fs, ps))
    <2>1. CASE "qemu" \in modes \/ "symcc" \in modes
        <3>1. asan = FALSE
            BY <2>1 DEF ModesAsan
        <3>2. Changed(x, NoAsan) = Env(cc2, lib2, asan, o, {})
            BY <1>3, <3>1
        <3>3. Leads("out", Sets(NoAsan), Out(x, s, ds, fs, ps),
                    Out(y, s, ds, fs, ps))
            BY <1>1, <3>2, EnvSet
        <3> QED BY <2>1, <3>3
    <2>2. CASE ~("qemu" \in modes \/ "symcc" \in modes)
        <3>1. asan = a
            BY <2>2 DEF ModesAsan
        <3>2. x = y
            BY <1>1, <3>1
        <3> QED BY <2>2, <3>2, LeadsNowhere
    <2> QED BY <2>1, <2>2
<1>6. Leads("out", Builds, Out(y, s, ds, fs, ps),
            Out(y, s, ds, fs, Built(ps, o, kind, asan)))
    BY <1>1, ItBuilds
<1> HIDE DEF e, c, off
<1>7. Leads("out", Restoring(Builds), Out(y, s, ds, fs, ps),
            Out(y, s, ds, fs, Built(ps, o, kind, asan)))
    BY <1>6, RestoringLead
<1>8. Leads("out", Sets(c) \o off \o Restoring(Builds), Out(e, s, ds, fs, ps),
            Out(y, s, ds, fs, Built(ps, o, kind, asan)))
    BY <1>4, <1>5, <1>7, LeadsOn
<1> QED BY <1>8 DEF e, c, off, y, kind, cc2, lib2

\* Then AFL++'s tools are copied.
LEMMA ModesCopy ==
    ASSUME NEW modes, NEW asan \in BOOLEAN, NEW s, NEW fs, NEW ps, NEW ds,
           NEW o \in ds, o \o OUT = o, NEW names
    PROVE  LET x == ModesEnv(modes, asan, o)
           IN  Leads("out", Copies(names), Out(x, s, ds, fs, ps),
                     Out(x, s, ds, fs \union UsesIn(o, names), ps))
BY ItCopies DEF ModesEnv, Copies

\* A second program for a tool.
LEMMA ModesNext ==
    ASSUME NEW modes, NEW asan \in BOOLEAN, NEW s, NEW fs, NEW ps, NEW ds,
           NEW o, NEW name, NEW dir, dir = o \o In(name), dir \notin ds,
           NEW c, NEW cc, NEW lib, NEW v,
           Changed(ModesEnv(modes, asan, o), c) = Env(cc, lib, asan, dir, v),
           NEW kind, kind = KindOf(Env(cc, lib, asan, dir, v))
    PROVE  LET x == ModesEnv(modes, asan, o)
           IN  Leads("out", Mkdir(In(name)) \o BuildsWith("env", c),
                     Out(x, s, ds, fs, ps),
                     Out(x, s, ds \union {dir}, fs,
                         Built(ps, dir, kind, asan)))
<1> DEFINE x == ModesEnv(modes, asan, o)
           more == ds \union {dir}
<1>1. Leads("out", Mkdir(In(name)), Out(x, s, ds, fs, ps),
            Out(x, s, more, fs, ps))
    BY ItMakes DEF ModesEnv
<1>2. dir \in more
    OBVIOUS
<1>3. Changed(Base("env", x, s), c) = Env(cc, lib, asan, dir, v)
    BY Bases
<1> HIDE DEF x, more
<1>4. Leads("out", BuildsWith("env", c), Out(x, s, more, fs, ps),
            Out(x, s, more, fs, Built(ps, dir, kind, asan)))
    BY <1>2, <1>3, EnvBuilds
<1>5. Leads("out", Mkdir(In(name)) \o BuildsWith("env", c),
            Out(x, s, ds, fs, ps),
            Out(x, s, more, fs, Built(ps, dir, kind, asan)))
    BY <1>1, <1>4, LeadsOn
<1> QED BY <1>5 DEF x, more

\* AFL++'s modes with one program, with CmpLog's and with SymCC's.
LEMMA PlainModes ==
    ASSUME NEW modes, "cmplog" \notin modes, "symcc" \notin modes, NEW image,
           NEW a \in BOOLEAN, NEW cc, NEW lib, NEW s, NEW ds, NEW fs, NEW ps,
           NEW o \in ds, o \o OUT = o,
           NEW asan \in BOOLEAN, asan = ModesAsan(modes, a)
    PROVE  Leads("out", AflPlusPlusBuild(modes, image),
                 Out(Env(cc, lib, a, o, {}), s, ds, fs, ps),
                 Out(ModesEnv(modes, asan, o), s, ds,
                     fs \union UsesIn(o, AflPlusPlusTools(image)),
                     Built(ps, o, ModesKind(modes), asan)))
<1> DEFINE cc2 == IF "qemu" \in modes THEN "clang" ELSE "afl-clang-fast"
           lib2 == IF "eclipser" \in modes THEN "Standalone" ELSE "AFLDriver"
           off == IF "qemu" \in modes \/ "symcc" \in modes
                  THEN Sets(NoAsan) ELSE <<>>
           start == Sets(Compiler(cc2, lib2)) \o off \o Restoring(Builds)
           tools == AflPlusPlusTools(image)
           e == Out(Env(cc, lib, a, o, {}), s, ds, fs, ps)
           f == Out(ModesEnv(modes, asan, o), s, ds, fs,
                    Built(ps, o, ModesKind(modes), asan))
           g == Out(ModesEnv(modes, asan, o), s, ds,
                    fs \union UsesIn(o, tools),
                    Built(ps, o, ModesKind(modes), asan))
<1>1. Leads("out", start, e, f)
    BY ModesStart
<1>2. Leads("out", Copies(tools), f, g)
    BY ModesCopy
<1>3. AflPlusPlusBuild(modes, image) = start \o <<>> \o <<>> \o Copies(tools)
    BY DEF AflPlusPlusBuild
<1> HIDE DEF start, e, f, g, tools
<1>4. Leads("out", start \o <<>> \o <<>>, e, f)
    BY <1>1, LeadsNowhere, LeadsOn
<1>5. Leads("out", AflPlusPlusBuild(modes, image), e, g)
    BY <1>2, <1>3, <1>4, LeadsOn
<1> QED BY <1>5 DEF e, g, tools

\* With cmplog there is a second program, in a directory of its own.
LEMMA CmplogModes ==
    ASSUME NEW modes, "cmplog" \in modes, "qemu" \notin modes,
           "symcc" \notin modes, NEW image,
           NEW a \in BOOLEAN, NEW cc, NEW lib, NEW s, NEW ds, NEW fs, NEW ps,
           NEW o \in ds, o \o OUT = o,
           NEW dir, dir = o \o In("cmplog"), dir \notin ds
    PROVE  Leads("out", AflPlusPlusBuild(modes, image),
                 Out(Env(cc, lib, a, o, {}), s, ds, fs, ps),
                 Out(ModesEnv(modes, a, o), s, ds \union {dir},
                     fs \union UsesIn(o, AflPlusPlusTools(image)),
                     Built(Built(ps, o, "afl", a), dir, "cmplog", a)))
<1> DEFINE cc2 == IF "qemu" \in modes THEN "clang" ELSE "afl-clang-fast"
           lib2 == IF "eclipser" \in modes THEN "Standalone" ELSE "AFLDriver"
           off == IF "qemu" \in modes \/ "symcc" \in modes
                  THEN Sets(NoAsan) ELSE <<>>
           start == Sets(Compiler(cc2, lib2)) \o off \o Restoring(Builds)
           c == Below("cmplog") ++ Adds({"cmplog"})
           cmplog == Mkdir(In("cmplog")) \o BuildsWith("env", c)
           tools == AflPlusPlusTools(image)
           more == ds \union {dir}
           x == ModesEnv(modes, a, o)
           ps1 == Built(ps, o, "afl", a)
           ps2 == Built(ps1, dir, "cmplog", a)
           e == Out(Env(cc, lib, a, o, {}), s, ds, fs, ps)
           f == Out(x, s, ds, fs, ps1)
           g == Out(x, s, more, fs, ps2)
           h == Out(x, s, more, fs \union UsesIn(o, tools), ps2)
<1>1. a = ModesAsan(modes, a) /\ ModesKind(modes) = "afl"
    BY DEF ModesAsan, ModesKind
<1>2. Leads("out", start, e, f)
    BY <1>1, ModesStart
<1>3. Changed(x, c) = Env(cc2, lib2, a, dir, {"cmplog"})
    <2>1. Changed(x, c) = Env(cc2, lib2, a, dir, {} \union {"cmplog"})
        BY DEF Changed, ModesEnv, Env, ++, Below, Adds
    <2> QED BY <2>1
<1>4. KindOf(Env(cc2, lib2, a, dir, {"cmplog"})) = "cmplog"
    BY Kinds
<1> HIDE DEF c, cc2, lib2, ps1, start
<1>5. Leads("out", cmplog, f, g)
    BY <1>3, <1>4, ModesNext
<1>6. o \in more
    OBVIOUS
<1> HIDE DEF more, ps2
<1>7. Leads("out", Copies(tools), g, h)
    BY <1>6, ModesCopy
<1>8. AflPlusPlusBuild(modes, image) = start \o cmplog \o <<>> \o Copies(tools)
    BY DEF AflPlusPlusBuild, start, c, cc2, lib2
<1> HIDE DEF e, f, g, h, tools, cmplog
<1>9. Leads("out", start \o cmplog \o <<>>, e, g)
    BY <1>2, <1>5, LeadsNowhere, LeadsOn
<1>10. Leads("out", AflPlusPlusBuild(modes, image), e, h)
    BY <1>7, <1>8, <1>9, LeadsOn
<1> QED BY <1>10 DEF e, h, x, ps1, ps2, tools, more

\* With symcc the second program is SymCC's.
LEMMA SymccModes ==
    ASSUME NEW modes, "cmplog" \notin modes, "qemu" \notin modes,
           "symcc" \in modes, NEW image,
           NEW a \in BOOLEAN, NEW cc, NEW lib, NEW s, NEW ds, NEW fs, NEW ps,
           NEW o \in ds, o \o OUT = o,
           NEW dir, dir = o \o Uninstrumented, dir \notin ds,
           NEW asan \in BOOLEAN, asan = FALSE
    PROVE  Leads("out", AflPlusPlusBuild(modes, image),
                 Out(Env(cc, lib, a, o, {}), s, ds, fs, ps),
                 Out(ModesEnv(modes, asan, o), s, ds \union {dir},
                     fs \union UsesIn(o, AflPlusPlusTools(image)),
                     Built(Built(ps, o, "afl", asan), dir, "symcc", asan)))
<1> DEFINE cc2 == IF "qemu" \in modes THEN "clang" ELSE "afl-clang-fast"
           lib2 == IF "eclipser" \in modes THEN "Standalone" ELSE "AFLDriver"
           off == IF "qemu" \in modes \/ "symcc" \in modes
                  THEN Sets(NoAsan) ELSE <<>>
           start == Sets(Compiler(cc2, lib2)) \o off \o Restoring(Builds)
           c == Below("uninstrumented") ++ Compiler("symcc", "harness")
           symcc == Mkdir(Uninstrumented) \o BuildsWith("env", c)
           tools == AflPlusPlusTools(image)
           more == ds \union {dir}
           x == ModesEnv(modes, asan, o)
           ps1 == Built(ps, o, "afl", asan)
           ps2 == Built(ps1, dir, "symcc", asan)
           e == Out(Env(cc, lib, a, o, {}), s, ds, fs, ps)
           f == Out(x, s, ds, fs, ps1)
           g == Out(x, s, more, fs, ps2)
           h == Out(x, s, more, fs \union UsesIn(o, tools), ps2)
<1>1. asan = ModesAsan(modes, a) /\ ModesKind(modes) = "afl"
    BY DEF ModesAsan, ModesKind
<1>2. Leads("out", start, e, f)
    BY <1>1, ModesStart
<1>3. Changed(x, c) = Env("symcc", "harness", asan, dir, {})
    BY DEF Changed, ModesEnv, Env, ++, Below, Compiler, Uninstrumented
<1>4. KindOf(Env("symcc", "harness", asan, dir, {})) = "symcc"
    BY Kinds
<1> HIDE DEF c, cc2, lib2, ps1, start
<1>5. Leads("out", symcc, f, g)
    BY <1>3, <1>4, ModesNext DEF Uninstrumented
<1>6. o \in more
    OBVIOUS
<1> HIDE DEF more, ps2
<1>7. Leads("out", Copies(tools), g, h)
    BY <1>6, ModesCopy
<1>8. AflPlusPlusBuild(modes, image) = start \o <<>> \o symcc \o Copies(tools)
    BY DEF AflPlusPlusBuild, start, c, cc2, lib2
<1> HIDE DEF e, f, g, h, tools, symcc
<1>9. Leads("out", start \o <<>> \o symcc, e, g)
    BY <1>2, <1>5, LeadsNowhere, LeadsOn
<1>10. Leads("out", AflPlusPlusBuild(modes, image), e, h)
    BY <1>7, <1>8, <1>9, LeadsOn
<1> QED BY <1>10 DEF e, h, x, ps1, ps2, tools, more

\* The directories of $OUT are different.
LEMMA Directories ==
    /\ \A name : OUT \o In(name) = In(name) /\ In(name) # OUT
                 /\ In(name) \o OUT = In(name)
    /\ OUT \o OUT = OUT
    /\ \A x, y : x # y => In(x) # In(y)
BY Paths

\* The default modes, from the beginning.
LEMMA CmplogFromFirst ==
    ASSUME NEW a \in BOOLEAN, NEW image
    PROVE  LET e == Env("none", "none", a, OUT, {})
               ps == Built(Built({}, OUT, "afl", a), In("cmplog"), "cmplog", a)
           IN  /\ Leads("out", AflPlusPlusBuild(DefaultModes, image),
                        First(a, {}),
                        Out(ModesEnv(DefaultModes, a, OUT), e,
                            {OUT} \union {In("cmplog")},
                            Uses({}) \union Uses(AflPlusPlusTools(image)), ps))
               /\ IsAt(ps, OUT, "afl", a)
               /\ IsAt(ps, In("cmplog"), "cmplog", a)
<1> DEFINE e == Env("none", "none", a, OUT, {})
           ds == {OUT}
           dir == In("cmplog")
           ps1 == Built({}, OUT, "afl", a)
           ps2 == Built(ps1, dir, "cmplog", a)
<1>1. /\ "cmplog" \in DefaultModes /\ "qemu" \notin DefaultModes
      /\ "symcc" \notin DefaultModes
    BY DEF DefaultModes
<1>2. OUT \in ds /\ dir \notin ds /\ dir = OUT \o dir /\ OUT \o OUT = OUT
    BY Directories
<1>3. First(a, {}) = Out(e, e, ds, Uses({}), {})
    BY FirstIs
<1>4. UsesIn(OUT, AflPlusPlusTools(image)) = Uses(AflPlusPlusTools(image))
    BY UsesOut
<1>5. IsAt(ps2, OUT, "afl", a) /\ IsAt(ps2, dir, "cmplog", a)
    <2>1. IsAt(ps1, OUT, "afl", a)
        BY BuiltAt
    <2> HIDE DEF ps1
    <2> QED BY <2>1, Directories, BuiltAt
<1> HIDE DEF ds
<1>6. Leads("out", AflPlusPlusBuild(DefaultModes, image),
            Out(e, e, ds, Uses({}), {}),
            Out(ModesEnv(DefaultModes, a, OUT), e, ds \union {dir},
                Uses({}) \union UsesIn(OUT, AflPlusPlusTools(image)), ps2))
    BY <1>1, <1>2, CmplogModes
<1> QED BY <1>3, <1>4, <1>5, <1>6 DEF ds

\* Fuzzers that are AFL++ with its default modes, and take what they will.
LEMMA CmplogFits ==
    ASSUME NEW a \in BOOLEAN, NEW more
    PROVE  LET build == AflPlusPlusBuild(DefaultModes, {})
               cmplog == Runs(In("cmplog"), "cmplog")
               optional == RunsIfBuilt(In("cmplog"), "cmplog")
           IN  /\ Fits(Integration({}, build,
                         Fuzz(Uses({"afl-fuzz"}), Runs(OUT, "afl"))), a, TRUE)
               /\ Fits(Integration({}, build,
                         Fuzz(Uses({"afl-fuzz"}),
                              Runs(OUT, "afl") \union optional)), a, TRUE)
               /\ Fits(Integration({}, build \o Copies(more),
                         Fuzz(Uses(more),
                              Runs(OUT, "afl") \union cmplog)), a, TRUE)
<1> DEFINE build == AflPlusPlusBuild(DefaultModes, {})
           e == Env("none", "none", a, OUT, {})
           x == ModesEnv(DefaultModes, a, OUT)
           ps == Built(Built({}, OUT, "afl", a), In("cmplog"), "cmplog", a)
           ds == {OUT} \union {In("cmplog")}
           fs == Uses({}) \union Uses(AflPlusPlusTools({}))
           gs == fs \union Uses(more)
<1>1. /\ Leads("out", build, First(a, {}), Out(x, e, ds, fs, ps))
      /\ IsAt(ps, OUT, "afl", a) /\ IsAt(ps, In("cmplog"), "cmplog", a)
    BY CmplogFromFirst
<1>2. Uses({"afl-fuzz"}) \subseteq fs /\ Uses(more) \subseteq gs
    BY DEF AflPlusPlusTools, Uses
<1>3. OUT \in ds /\ OUT \o OUT = OUT
    BY Directories
<1> HIDE DEF ps, ds, fs, e
<1>4. /\ \A r \in Runs(OUT, "afl") : Found(r, ps)
      /\ \A r \in Runs(In("cmplog"), "cmplog") : Found(r, ps)
      /\ \A r \in RunsIfBuilt(In("cmplog"), "cmplog") : Found(r, ps)
      /\ \E kind : IsAt(ps, OUT, kind, a)
    BY <1>1, FoundAt
<1>5. Leads("out", Copies(more), Out(x, e, ds, fs, ps),
            Out(x, e, ds, gs, ps))
    <2>1. UsesIn(OUT, more) = Uses(more)
        BY UsesOut
    <2>2. Leads("out", Copies(more), Out(x, e, ds, fs, ps),
                Out(x, e, ds, fs \union UsesIn(OUT, more), ps))
        BY <1>3, ModesCopy
    <2> QED BY <2>1, <2>2
<1> HIDE DEF x, gs, build
<1>6. Leads("out", build \o Copies(more), First(a, {}), Out(x, e, ds, gs, ps))
    BY <1>1, <1>5, LeadsOn
<1>7. /\ \A r \in Runs(OUT, "afl") \union Runs(In("cmplog"), "cmplog") :
            Found(r, ps)
      /\ \A r \in Runs(OUT, "afl") \union RunsIfBuilt(In("cmplog"), "cmplog") :
            Found(r, ps)
    BY <1>4
<1>8. Fits(Integration({}, build, Fuzz(Uses({"afl-fuzz"}), Runs(OUT, "afl"))),
           a, TRUE)
    BY <1>1, <1>2, <1>4, ItFits
<1>9. Fits(Integration({}, build,
             Fuzz(Uses({"afl-fuzz"}),
                  Runs(OUT, "afl") \union RunsIfBuilt(In("cmplog"), "cmplog"))),
           a, TRUE)
    BY <1>1, <1>2, <1>4, <1>7, ItFits
<1>10. Fits(Integration({}, build \o Copies(more),
              Fuzz(Uses(more),
                   Runs(OUT, "afl") \union Runs(In("cmplog"), "cmplog"))),
            a, TRUE)
    BY <1>2, <1>4, <1>6, <1>7, ItFits
<1> QED BY <1>8, <1>9, <1>10 DEF build

\* Emulated fuzzers: their program has no sanitizers.
LEMMA QemuFits ==
    ASSUME NEW a \in BOOLEAN, NEW image, NEW more, NEW needed,
           needed \subseteq {"afl-fuzz"} \union image \union more
    PROVE  LET build == AflPlusPlusBuild({"qemu"}, image)
               fuzz == Fuzz(Uses(needed), Runs(OUT, "plain"))
           IN  /\ more = {} => Fits(Integration({}, build, fuzz), a, FALSE)
               /\ Fits(Integration({}, build \o Copies(more), fuzz), a, FALSE)
<1> DEFINE modes == {"qemu"}
           build == AflPlusPlusBuild(modes, image)
           fuzz == Fuzz(Uses(needed), Runs(OUT, "plain"))
           e == Env("none", "none", a, OUT, {})
           tools == AflPlusPlusTools(image)
           ds == {OUT}
           fs == Uses({}) \union Uses(tools)
           gs == fs \union Uses(more)
<1>1. /\ "cmplog" \notin modes /\ "symcc" \notin modes
      /\ ModesKind(modes) = "plain" /\ ModesAsan(modes, a) = FALSE
    BY DEF ModesKind, ModesAsan
<1>2. OUT \in ds /\ OUT \o OUT = OUT
    BY Directories
<1>3. First(a, {}) = Out(e, e, ds, Uses({}), {})
    BY FirstIs
<1>4. UsesIn(OUT, tools) = Uses(tools) /\ UsesIn(OUT, more) = Uses(more)
    BY UsesOut
<1>5. /\ Uses(needed) \subseteq gs
      /\ more = {} => Uses(needed) \subseteq fs
    BY DEF Uses, AflPlusPlusTools
<1> HIDE DEF ds, e, tools, modes
<1>6. PICK asan \in BOOLEAN : asan = ModesAsan(modes, a)
    BY <1>1
<1> DEFINE ps == Built({}, OUT, "plain", asan)
           x == ModesEnv(modes, asan, OUT)
<1>7. Leads("out", build, First(a, {}), Out(x, e, ds, fs, ps))
    <2>1. Leads("out", build, Out(e, e, ds, Uses({}), {}),
                Out(x, e, ds, Uses({}) \union UsesIn(OUT, tools),
                    Built({}, OUT, ModesKind(modes), asan)))
        BY <1>1, <1>2, <1>6, PlainModes DEF e, tools
    <2> QED BY <1>1, <1>3, <1>4, <2>1
<1>8. \A r \in Runs(OUT, "plain") : Found(r, ps)
    BY BuiltAt, FoundAt
<1> HIDE DEF ps, fs
<1>9. Leads("out", Copies(more), Out(x, e, ds, fs, ps),
            Out(x, e, ds, gs, ps))
    <2>1. Leads("out", Copies(more), Out(x, e, ds, fs, ps),
                Out(x, e, ds, fs \union UsesIn(OUT, more), ps))
        BY <1>2, ModesCopy
    <2> QED BY <1>4, <2>1
<1> HIDE DEF x, build, gs
<1>10. Leads("out", build \o Copies(more), First(a, {}),
             Out(x, e, ds, gs, ps))
    BY <1>7, <1>9, LeadsOn
<1>11. Fits(Integration({}, build \o Copies(more), fuzz), a, FALSE)
    BY <1>5, <1>8, <1>10, ItFits
<1>12. ASSUME more = {} PROVE Fits(Integration({}, build, fuzz), a, FALSE)
    <2>1. Uses(needed) \subseteq fs
        BY <1>5, <1>12
    <2> QED BY <1>7, <1>8, <2>1, ItFits
<1> QED BY <1>11, <1>12 DEF build, modes

\* AFL++, its copies, and the fuzzers that are built as it is.
LEMMA AflPlusPlusFit ==
    ASSUME NEW b, NEW a \in BOOLEAN
    PROVE  /\ Fits(aflplusplus(b), a, TRUE)
           /\ Fits(aflpp_random_default(b), a, TRUE)
           /\ Fits(aflpp_random_no_favs(b), a, TRUE)
           /\ Fits(aflpp_random_wrs(b), a, TRUE)
           /\ Fits(aflpp_random_wrs_rf(b), a, TRUE)
           /\ Fits(aflpp_random_wrs_rp(b), a, TRUE)
           /\ Fits(aflpp_random_wrs_rf_rp(b), a, TRUE)
           /\ Fits(aflrustrust(b), a, TRUE)
<1>1. /\ Fits(aflplusplus(b), a, TRUE) /\ Fits(aflrustrust(b), a, TRUE)
    BY CmplogFits DEF aflplusplus, AflPlusPlusFuzz, aflrustrust
<1>2. Fits(Integration({}, AflPlusPlusBuild(DefaultModes, {}), RandomFuzz), a,
           TRUE)
    BY CmplogFits DEF RandomFuzz
<1> QED
    BY <1>1, <1>2
    DEF aflpp_random_default, aflpp_random_no_favs, aflpp_random_wrs,
        aflpp_random_wrs_rf, aflpp_random_wrs_rp, aflpp_random_wrs_rf_rp

\* These are emulated.
LEMMA EmulatedFit ==
    ASSUME NEW b, NEW a \in BOOLEAN
    PROVE  /\ Fits(afl_qemu(b), a, FALSE) /\ Fits(aflplusplus_qemu(b), a, FALSE)
           /\ Fits(aflplusplus_frida(b), a, FALSE)
<1>1. Fits(afl_qemu(b), a, FALSE)
    <2>1. {"afl-fuzz"} \union {"afl-qemu-trace"}
            \subseteq {"afl-fuzz"} \union {"afl-qemu-trace"} \union {}
        OBVIOUS
    <2> QED BY <2>1, QemuFits DEF afl_qemu, AflFuzz
<1>2. Fits(aflplusplus_qemu(b), a, FALSE)
    <2>1. {"afl-fuzz"} \union {"afl-qemu-trace"}
            \subseteq {"afl-fuzz"}
                \union {"afl-qemu-trace", "aflpp_qemu_driver_hook.so"}
                \union {}
        OBVIOUS
    <2> QED BY <2>1, QemuFits DEF aflplusplus_qemu, AflFuzz
<1>3. Fits(aflplusplus_frida(b), a, FALSE)
    <2>1. {"afl-fuzz"} \union (FridaFiles \union {"frida_hook.so"})
            \subseteq {"afl-fuzz"} \union FridaFiles \union {"frida_hook.so"}
        OBVIOUS
    <2> QED BY <2>1, QemuFits DEF aflplusplus_frida, AflFuzz
<1> QED BY <1>1, <1>2, <1>3

\* A second program is built in a directory of its own.
LEMMA SecondBuild ==
    ASSUME NEW cc, NEW lib, NEW a \in BOOLEAN, NEW v, NEW s, NEW ds, NEW fs,
           NEW ps, NEW name, In(name) \notin ds, NEW base, NEW c,
           NEW cc2, NEW lib2, NEW asan \in BOOLEAN, NEW w,
           Changed(Base(base, Env(cc, lib, a, OUT, v), s), c)
             = Env(cc2, lib2, asan, In(name), w),
           NEW kind, kind = KindOf(Env(cc2, lib2, asan, In(name), w))
    PROVE  LET x == Env(cc, lib, a, OUT, v)
               start == Out(x, s, ds, fs, ps)
               mid == Out(x, s, ds \union {In(name)}, fs, ps)
               to == Out(x, s, ds \union {In(name)}, fs,
                         Built(ps, In(name), kind, asan))
           IN  /\ Leads("out", Mkdir(In(name)), start, mid)
               /\ Leads("out", BuildsWith(base, c), mid, to)
               /\ Leads("out", Restoring(BuildsWith(base, c)), mid, to)
<1> DEFINE x == Env(cc, lib, a, OUT, v)
           dir == In(name)
           more == ds \union {dir}
<1>1. Leads("out", Mkdir(dir), Out(x, s, ds, fs, ps), Out(x, s, more, fs, ps))
    BY ItMakesBelow
<1>2. dir \in more
    OBVIOUS
<1> HIDE DEF x, more
<1>3. Leads("out", BuildsWith(base, c), Out(x, s, more, fs, ps),
            Out(x, s, more, fs, Built(ps, dir, kind, asan)))
    BY <1>2, EnvBuilds DEF x
<1>4. Leads("out", Restoring(BuildsWith(base, c)), Out(x, s, more, fs, ps),
            Out(x, s, more, fs, Built(ps, dir, kind, asan)))
    BY <1>3, RestoringLead
<1> QED BY <1>1, <1>3, <1>4 DEF x, more

\* HasteFuzz, whose third program is for bug benchmarks only.
LEMMA HasteFits ==
    ASSUME NEW b, NEW a \in BOOLEAN PROVE Fits(hastefuzz(b), a, TRUE)
<1> DEFINE c == Compiler("afl-clang-fast", "AFLDriver")
           cmplog == Below("cmplog") ++ Adds({"cmplog"})
           haste == Below("hastemode") ++ NoAsan
           last == IF b.type = "bug"
                   THEN Mkdir(Hastemode) \o Restoring(BuildsWith("env", haste))
                   ELSE <<>>
           e == Env("none", "none", a, OUT, {})
           x == Env("afl-clang-fast", "AFLDriver", a, OUT, {})
           ds0 == {OUT}
           ds1 == ds0 \union {In("cmplog")}
           ds2 == ds1 \union {In("hastemode")}
           ds3 == IF b.type = "bug" THEN ds2 ELSE ds1
           fs == Uses({})
           gs == fs \union Uses({"afl-fuzz"})
           ps0 == Built({}, OUT, "afl", a)
           ps1 == Built(ps0, In("cmplog"), "cmplog", a)
           ps2 == Built(ps1, In("hastemode"), "afl", FALSE)
           ps3 == IF b.type = "bug" THEN ps2 ELSE ps1
           start == Sets(c) \o Restoring(Builds) \o Mkdir(In("cmplog"))
                    \o Restoring(BuildsWith("env", cmplog))
<1>1. Changed(e, c) = x
    BY DEF Changed, Env, Compiler
<1>2. Changed(x, cmplog)
        = Env("afl-clang-fast", "AFLDriver", a, In("cmplog"), {"cmplog"})
    <2>1. Changed(x, cmplog) = Env("afl-clang-fast", "AFLDriver", a,
                                   OUT \o In("cmplog"), {} \union {"cmplog"})
        BY DEF Changed, Env, ++, Below, Adds
    <2> QED BY <2>1, Directories
<1>3. Changed(x, haste)
        = Env("afl-clang-fast", "AFLDriver", FALSE, In("hastemode"), {})
    <2>1. Changed(x, haste) = Env("afl-clang-fast", "AFLDriver", FALSE,
                                  OUT \o In("hastemode"), {})
        BY DEF Changed, Env, ++, Below, NoAsan
    <2> QED BY <2>1, Directories
<1>4. /\ KindOf(x) = "afl"
      /\ KindOf(Env("afl-clang-fast", "AFLDriver", a, In("cmplog"),
                    {"cmplog"})) = "cmplog"
      /\ \A f : KindOf(Env("afl-clang-fast", "AFLDriver", f, In("hastemode"),
                           {})) = "afl"
    BY Kinds
<1>5. First(a, {}) = Out(e, e, ds0, fs, {})
    BY FirstIs
<1>6. /\ OUT \in ds0 /\ In("cmplog") \notin ds0
      /\ OUT \in ds1 /\ In("hastemode") \notin ds1 /\ OUT \in ds3
    BY Directories
<1>7. /\ IsAt(ps0, OUT, "afl", a) /\ IsAt(ps1, OUT, "afl", a)
      /\ IsAt(ps1, In("cmplog"), "cmplog", a)
      /\ NoneAt(ps1, In("hastemode"))
    <2>1. IsAt(ps0, OUT, "afl", a) /\ NoneAt(ps0, In("hastemode"))
        BY BuiltAt, NothingAt, Directories
    <2> HIDE DEF ps0
    <2> QED BY <2>1, BuiltAt, Directories
<1> HIDE DEF c, cmplog, haste, e, ds0, fs
<1>8. Leads("out", Sets(c), Out(e, e, ds0, fs, {}), Out(x, e, ds0, fs, {}))
    BY <1>1, EnvSet
<1>9. Leads("out", Restoring(Builds), Out(x, e, ds0, fs, {}),
            Out(x, e, ds0, fs, ps0))
    <2>1. Leads("out", Builds, Out(x, e, ds0, fs, {}), Out(x, e, ds0, fs, ps0))
        BY <1>4, <1>6, ItBuilds
    <2> QED BY <2>1, RestoringLead
<1> HIDE DEF ps0
<1>10. /\ Leads("out", Mkdir(In("cmplog")), Out(x, e, ds0, fs, ps0),
                Out(x, e, ds1, fs, ps0))
       /\ Leads("out", Restoring(BuildsWith("env", cmplog)),
                Out(x, e, ds1, fs, ps0), Out(x, e, ds1, fs, ps1))
    BY <1>2, <1>4, <1>6, SecondBuild, Bases
<1> HIDE DEF ps1, ds1
<1>11. /\ Leads("out", Mkdir(Hastemode), Out(x, e, ds1, fs, ps1),
                Out(x, e, ds2, fs, ps1))
       /\ Leads("out", Restoring(BuildsWith("env", haste)),
                Out(x, e, ds2, fs, ps1), Out(x, e, ds2, fs, ps2))
    <2>0. \A f \in BOOLEAN : f = FALSE =>
            Changed(Base("env", x, e), haste)
              = Env("afl-clang-fast", "AFLDriver", f, In("hastemode"), {})
        BY <1>3, Bases
    <2>1. \A f \in BOOLEAN : f = FALSE =>
           /\ Leads("out", Mkdir(In("hastemode")), Out(x, e, ds1, fs, ps1),
                    Out(x, e, ds2, fs, ps1))
           /\ Leads("out", Restoring(BuildsWith("env", haste)),
                    Out(x, e, ds2, fs, ps1),
                    Out(x, e, ds2, fs, Built(ps1, In("hastemode"), "afl", f)))
        BY <1>4, <1>6, <2>0, SecondBuild
    <2> QED BY <2>1 DEF Hastemode
<1>12. Leads("out", last, Out(x, e, ds1, fs, ps1), Out(x, e, ds3, fs, ps3))
    <2> HIDE DEF x, ds2, ps2
    <2>1. Leads("out", Mkdir(Hastemode) \o Restoring(BuildsWith("env", haste)),
                Out(x, e, ds1, fs, ps1), Out(x, e, ds2, fs, ps2))
        BY <1>11, LeadsOn
    <2> QED BY <2>1, LeadsNowhere
<1>13. /\ IsAt(ps3, OUT, "afl", a) /\ IsAt(ps3, In("cmplog"), "cmplog", a)
       /\ \A r \in RunsIfBuilt(Hastemode, "afl") : Found(r, ps3)
    <2>1. /\ IsAt(ps2, OUT, "afl", a) /\ IsAt(ps2, In("cmplog"), "cmplog", a)
          /\ IsAt(ps2, In("hastemode"), "afl", FALSE)
        BY <1>7, BuiltAt, Directories
    <2>2. \A r \in RunsIfBuilt(In("hastemode"), "afl") : Found(r, ps2)
        BY <2>1, FoundAt
    <2>3. \A r \in RunsIfBuilt(In("hastemode"), "afl") : Found(r, ps1)
        BY <1>7, FoundIfBuilt
    <2> HIDE DEF ps2
    <2> QED BY <1>7, <2>1, <2>2, <2>3 DEF Hastemode
<1> HIDE DEF ds3, ps3, last
<1>14. Leads("out", Copies({"afl-fuzz"}), Out(x, e, ds3, fs, ps3),
             Out(x, e, ds3, gs, ps3))
    BY <1>6, ItCopiesOut
<1> HIDE DEF x
<1>15. Leads("out", start, First(a, {}), Out(x, e, ds1, fs, ps1))
    BY <1>5, <1>8, <1>9, <1>10, LeadsOn
<1> HIDE DEF start
<1>16. Leads("out", start \o last \o Copies({"afl-fuzz"}), First(a, {}),
             Out(x, e, ds3, gs, ps3))
    BY <1>12, <1>14, <1>15, LeadsOn
<1>17. Uses({"afl-fuzz"}) \subseteq gs /\ \E kind : IsAt(ps3, OUT, kind, a)
    BY <1>13
<1>18. \A r \in Runs(OUT, "afl") \union RunsIfBuilt(In("cmplog"), "cmplog")
                \union RunsIfBuilt(Hastemode, "afl") : Found(r, ps3)
    <2>1. /\ \A r \in Runs(OUT, "afl") : Found(r, ps3)
          /\ \A r \in RunsIfBuilt(In("cmplog"), "cmplog") : Found(r, ps3)
        BY <1>13, FoundAt
    <2> QED BY <1>13, <2>1
<1>19. Fits(Integration({}, start \o last \o Copies({"afl-fuzz"}),
              Fuzz(Uses({"afl-fuzz"}),
                   Runs(OUT, "afl") \union RunsIfBuilt(In("cmplog"), "cmplog")
                   \union RunsIfBuilt(Hastemode, "afl"))), a, TRUE)
    BY <1>16, <1>17, <1>18, ItFits
<1> QED BY <1>19 DEF hastefuzz, start, last, c, cmplog, haste

\* A plain program follows the one for the fuzzer, in a directory of its own.
LEMMA ThenPlainFits ==
    ASSUME NEW image, NEW start, NEW a \in BOOLEAN, NEW cc, NEW lib, NEW v,
           Leads("out", start, First(a, image),
                 Out(Env(cc, lib, a, OUT, v),
                     Env("none", "none", a, OUT, {}), {OUT}, Uses(image),
                     Built({}, OUT, "afl", a))),
           NEW needed, needed \subseteq image
    PROVE  Fits(Integration(image, start \o ThenPlain, TwoFuzz(needed)), a,
                TRUE)
<1> DEFINE c == BelowUninstrumented ++ Compiler("clang", "Standalone")
                ++ NoAsan
           e == Env("none", "none", a, OUT, {})
           x == Env(cc, lib, a, OUT, v)
           dir == In("uninstrumented")
           ds == {OUT}
           more == ds \union {dir}
           fs == Uses(image)
           gs == fs \union Uses({"afl-fuzz"})
           ps1 == Built({}, OUT, "afl", a)
           ps2 == Built(ps1, dir, "plain", FALSE)
<1>1. Changed(e, c) = Env("clang", "Standalone", FALSE, dir, {})
    <2>1. Changed(e, c) = Env("clang", "Standalone", FALSE, OUT \o dir, {})
        BY DEF Changed, Env, ++, BelowUninstrumented, Below, Compiler, NoAsan
    <2> QED BY <2>1, Directories
<1>2. \A f : KindOf(Env("clang", "Standalone", f, dir, {})) = "plain"
    BY Kinds
<1>3. OUT \in ds /\ dir \notin ds
    BY Directories
<1>4. /\ IsAt(ps2, OUT, "afl", a) /\ IsAt(ps2, dir, "plain", FALSE)
    <2>1. IsAt(ps1, OUT, "afl", a)
        BY BuiltAt
    <2> HIDE DEF ps1
    <2> QED BY <2>1, BuiltAt, Directories
<1> HIDE DEF c, e, ds, ps1
<1>5. Leads("out", Copies({"afl-fuzz"}), Out(x, e, ds, fs, ps1),
            Out(x, e, ds, gs, ps1))
    BY <1>3, ItCopiesOut
<1>6. /\ Leads("out", Mkdir(dir), Out(x, e, ds, gs, ps1),
               Out(x, e, more, gs, ps1))
      /\ Leads("out", BuildsWith("saved", c), Out(x, e, more, gs, ps1),
               Out(x, e, more, gs, ps2))
    <2>0. \A f \in BOOLEAN : f = FALSE =>
            Changed(Base("saved", x, e), c)
              = Env("clang", "Standalone", f, dir, {})
        BY <1>1, Bases
    <2>1. \A f \in BOOLEAN : f = FALSE =>
           /\ Leads("out", Mkdir(dir), Out(x, e, ds, gs, ps1),
                    Out(x, e, more, gs, ps1))
           /\ Leads("out", BuildsWith("saved", c), Out(x, e, more, gs, ps1),
                    Out(x, e, more, gs, Built(ps1, dir, "plain", f)))
        BY <1>2, <1>3, <2>0, SecondBuild
    <2> QED BY <2>1
<1>7. Leads("out", start, First(a, image), Out(x, e, ds, fs, ps1))
    BY DEF x, e, ds, fs, ps1
<1> HIDE DEF x, more, fs, ps2
<1>8. Leads("out", ThenPlain, Out(x, e, ds, fs, ps1),
            Out(x, e, more, gs, ps2))
    BY <1>5, <1>6, LeadsOn DEF ThenPlain, Uninstrumented, c
<1>9. Leads("out", start \o ThenPlain, First(a, image),
            Out(x, e, more, gs, ps2))
    BY <1>7, <1>8, LeadsOn
<1>10. Uses({"afl-fuzz"} \union needed) \subseteq gs
    BY DEF Uses, fs
<1>11. \A r \in Runs(OUT, "afl") \union Runs(dir, "plain") : Found(r, ps2)
    <2>1. /\ \A r \in Runs(OUT, "afl") : Found(r, ps2)
          /\ \A r \in Runs(dir, "plain") : Found(r, ps2)
        BY <1>4, FoundAt
    <2> QED BY <2>1
<1>12. \E kind : IsAt(ps2, OUT, kind, a)
    BY <1>4
<1>13. Fits(Integration(image, start \o ThenPlain,
              Fuzz(Uses({"afl-fuzz"} \union needed),
                   Runs(OUT, "afl") \union Runs(dir, "plain"))), a, TRUE)
    BY <1>9, <1>10, <1>11, <1>12, ItFits
<1> QED BY <1>13 DEF TwoFuzz, Uninstrumented

\* The program for the fuzzer is built in restored directories.
LEMMA SavedBuild ==
    ASSUME NEW image, NEW a \in BOOLEAN, NEW c, NEW cc, NEW lib, NEW v,
           Changed(Env("none", "none", a, OUT, {}), c)
             = Env(cc, lib, a, OUT, v),
           KindOf(Env(cc, lib, a, OUT, v)) = "afl"
    PROVE  Leads("out", Saves \o Sets(c) \o Restoring(Builds), First(a, image),
                 Out(Env(cc, lib, a, OUT, v),
                     Env("none", "none", a, OUT, {}), {OUT}, Uses(image),
                     Built({}, OUT, "afl", a)))
<1> DEFINE e == Env("none", "none", a, OUT, {})
           x == Env(cc, lib, a, OUT, v)
           ds == {OUT}
           fs == Uses(image)
           ps == Built({}, OUT, "afl", a)
<1>1. Leads("out", Saves, First(a, image), Out(e, e, ds, fs, {}))
    BY FirstIs, SavesLead
<1>2. OUT \in ds
    OBVIOUS
<1> HIDE DEF e, ds
<1>3. Leads("out", Sets(c), Out(e, e, ds, fs, {}), Out(x, e, ds, fs, {}))
    BY EnvSet DEF e
<1>4. Leads("out", Builds, Out(x, e, ds, fs, {}), Out(x, e, ds, fs, ps))
    BY <1>2, ItBuilds
<1> HIDE DEF x, ps
<1>5. Leads("out", Restoring(Builds), Out(x, e, ds, fs, {}),
            Out(x, e, ds, fs, ps))
    BY <1>4, RestoringLead
<1>6. Leads("out", Saves \o Sets(c) \o Restoring(Builds), First(a, image),
            Out(x, e, ds, fs, ps))
    BY <1>1, <1>3, <1>5, LeadsOn
<1> QED BY <1>6 DEF e, x, ds, ps

\* Eclipser and Fuzzolic run next to such a fuzzer.
LEMMA EclipserFit ==
    ASSUME NEW b, NEW a \in BOOLEAN
    PROVE  /\ Fits(eclipser(b), a, TRUE) /\ Fits(eclipser_new(b), a, TRUE)
           /\ Fits(fuzzolic_aflplusplus_z3(b), a, TRUE)
           /\ Fits(fuzzolic_aflplusplus_fuzzy(b), a, TRUE)
<1> DEFINE e == Env("none", "none", a, OUT, {})
<1>1. /\ Fits(eclipser(b), a, TRUE) /\ Fits(eclipser_new(b), a, TRUE)
    <2> DEFINE c == Compiler("clang", "AFL") ++ Adds({"trace-pc-guard"})
               x == Env("clang", "AFL", a, OUT, {"trace-pc-guard"})
    <2>1. Changed(e, c) = x
        <3>1. Changed(e, c)
                = Env("clang", "AFL", a, OUT, {} \union {"trace-pc-guard"})
            BY DEF Changed, Env, ++, Compiler, Adds
        <3> QED BY <3>1
    <2>2. KindOf(x) = "afl"
        BY Kinds
    <2> HIDE DEF c
    <2>3. Leads("out", Saves \o Sets(c) \o Restoring(Builds), First(a, {}),
                Out(x, e, {OUT}, Uses({}), Built({}, OUT, "afl", a)))
        BY <2>1, <2>2, SavedBuild
    <2>4. Fits(Integration({}, Saves \o Sets(c) \o Restoring(Builds)
                               \o ThenPlain, TwoFuzz({})), a, TRUE)
        BY <2>3, ThenPlainFits
    <2> QED BY <2>4 DEF eclipser, eclipser_new, AflEnvironment, c
<1>2. /\ Fits(fuzzolic_aflplusplus_z3(b), a, TRUE)
      /\ Fits(fuzzolic_aflplusplus_fuzzy(b), a, TRUE)
    <2> DEFINE c == Compiler("afl-clang-fast", "AFLDriver")
               x == Env("afl-clang-fast", "AFLDriver", a, OUT, {})
               image == {"fuzzolic"}
    <2>1. Changed(e, c) = x
        BY DEF Changed, Env, Compiler
    <2>2. KindOf(x) = "afl"
        BY Kinds
    <2> HIDE DEF c
    <2>3. Leads("out", Saves \o Sets(c) \o Restoring(Builds), First(a, image),
                Out(x, e, {OUT}, Uses(image), Built({}, OUT, "afl", a)))
        BY <2>1, <2>2, SavedBuild
    <2>4. Fits(Integration(image, Saves \o Sets(c) \o Restoring(Builds)
                                  \o ThenPlain, TwoFuzz(image)), a, TRUE)
        BY <2>3, ThenPlainFits
    <2> QED BY <2>4
            DEF fuzzolic_aflplusplus_z3, fuzzolic_aflplusplus_fuzzy,
                FuzzolicBuild, c
<1> QED BY <1>1, <1>2

\* SymCC's program is built next to the fuzzer's.
LEMMA ThenSymccFits ==
    ASSUME NEW start, NEW a \in BOOLEAN, NEW cc, NEW lib, NEW v, NEW s,
           NEW ds, OUT \in ds, In("uninstrumented") \notin ds,
           NEW fs, NEW ps, NEW base,
           Leads("out", start, First(a, {}),
                 Out(Env(cc, lib, a, OUT, v), s, ds, fs, ps)),
           IsAt(ps, OUT, "afl", a),
           NEW w, "cmplog" \notin w,
           Changed(Base(base, Env(cc, lib, a, OUT, v), s), SymCC)
             = Env("symcc", "harness", FALSE, In("uninstrumented"), w)
    PROVE  Fits(Integration({},
                  start \o AflTools \o Mkdir(Uninstrumented)
                      \o BuildsWith(base, SymCC)
                      \o CopiesTo(Uninstrumented, SymCCFiles),
                  SymCCFuzz), a, TRUE)
<1> DEFINE c == SymCC
           x == Env(cc, lib, a, OUT, v)
           dir == In("uninstrumented")
           more == ds \union {dir}
           tools == {"afl-fuzz", "afl-showmap"}
           gs == fs \union Uses(tools)
           hs == gs \union UsesIn(dir, SymCCFiles)
           qs == Built(ps, dir, "symcc", FALSE)
<1>1. Changed(Base(base, x, s), c)
        = Env("symcc", "harness", FALSE, dir, w)
    OBVIOUS
<1>2. \A f : KindOf(Env("symcc", "harness", f, dir, w)) = "symcc"
    BY Kinds
<1>3. /\ OUT \in ds /\ dir \notin ds /\ dir \in more
      /\ OUT \o dir = dir
    BY Directories
<1>4. IsAt(qs, OUT, "afl", a) /\ IsAt(qs, dir, "symcc", FALSE)
    BY BuiltAt, Directories
<1>5. Leads("out", start, First(a, {}), Out(x, s, ds, fs, ps))
    OBVIOUS
<1> HIDE DEF c
<1>6. Leads("out", Copies(tools), Out(x, s, ds, fs, ps),
            Out(x, s, ds, gs, ps))
    BY <1>3, ItCopiesOut
<1>7. /\ Leads("out", Mkdir(dir), Out(x, s, ds, gs, ps),
               Out(x, s, more, gs, ps))
      /\ Leads("out", BuildsWith(base, c), Out(x, s, more, gs, ps),
               Out(x, s, more, gs, qs))
    <2>1. \A f \in BOOLEAN : f = FALSE =>
           /\ Leads("out", Mkdir(dir), Out(x, s, ds, gs, ps),
                    Out(x, s, more, gs, ps))
           /\ Leads("out", BuildsWith(base, c), Out(x, s, more, gs, ps),
                    Out(x, s, more, gs, Built(ps, dir, "symcc", f)))
        BY <1>1, <1>2, <1>3, SecondBuild
    <2> QED BY <2>1
<1> HIDE DEF more, qs, gs
<1>8. Leads("out", CopiesTo(dir, SymCCFiles), Out(x, s, more, gs, qs),
            Out(x, s, more, hs, qs))
    BY <1>3, ItCopies
<1> DEFINE build == start \o Copies(tools) \o Mkdir(dir)
                    \o BuildsWith(base, c) \o CopiesTo(dir, SymCCFiles)
<1> HIDE DEF x, hs
<1>9. Leads("out", start \o Copies(tools) \o Mkdir(dir), First(a, {}),
            Out(x, s, more, gs, ps))
    BY <1>5, <1>6, <1>7, LeadsOn
<1>10. Leads("out", build, First(a, {}), Out(x, s, more, hs, qs))
    BY <1>7, <1>8, <1>9, LeadsOn
<1>11. {In("afl-fuzz"), dir \o In("symcc_fuzzing_helper")} \subseteq hs
    BY DEF hs, gs, Uses, UsesIn, SymCCFiles
<1>12. \A r \in Runs(OUT, "afl") \union Runs(dir, "symcc") : Found(r, qs)
    <2>1. /\ \A r \in Runs(OUT, "afl") : Found(r, qs)
          /\ \A r \in Runs(dir, "symcc") : Found(r, qs)
        BY <1>4, FoundAt
    <2> QED BY <2>1
<1>13. \E kind : IsAt(qs, OUT, kind, a)
    BY <1>4
<1> HIDE DEF build
<1>14. Fits(Integration({}, build,
              Fuzz({In("afl-fuzz"), dir \o In("symcc_fuzzing_helper")},
                   Runs(OUT, "afl") \union Runs(dir, "symcc"))), a, TRUE)
    BY <1>10, <1>11, <1>12, <1>13, ItFits
<1> QED BY <1>14 DEF build, SymCCFuzz, Uninstrumented, AflTools, c

\* The environment of SymCC's program, for any saved one.
LEMMA SymccEnv ==
    ASSUME NEW cc, NEW lib, NEW a \in BOOLEAN, NEW v
    PROVE  Changed(Env(cc, lib, a, OUT, v), SymCC)
             = Env("symcc", "harness", FALSE, In("uninstrumented"), v)
<1>1. Changed(Env(cc, lib, a, OUT, v), SymCC)
        = Env("symcc", "harness", FALSE, OUT \o In("uninstrumented"), v)
    BY DEF Changed, Env, ++, SymCC, BelowUninstrumented, Below, Compiler,
           NoAsan
<1> QED BY <1>1, Directories

\* SymCC next to AFL, and next to AFL++.
LEMMA SymccFit ==
    ASSUME NEW b, NEW a \in BOOLEAN
    PROVE  /\ Fits(symcc_afl(b), a, TRUE) /\ Fits(symcc_afl_single(b), a, TRUE)
           /\ Fits(symcc_aflplusplus(b), a, TRUE)
<1> DEFINE e == Env("none", "none", a, OUT, {})
<1>1. Fits(symcc_afl(b), a, TRUE) /\ Fits(symcc_afl_single(b), a, TRUE)
    <2> DEFINE x == Env("clang", "AFL", a, OUT, {"trace-pc-guard"})
               ps == Built({}, OUT, "afl", a)
               fs == Uses({"afl-fuzz"})
               ds == {OUT}
    <2>1. /\ Leads("out", afl_build(b), First(a, {}), Out(x, e, ds, fs, ps))
          /\ IsAt(ps, OUT, "afl", a)
          /\ OUT \in ds /\ In("uninstrumented") \notin ds
        BY AflBuildLeads, Directories DEF afl_build
    <2> HIDE DEF ps, fs, ds
    <2>2. Leads("out", Restoring(afl_build(b)), First(a, {}),
                Out(x, e, ds, fs, ps))
        BY <2>1, RestoringLead
    <2>3. Changed(Base("env", x, e), SymCC)
            = Env("symcc", "harness", FALSE, In("uninstrumented"),
                  {"trace-pc-guard"})
        BY SymccEnv DEF Base
    <2>4. Fits(Integration({}, symcc_afl_build(b), SymCCFuzz), a, TRUE)
        BY <2>1, <2>2, <2>3, ThenSymccFits DEF symcc_afl_build
    <2> QED BY <2>4 DEF symcc_afl, symcc_afl_single
<1>2. Fits(symcc_aflplusplus(b), a, TRUE)
    <2> DEFINE modes == {"tracepc"}
               build == AflPlusPlusBuild(modes, {})
               x == ModesEnv(modes, a, OUT)
               ps == Built({}, OUT, "afl", a)
               ds == {OUT}
               fs == Uses({}) \union UsesIn(OUT, AflPlusPlusTools({}))
    <2>1. /\ "cmplog" \notin modes /\ "symcc" \notin modes
          /\ ModesKind(modes) = "afl" /\ a = ModesAsan(modes, a)
        BY DEF ModesKind, ModesAsan
    <2>2. /\ OUT \in ds /\ OUT \o OUT = OUT
          /\ In("uninstrumented") \notin ds
        BY Directories
    <2>3. Leads("out", Saves, First(a, {}), Out(e, e, ds, Uses({}), {}))
        BY FirstIs, SavesLead
    <2>4. IsAt(ps, OUT, "afl", a)
        BY BuiltAt
    <2>5. PICK cc, lib : x = Env(cc, lib, a, OUT, {})
        BY DEF ModesEnv
    <2>6. Leads("out", build, Out(e, e, ds, Uses({}), {}),
                Out(x, e, ds, fs, ps))
        <3> HIDE DEF ds, modes
        <3>1. Leads("out", build, Out(e, e, ds, Uses({}), {}),
                    Out(x, e, ds, fs, Built({}, OUT, ModesKind(modes), a)))
            BY <2>1, <2>2, PlainModes
        <3> QED BY <2>1, <3>1
    <2> HIDE DEF build, ps, fs, x, ds
    <2>7. Leads("out", Restoring(build), Out(e, e, ds, Uses({}), {}),
                Out(x, e, ds, fs, ps))
        BY <2>6, RestoringLead
    <2>8. Leads("out", Saves \o Restoring(build), First(a, {}),
                Out(x, e, ds, fs, ps))
        BY <2>3, <2>7, LeadsOn
    <2>9. Changed(Base("saved", x, e), SymCC)
            = Env("symcc", "harness", FALSE, In("uninstrumented"), {})
        BY SymccEnv DEF Base
    <2>10. Fits(Integration({},
                  Saves \o Restoring(build) \o AflTools \o Mkdir(Uninstrumented)
                      \o BuildsWith("saved", SymCC)
                      \o CopiesTo(Uninstrumented, SymCCFiles),
                  SymCCFuzz), a, TRUE)
        BY <2>2, <2>4, <2>5, <2>8, <2>9, ThenSymccFits
    <2> QED BY <2>10 DEF symcc_aflplusplus, build, modes
<1> QED BY <1>1, <1>2

\* Here SymCC's program is one of AFL++'s modes.
LEMMA SymccSingleFits ==
    ASSUME NEW b, NEW a \in BOOLEAN
    PROVE  Fits(symcc_aflplusplus_single(b), a, FALSE)
<1> DEFINE modes == {"tracepc", "symcc"}
           build == AflPlusPlusBuild(modes, {})
           e == Env("none", "none", a, OUT, {})
           dir == In("uninstrumented")
           ds == {OUT}
           more == ds \union {dir}
           tools == {"afl-fuzz", "afl-showmap"}
           fs == Uses({}) \union UsesIn(OUT, AflPlusPlusTools({}))
           gs == fs \union Uses(tools)
           hs == gs \union UsesIn(dir, SymCCFiles)
<1>1. /\ "cmplog" \notin modes /\ "qemu" \notin modes /\ "symcc" \in modes
      /\ \E asan \in BOOLEAN : asan = FALSE
    OBVIOUS
<1>2. /\ OUT \in ds /\ dir \notin ds /\ OUT \o OUT = OUT
      /\ dir = OUT \o dir /\ dir = OUT \o Uninstrumented
      /\ OUT \in more /\ dir \in more
    BY Directories DEF Uninstrumented
<1>3. First(a, {}) = Out(e, e, ds, Uses({}), {})
    BY FirstIs
<1> HIDE DEF ds, modes
<1>4. PICK asan \in BOOLEAN : asan = FALSE
    BY <1>1
<1> DEFINE x == ModesEnv(modes, asan, OUT)
           ps == Built(Built({}, OUT, "afl", asan), dir, "symcc", asan)
<1>5. Leads("out", build, Out(e, e, ds, Uses({}), {}),
            Out(x, e, more, fs, ps))
    BY <1>1, <1>2, <1>4, SymccModes
<1>6. IsAt(ps, OUT, "afl", asan) /\ IsAt(ps, dir, "symcc", asan)
    BY BuiltAt, Directories
<1>7. PICK cc, lib : x = Env(cc, lib, asan, OUT, {})
    BY DEF ModesEnv
<1> HIDE DEF more, fs, ps, build, x
<1>8. Leads("out", Restoring(build), First(a, {}), Out(x, e, more, fs, ps))
    BY <1>3, <1>5, RestoringLead
<1>9. Leads("out", Copies(tools), Out(x, e, more, fs, ps),
            Out(x, e, more, gs, ps))
    BY <1>2, <1>7, ItCopiesOut
<1>10. Leads("out", CopiesTo(dir, SymCCFiles), Out(x, e, more, gs, ps),
             Out(x, e, more, hs, ps))
    <2> HIDE DEF gs
    <2> QED BY <1>2, <1>7, ItCopies
<1> DEFINE all == Restoring(build) \o Copies(tools) \o CopiesTo(dir, SymCCFiles)
<1> HIDE DEF gs, hs
<1>11. Leads("out", all, First(a, {}), Out(x, e, more, hs, ps))
    BY <1>8, <1>9, <1>10, LeadsOn
<1>12. {In("afl-fuzz"), dir \o In("symcc_fuzzing_helper")} \subseteq hs
    BY DEF hs, gs, Uses, UsesIn, SymCCFiles
<1>13. \A r \in Runs(OUT, "afl") \union Runs(dir, "symcc") : Found(r, ps)
    <2>1. /\ \A r \in Runs(OUT, "afl") : Found(r, ps)
          /\ \A r \in Runs(dir, "symcc") : Found(r, ps)
        BY <1>6, FoundAt
    <2> QED BY <2>1
<1> HIDE DEF all
<1>14. Fits(Integration({}, all,
              Fuzz({In("afl-fuzz"), dir \o In("symcc_fuzzing_helper")},
                   Runs(OUT, "afl") \union Runs(dir, "symcc"))), a, FALSE)
    BY <1>11, <1>12, <1>13, ItFits
<1> QED BY <1>14 DEF symcc_aflplusplus_single, SymCCFuzz, Uninstrumented,
                     AflTools, all, build, modes

\* The program for the tool is built as the fuzzer's, and copied away before
\* the fuzzer's own takes its place.
LEMMA PlainThenLeads ==
    ASSUME NEW a \in BOOLEAN
    PROVE  \E x, e, fs, ps :
             /\ \E cc, lib : x = Env(cc, lib, a, OUT, {})
             /\ Leads("out", PlainThenAflPlusPlus, First(a, {}),
                      Out(x, e, {OUT} \union {In("uninstrumented")}, fs, ps))
             /\ IsAt(ps, OUT, "afl", a)
             /\ \E asan : IsAt(ps, In("uninstrumented"), "plain", asan)
             /\ NoneAt(ps, In("cmplog"))
<1> DEFINE plain == {"qemu", "eclipser"}
           afl_ == {"tracepc"}
           first == AflPlusPlusBuild(plain, {})
           second == AflPlusPlusBuild(afl_, {})
           e == Env("none", "none", a, OUT, {})
           y == ModesEnv(afl_, a, OUT)
           dir == In("uninstrumented")
           ds == {OUT}
           more == ds \union {dir}
           tools == UsesIn(OUT, AflPlusPlusTools({}))
           fs == Uses({}) \union tools
           gs == fs \union tools
<1>1. /\ "cmplog" \notin plain /\ "symcc" \notin plain
      /\ ModesKind(plain) = "plain"
      /\ \E asan \in BOOLEAN : asan = ModesAsan(plain, a)
    BY DEF ModesKind, ModesAsan
<1>2. /\ "cmplog" \notin afl_ /\ "symcc" \notin afl_
      /\ ModesKind(afl_) = "afl" /\ a = ModesAsan(afl_, a)
    BY DEF ModesKind, ModesAsan
<1>3. PICK asan \in BOOLEAN : asan = ModesAsan(plain, a)
    BY <1>1
<1> DEFINE x == ModesEnv(plain, asan, OUT)
           ps1 == Built({}, OUT, "plain", asan)
           ps2 == Built(ps1, dir, "plain", asan)
           ps3 == Built(ps2, OUT, "afl", a)
<1>4. /\ OUT \in ds /\ dir \notin ds /\ OUT \o OUT = OUT
      /\ OUT \in more /\ dir \in more
    BY Directories
<1>5. Leads("out", Saves, First(a, {}), Out(e, e, ds, Uses({}), {}))
    BY FirstIs, SavesLead
<1>6. TargetsIn(ps1) = {Program(OUT, "plain", asan, TRUE, FALSE)}
    BY BuiltTarget
<1>7. /\ IsAt(ps3, OUT, "afl", a) /\ IsAt(ps3, dir, "plain", asan)
      /\ NoneAt(ps3, In("cmplog"))
    <2>1. NoneAt(ps1, In("cmplog"))
        BY BuiltAt, NothingAt, Directories
    <2> HIDE DEF ps1
    <2>2. IsAt(ps2, dir, "plain", asan) /\ NoneAt(ps2, In("cmplog"))
        BY <2>1, BuiltAt, Directories
    <2> HIDE DEF ps2
    <2> QED BY <2>2, BuiltAt, Directories
<1>8. (\E cc, lib : x = Env(cc, lib, asan, OUT, {}))
      /\ (\E cc, lib : y = Env(cc, lib, a, OUT, {}))
    BY DEF ModesEnv
<1> HIDE DEF ds, plain, afl_
<1>9. Leads("out", first, Out(e, e, ds, Uses({}), {}), Out(x, e, ds, fs, ps1))
    <2>1. Leads("out", first, Out(e, e, ds, Uses({}), {}),
                Out(x, e, ds, fs, Built({}, OUT, ModesKind(plain), asan)))
        BY <1>1, <1>3, <1>4, PlainModes
    <2> QED BY <1>1, <2>1
<1> HIDE DEF x, fs, ps1
<1>10. Leads("out", Mkdir(dir), Out(x, e, ds, fs, ps1),
             Out(x, e, more, fs, ps1))
    BY <1>4, <1>8, ItMakesBelow
<1> HIDE DEF more
<1>11. Leads("out", CopiesTarget(dir), Out(x, e, more, fs, ps1),
             Out(x, e, more, fs, ps2))
    BY <1>4, <1>6, CopiesTargetLeads
<1> HIDE DEF ps2
<1>12. Leads("out", Restores, Out(x, e, more, fs, ps2),
             Out(e, e, more, fs, ps2))
    BY SavesLead
<1>13. Leads("out", second, Out(e, e, more, fs, ps2),
             Out(y, e, more, gs, ps3))
    <2>1. Leads("out", second, Out(e, e, more, fs, ps2),
                Out(y, e, more, gs, Built(ps2, OUT, ModesKind(afl_), a)))
        BY <1>2, <1>4, PlainModes
    <2> QED BY <1>2, <2>1
<1> HIDE DEF first, second, e, y, gs, ps3
<1>14. Leads("out", Saves \o first \o Mkdir(dir), First(a, {}),
             Out(x, e, more, fs, ps1))
    BY <1>5, <1>9, <1>10, LeadsOn
<1>15. Leads("out", Saves \o first \o Mkdir(dir) \o CopiesTarget(dir)
             \o Restores, First(a, {}), Out(e, e, more, fs, ps2))
    BY <1>11, <1>12, <1>14, LeadsOn
<1>16. Leads("out", PlainThenAflPlusPlus, First(a, {}),
             Out(y, e, more, gs, ps3))
    BY <1>13, <1>15, LeadsOn
    DEF PlainThenAflPlusPlus, Uninstrumented, first, second, plain, afl_
<1>17. Leads("out", PlainThenAflPlusPlus, First(a, {}),
             Out(y, e, {OUT} \union {dir}, gs, ps3))
    BY <1>16 DEF more, ds
<1> QED BY <1>7, <1>8, <1>17

\* SymQEMU and Eclipser next to AFL++ find a program each.
LEMMA PlainThenFit ==
    ASSUME NEW b, NEW a \in BOOLEAN
    PROVE  /\ Fits(symqemu_aflplusplus(b), a, TRUE)
           /\ Fits(eclipser_aflplusplus(b), a, TRUE)
<1> DEFINE build == PlainThenAflPlusPlus
           dir == In("uninstrumented")
           ds == {OUT} \union {dir}
           one == {"afl-fuzz"}
           two == {"afl-fuzz", "afl-showmap"}
           three == {"symcc_fuzzing_helper", "libSymRuntime.so", "libz3.so",
                     "symqemu-x86_64"}
<1>1. PICK x, e, fs, ps :
           /\ \E cc, lib : x = Env(cc, lib, a, OUT, {})
           /\ Leads("out", build, First(a, {}), Out(x, e, ds, fs, ps))
           /\ IsAt(ps, OUT, "afl", a)
           /\ \E asan : IsAt(ps, dir, "plain", asan)
           /\ NoneAt(ps, In("cmplog"))
    BY PlainThenLeads
<1>2. PICK cc, lib : x = Env(cc, lib, a, OUT, {})
    BY <1>1
<1>3. OUT \in ds /\ dir \in ds /\ dir = OUT \o dir
    BY Directories
<1> DEFINE gs == fs \union Uses(two)
           hs == gs \union UsesIn(dir, three)
<1>4. /\ \A r \in Runs(OUT, "afl") : Found(r, ps)
      /\ \A r \in Runs(dir, "plain") : Found(r, ps)
      /\ \A r \in RunsIfBuilt(In("cmplog"), "cmplog") : Found(r, ps)
    BY <1>1, FoundAt, FoundIfBuilt
<1>5. \E kind : IsAt(ps, OUT, kind, a)
    BY <1>1
<1> HIDE DEF ds, build, one, two, three
<1>6. /\ Leads("out", Copies(one), Out(x, e, ds, fs, ps),
               Out(x, e, ds, fs \union Uses(one), ps))
      /\ Leads("out", Copies(two), Out(x, e, ds, fs, ps),
               Out(x, e, ds, gs, ps))
    BY <1>2, <1>3, ItCopiesOut
<1> HIDE DEF gs
<1>7. Leads("out", CopiesTo(dir, three), Out(x, e, ds, gs, ps),
            Out(x, e, ds, hs, ps))
    BY <1>2, <1>3, ItCopies
<1> HIDE DEF hs
<1>8. Leads("out", build \o Copies(two) \o CopiesTo(dir, three), First(a, {}),
            Out(x, e, ds, hs, ps))
    BY <1>1, <1>6, <1>7, LeadsOn
<1>9. Leads("out", build \o Copies(one), First(a, {}),
            Out(x, e, ds, fs \union Uses(one), ps))
    BY <1>1, <1>6, LeadsOn
<1>10. {In("afl-fuzz"), dir \o In("symcc_fuzzing_helper"),
        dir \o In("symqemu-x86_64")} \subseteq hs
    BY DEF hs, gs, Uses, UsesIn, two, three
<1>11. /\ \A r \in Runs(OUT, "afl") \union Runs(dir, "plain") : Found(r, ps)
       /\ \A r \in Runs(OUT, "afl") \union Runs(dir, "plain")
                \union RunsIfBuilt(In("cmplog"), "cmplog") : Found(r, ps)
    BY <1>4
<1>12. Fits(Integration({}, build \o Copies(two) \o CopiesTo(dir, three),
              Fuzz({In("afl-fuzz"), dir \o In("symcc_fuzzing_helper"),
                    dir \o In("symqemu-x86_64")},
                   Runs(OUT, "afl") \union Runs(dir, "plain"))), a, TRUE)
    BY <1>5, <1>8, <1>10, <1>11, ItFits
<1>13. Uses(one) \subseteq fs \union Uses(one)
    OBVIOUS
<1>14. Fits(Integration({}, build \o Copies(one),
              Fuzz(Uses(one),
                   Runs(OUT, "afl") \union Runs(dir, "plain")
                   \union RunsIfBuilt(In("cmplog"), "cmplog"))), a, TRUE)
    BY <1>5, <1>9, <1>11, <1>13, ItFits
<1> QED BY <1>12, <1>14
        DEF symqemu_aflplusplus, eclipser_aflplusplus, AflTools,
            Uninstrumented, build, one, two, three

\* One of SymSan's programs.
LEMMA KoClangLeads ==
    ASSUME NEW a \in BOOLEAN, NEW asan \in BOOLEAN, NEW c, NEW name,
           NEW ds, In(name) \notin ds, NEW fs, NEW ps,
           Changed(Env("none", "none", a, OUT, {}), c)
             = Env("ko-clang", "harness", asan, In(name), {})
    PROVE  LET e == Env("none", "none", a, OUT, {})
               more == ds \union {In(name)}
           IN  /\ Leads("out", Mkdir(In(name)), Out(e, e, ds, fs, ps),
                        Out(e, e, more, fs, ps))
               /\ Leads("out", Restoring(BuildsWith("env", c)),
                        Out(e, e, more, fs, ps),
                        Out(e, e, more, fs,
                            Built(ps, In(name), "ko-clang", asan)))
<1> DEFINE e == Env("none", "none", a, OUT, {})
<1>1. Changed(Base("env", e, e), c)
        = Env("ko-clang", "harness", asan, In(name), {})
    BY Bases
<1>2. KindOf(Env("ko-clang", "harness", asan, In(name), {})) = "ko-clang"
    BY Kinds
<1> QED BY <1>1, <1>2, SecondBuild

\* SymSan finds both of its programs and that of AFL++.
LEMMA SymsanFits ==
    ASSUME NEW b, NEW a \in BOOLEAN PROVE Fits(symsan(b), a, TRUE)
<1> DEFINE ko(name) ==
               Below(name) ++ [cc |-> "ko-clang", lib |-> "harness"]
               ++ (IF b.name = "libjpeg" THEN Unchanged ELSE NoAsan)
           track == In("symsantrack")
           fast == In("symsanfast")
           cmplog == In("cmplog")
           image == {"fuz.sh", "fres.sh"}
           e == Env("none", "none", a, OUT, {})
           y == ModesEnv(DefaultModes, a, OUT)
           ds0 == {OUT}
           ds1 == ds0 \union {track}
           ds2 == ds1 \union {fast}
           ds3 == ds2 \union {cmplog}
           fs == Uses(image)
           gs == fs \union UsesIn(OUT, AflPlusPlusTools({}))
           hs == gs \union Uses({"fastgen"})
           one == ko("symsantrack")
           two == ko("symsanfast")
           dTrack == BuildsWith("env", one)
           dFast == BuildsWith("env", two)
           build == AflPlusPlusBuild(DefaultModes, {})
           inner == Mkdir(track) \o Restoring(dTrack) \o Mkdir(fast)
                    \o Restoring(dFast) \o build
<1>1. PICK asan \in BOOLEAN : asan = IF b.name = "libjpeg" THEN a ELSE FALSE
    OBVIOUS
<1> DEFINE ps1 == Built({}, track, "ko-clang", asan)
           ps2 == Built(ps1, fast, "ko-clang", asan)
           ps3 == Built(Built(ps2, OUT, "afl", a), cmplog, "cmplog", a)
<1>1a. asan \in BOOLEAN
    BY <1>1
<1>2. \A name : Changed(e, ko(name))
                  = Env("ko-clang", "harness", asan, In(name), {})
    <2>1. \A name : Changed(e, ko(name))
                      = Env("ko-clang", "harness", asan, OUT \o In(name), {})
        <3>1. CASE b.name = "libjpeg"
            BY <1>1, <3>1 DEF Changed, Env, ++, Below, Unchanged
        <3>2. CASE b.name # "libjpeg"
            BY <1>1, <3>2 DEF Changed, Env, ++, Below, NoAsan
        <3> QED BY <3>1, <3>2
    <2> QED BY <2>1, Directories
<1>4. /\ "cmplog" \in DefaultModes /\ "qemu" \notin DefaultModes
      /\ "symcc" \notin DefaultModes
    BY DEF DefaultModes
<1>5. /\ track \notin ds0 /\ fast \notin ds1 /\ cmplog \notin ds2
      /\ OUT \in ds2 /\ OUT \in ds3 /\ OUT \o OUT = OUT
      /\ cmplog = OUT \o cmplog
    BY Directories
<1>6. First(a, image) = Out(e, e, ds0, fs, {})
    BY FirstIs
<1>7. /\ IsAt(ps3, OUT, "afl", a) /\ IsAt(ps3, cmplog, "cmplog", a)
      /\ IsAt(ps3, track, "ko-clang", asan) /\ IsAt(ps3, fast, "ko-clang", asan)
    <2>1. IsAt(ps1, track, "ko-clang", asan)
        BY BuiltAt
    <2> HIDE DEF ps1
    <2>2. /\ IsAt(ps2, track, "ko-clang", asan)
          /\ IsAt(ps2, fast, "ko-clang", asan)
        BY <2>1, BuiltAt, Directories
    <2> HIDE DEF ps2
    <2> DEFINE qs == Built(ps2, OUT, "afl", a)
    <2>3. /\ IsAt(qs, track, "ko-clang", asan)
          /\ IsAt(qs, fast, "ko-clang", asan) /\ IsAt(qs, OUT, "afl", a)
        BY <2>2, BuiltAt, Directories
    <2> HIDE DEF qs
    <2>4. /\ IsAt(Built(qs, cmplog, "cmplog", a), track, "ko-clang", asan)
          /\ IsAt(Built(qs, cmplog, "cmplog", a), fast, "ko-clang", asan)
          /\ IsAt(Built(qs, cmplog, "cmplog", a), OUT, "afl", a)
          /\ IsAt(Built(qs, cmplog, "cmplog", a), cmplog, "cmplog", a)
        BY <2>3, BuiltAt, Directories
    <2> QED BY <2>4 DEF qs
<1>8. /\ Changed(Env("none", "none", a, OUT, {}), one)
           = Env("ko-clang", "harness", asan, track, {})
      /\ Changed(Env("none", "none", a, OUT, {}), two)
           = Env("ko-clang", "harness", asan, fast, {})
    BY <1>2
<1> HIDE DEF one, two, ds0, fs
<1>9. /\ Leads("out", Mkdir(track), Out(e, e, ds0, fs, {}),
               Out(e, e, ds1, fs, {}))
      /\ Leads("out", Restoring(dTrack), Out(e, e, ds1, fs, {}),
               Out(e, e, ds1, fs, ps1))
    BY <1>1a, <1>5, <1>8, KoClangLeads
<1> HIDE DEF ds1, ps1
<1>10. /\ Leads("out", Mkdir(fast), Out(e, e, ds1, fs, ps1),
                Out(e, e, ds2, fs, ps1))
       /\ Leads("out", Restoring(dFast), Out(e, e, ds2, fs, ps1),
                Out(e, e, ds2, fs, ps2))
    BY <1>1a, <1>5, <1>8, KoClangLeads
<1> HIDE DEF ds2, ps2
<1>11. Leads("out", build, Out(e, e, ds2, fs, ps2), Out(y, e, ds3, gs, ps3))
    BY <1>4, <1>5, CmplogModes
<1> HIDE DEF e, dTrack, dFast, build, gs, ps3, ds3
<1>12. Leads("out", Mkdir(track) \o Restoring(dTrack) \o Mkdir(fast),
             Out(e, e, ds0, fs, {}), Out(e, e, ds2, fs, ps1))
    BY <1>9, <1>10, LeadsOn
<1>13. Leads("out", inner, Out(e, e, ds0, fs, {}), Out(y, e, ds3, gs, ps3))
    BY <1>10, <1>11, <1>12, LeadsOn
<1>14. PICK cc, lib : y = Env(cc, lib, a, OUT, {})
    BY DEF ModesEnv
<1> HIDE DEF y, inner
<1>15. Leads("out", Copies({"fastgen"}), Out(y, e, ds3, gs, ps3),
             Out(y, e, ds3, hs, ps3))
    BY <1>5, <1>14, ItCopiesOut
<1> HIDE DEF hs
<1>16. Leads("out", Restoring(inner) \o Copies({"fastgen"}), First(a, image),
             Out(y, e, ds3, hs, ps3))
    BY <1>6, <1>13, <1>15, RestoringLead, LeadsOn
<1>17. Uses({"afl-fuzz", "fuz.sh", "fres.sh", "fastgen"}) \subseteq hs
    <2>1. gs = fs \union Uses(AflPlusPlusTools({}))
        BY UsesOut DEF gs
    <2> QED BY <2>1 DEF hs, fs, Uses, AflPlusPlusTools
<1> DEFINE runs == Runs(OUT, "afl") \union RunsIfBuilt(cmplog, "cmplog")
                   \union Runs(track, "ko-clang") \union Runs(fast, "ko-clang")
<1>18. \A r \in runs : Found(r, ps3)
    <2>1. /\ \A r \in Runs(OUT, "afl") : Found(r, ps3)
          /\ \A r \in RunsIfBuilt(cmplog, "cmplog") : Found(r, ps3)
          /\ \A r \in Runs(track, "ko-clang") : Found(r, ps3)
          /\ \A r \in Runs(fast, "ko-clang") : Found(r, ps3)
        BY <1>7, FoundAt
    <2> QED BY <2>1
<1>19. \E kind : IsAt(ps3, OUT, kind, a)
    BY <1>7
<1> HIDE DEF runs
<1>20. Fits(Integration(image, Restoring(inner) \o Copies({"fastgen"}),
              Fuzz(Uses({"afl-fuzz", "fuz.sh", "fres.sh", "fastgen"}), runs)),
            a, TRUE)
    BY <1>16, <1>17, <1>18, <1>19, ItFits
<1>21. symsan(b)
         = Integration(image, Restoring(inner) \o Copies({"fastgen"}),
             Fuzz(Uses({"afl-fuzz", "fuz.sh", "fres.sh", "fastgen"}), runs))
    BY DEF symsan, inner, runs, dTrack, dFast, build, one, two
<1> QED BY <1>20, <1>21

\* PASTIS makes its directories, and builds its own program.
LEMMA PastisMakes ==
    ASSUME NEW a \in BOOLEAN
    PROVE  LET e == Env("none", "none", a, OUT, {})
           IN  \E ds :
                 /\ {OUT, TargetAflpp, TargetHf, TargetFuzzers} \subseteq ds
                 /\ TargetAflpp \o In("cmplog") \notin ds
                 /\ Leads("out",
                      Mkdir(TargetAflpp) \o Mkdir(TargetHf)
                      \o Mkdir(In("targets")) \o Mkdir(TargetFuzzers)
                      \o Restoring(BuildsWith("env",
                                     Compiler("clang", "Standalone"))),
                      First(a, {}),
                      Out(e, e, ds, Uses({}), Built({}, OUT, "plain", a)))
<1> DEFINE e == Env("none", "none", a, OUT, {})
           x == Env("clang", "Standalone", a, OUT, {})
           c == Compiler("clang", "Standalone")
           aflpp == In("target-aflpp")
           hf == In("target-hf")
           own == In("targets")
           fuzzers == In("fuzzers")
           ds0 == {OUT}
           ds1 == ds0 \union {aflpp}
           ds2 == ds1 \union {hf}
           ds3 == ds2 \union {own}
           ds4 == ds3 \union {fuzzers}
           fs == Uses({})
           ps == Built({}, OUT, "plain", a)
           build == Restoring(BuildsWith("env", c))
<1>1. /\ aflpp \notin ds0 /\ hf \notin ds1 /\ own \notin ds2
      /\ fuzzers \notin ds3 /\ OUT \in ds4
    BY Directories
<1>2. /\ {OUT, aflpp, hf, fuzzers} \subseteq ds4
      /\ aflpp \o In("cmplog") \notin ds4
    BY LongerPaths
<1>3. First(a, {}) = Out(e, e, ds0, fs, {})
    BY FirstIs
<1>4. Changed(Base("env", e, e), c) = x /\ KindOf(x) = "plain"
    <2>1. Changed(e, c) = x
        BY DEF Changed, Env, Compiler
    <2> QED BY <2>1, Bases, Kinds
<1> HIDE DEF ds0, c, fs
<1>5. Leads("out", Mkdir(aflpp), Out(e, e, ds0, fs, {}),
            Out(e, e, ds1, fs, {}))
    BY <1>1, ItMakesBelow
<1> HIDE DEF ds1
<1>6. Leads("out", Mkdir(hf), Out(e, e, ds1, fs, {}), Out(e, e, ds2, fs, {}))
    BY <1>1, ItMakesBelow
<1> HIDE DEF ds2
<1>7. Leads("out", Mkdir(own), Out(e, e, ds2, fs, {}), Out(e, e, ds3, fs, {}))
    BY <1>1, ItMakesBelow
<1> HIDE DEF ds3
<1>8. Leads("out", Mkdir(fuzzers), Out(e, e, ds3, fs, {}),
            Out(e, e, ds4, fs, {}))
    BY <1>1, ItMakesBelow
<1> HIDE DEF ds4
<1>9. Leads("out", BuildsWith("env", c), Out(e, e, ds4, fs, {}),
            Out(e, e, ds4, fs, ps))
    BY <1>1, <1>4, EnvBuilds
<1> HIDE DEF e, ps
<1>10. Leads("out", build, Out(e, e, ds4, fs, {}), Out(e, e, ds4, fs, ps))
    BY <1>9, RestoringLead
<1> HIDE DEF build
<1>11. Leads("out", Mkdir(aflpp) \o Mkdir(hf) \o Mkdir(own) \o Mkdir(fuzzers)
             \o build, First(a, {}), Out(e, e, ds4, fs, ps))
    <2>1. Leads("out", Mkdir(aflpp) \o Mkdir(hf) \o Mkdir(own), First(a, {}),
                Out(e, e, ds3, fs, {}))
        BY <1>3, <1>5, <1>6, <1>7, LeadsOn
    <2> QED BY <1>8, <1>10, <2>1, LeadsOn
<1> QED BY <1>2, <1>11
        DEF TargetAflpp, TargetHf, TargetFuzzers, e, fs, ps, build, c

\* A program is built in a directory that OUT is set to for a while.
LEMMA OutIsSet ==
    ASSUME NEW cc, NEW lib, NEW a \in BOOLEAN, NEW o, NEW v, NEW to,
           NEW s, NEW ds, NEW fs, NEW ps
    PROVE  Leads("out", Sets(To(to)),
                 Out(Env(cc, lib, a, o, v), s, ds, fs, ps),
                 Out(Env(cc, lib, a, to, v), s, ds, fs, ps))
<1>1. Changed(Env(cc, lib, a, o, v), To(to)) = Env(cc, lib, a, to, v)
    BY DEF Changed, Env, To
<1> QED BY <1>1, EnvSet

\* Then AFL++ is built in its directory, and afl-fuzz moved away from there.
LEMMA PastisAflpp ==
    ASSUME NEW a \in BOOLEAN, NEW s, NEW ds, NEW fs, NEW ps,
           TargetAflpp \in ds, TargetFuzzers \in ds,
           TargetAflpp \o In("cmplog") \notin ds, NEW before, NEW begin,
           Leads("out", before, begin,
                 Out(Env("none", "none", a, OUT, {}), s, ds, fs, ps))
    PROVE  LET from == TargetAflpp \o In("afl-fuzz")
               to == TargetFuzzers \o In("afl-fuzz")
               sub == TargetAflpp \o In("cmplog")
           IN  \E cc, lib, gs :
                 /\ to \in gs
                 /\ Leads("out",
                      before \o Sets(To(TargetAflpp))
                        \o Restoring(AflPlusPlusBuild(DefaultModes, {}))
                        \o Sets(To(OUT)) \o Moves(from, to), begin,
                      Out(Env(cc, lib, a, OUT, {}), s, ds \union {sub}, gs,
                          Built(Built(ps, TargetAflpp, "afl", a), sub,
                                "cmplog", a)))
<1> DEFINE dir == TargetAflpp
           from == TargetAflpp \o In("afl-fuzz")
           to == TargetFuzzers \o In("afl-fuzz")
           sub == TargetAflpp \o In("cmplog")
           e == Env("none", "none", a, OUT, {})
           e1 == Env("none", "none", a, dir, {})
           more == ds \union {sub}
           tools == UsesIn(dir, AflPlusPlusTools({}))
           fs1 == fs \union tools
           gs == (fs1 \ {from}) \union {to}
           qs == Built(Built(ps, dir, "afl", a), sub, "cmplog", a)
           build == AflPlusPlusBuild(DefaultModes, {})
<1>1. /\ "cmplog" \in DefaultModes /\ "qemu" \notin DefaultModes
      /\ "symcc" \notin DefaultModes
    BY DEF DefaultModes
<1>2. dir \o OUT = dir
    BY Directories DEF TargetAflpp
<1>3. from \in fs1 /\ to \in gs
    BY DEF UsesIn, AflPlusPlusTools
<1>4. Front(to) \in more
    BY Paths DEF TargetFuzzers
<1>5. PICK cc, lib : ModesEnv(DefaultModes, a, dir) = Env(cc, lib, a, dir, {})
    BY DEF ModesEnv
<1> DEFINE x1 == Env(cc, lib, a, dir, {})
           x == Env(cc, lib, a, OUT, {})
<1> HIDE DEF sub, tools, dir
<1>6. Leads("out", Sets(To(dir)), Out(e, s, ds, fs, ps),
            Out(e1, s, ds, fs, ps))
    BY OutIsSet
<1>7. Leads("out", build, Out(e1, s, ds, fs, ps), Out(x1, s, more, fs1, qs))
    <2>1. sub = dir \o In("cmplog") /\ dir \in ds /\ sub \notin ds
        BY DEF sub, dir
    <2>2. Leads("out", build, Out(e1, s, ds, fs, ps),
                Out(ModesEnv(DefaultModes, a, dir), s, more, fs1, qs))
        BY <1>1, <1>2, <2>1, CmplogModes DEF tools
    <2> QED BY <1>5, <2>2
<1> HIDE DEF build, more, fs1, qs, e1
<1>8. Leads("out", Restoring(build), Out(e1, s, ds, fs, ps),
            Out(x1, s, more, fs1, qs))
    BY <1>7, RestoringLead
<1>9. Leads("out", Sets(To(OUT)), Out(x1, s, more, fs1, qs),
            Out(x, s, more, fs1, qs))
    BY OutIsSet
<1> HIDE DEF x1, from, to
<1>10. Leads("out", Moves(from, to), Out(x, s, more, fs1, qs),
             Out(x, s, more, gs, qs))
    BY <1>3, <1>4, MovesLead
<1> HIDE DEF e, x, gs
<1>11. Leads("out", before \o Sets(To(dir)) \o Restoring(build), begin,
             Out(x1, s, more, fs1, qs))
    <2>1. Leads("out", before, begin, Out(e, s, ds, fs, ps))
        BY DEF e
    <2> QED BY <1>6, <1>8, <2>1, LeadsOn
<1>12. Leads("out", before \o Sets(To(dir)) \o Restoring(build)
             \o Sets(To(OUT)) \o Moves(from, to), begin,
             Out(x, s, more, gs, qs))
    BY <1>9, <1>10, <1>11, LeadsOn
<1> QED BY <1>3, <1>12 DEF x, e, more, qs, build, from, to, sub, dir

\* Then honggfuzz, in its own.
LEMMA PastisHf ==
    ASSUME NEW cc, NEW lib, NEW a \in BOOLEAN, NEW s, NEW ds, NEW fs, NEW ps,
           TargetHf \in ds, TargetFuzzers \in ds,
           TargetFuzzers \o In("afl-fuzz") \in fs, NEW before, NEW begin,
           Leads("out", before, begin,
                 Out(Env(cc, lib, a, OUT, {}), s, ds, fs, ps))
    PROVE  LET from == TargetHf \o In("honggfuzz")
               to == TargetFuzzers \o In("honggfuzz")
           IN  \E x, gs :
                 /\ to \in gs /\ TargetFuzzers \o In("afl-fuzz") \in gs
                 /\ Leads("out",
                      before \o Sets(To(TargetHf))
                        \o Restoring(HonggfuzzBuild) \o Sets(To(OUT))
                        \o Moves(from, to), begin,
                      Out(x, s, ds, gs, Built(ps, TargetHf, "hfuzz-clang", a)))
<1> DEFINE dir == TargetHf
           from == TargetHf \o In("honggfuzz")
           to == TargetFuzzers \o In("honggfuzz")
           c == Compiler("hfuzz-clang", "empty")
           e == Env(cc, lib, a, OUT, {})
           e1 == Env(cc, lib, a, dir, {})
           x1 == Env("hfuzz-clang", "empty", a, dir, {})
           x == Env("hfuzz-clang", "empty", a, OUT, {})
           fs1 == fs \union UsesIn(dir, {"honggfuzz"})
           gs == (fs1 \ {from}) \union {to}
           qs == Built(ps, dir, "hfuzz-clang", a)
<1>1. dir \o OUT = dir
    BY Directories DEF TargetHf
<1>2. from \in fs1 /\ to \in gs
    BY DEF UsesIn
<1>3. TargetFuzzers \o In("afl-fuzz") \in gs
    <2>1. TargetFuzzers \o In("afl-fuzz") # from
        BY LongerPaths DEF TargetFuzzers, TargetHf
    <2> QED BY <2>1
<1>4. Front(to) \in ds
    BY Paths DEF TargetFuzzers
<1>5. Changed(e1, c) = x1
    BY DEF Changed, Env, Compiler
<1>6. KindOf(x1) = "hfuzz-clang"
    BY Kinds
<1>7. dir \in ds
    OBVIOUS
<1> HIDE DEF dir, c, from, to
<1>8. Leads("out", Sets(To(dir)), Out(e, s, ds, fs, ps),
            Out(e1, s, ds, fs, ps))
    BY OutIsSet
<1>9. Leads("out", Sets(c), Out(e1, s, ds, fs, ps), Out(x1, s, ds, fs, ps))
    BY <1>5, EnvSet
<1>10. Leads("out", Builds, Out(x1, s, ds, fs, ps), Out(x1, s, ds, fs, qs))
    BY <1>6, <1>7, ItBuilds
<1> HIDE DEF qs
<1>11. Leads("out", Copies({"honggfuzz"}), Out(x1, s, ds, fs, qs),
             Out(x1, s, ds, fs1, qs))
    BY <1>1, <1>7, ItCopies DEF Copies
<1> HIDE DEF fs1
<1>12. Leads("out", Sets(To(OUT)), Out(x1, s, ds, fs1, qs),
             Out(x, s, ds, fs1, qs))
    BY OutIsSet
<1>13. Leads("out", Moves(from, to), Out(x, s, ds, fs1, qs),
             Out(x, s, ds, gs, qs))
    BY <1>2, <1>4, MovesLead
<1> HIDE DEF e, e1, x1, x, gs
<1>14. Leads("out", HonggfuzzBuild, Out(e1, s, ds, fs, ps),
             Out(x1, s, ds, fs1, qs))
    BY <1>9, <1>10, <1>11, LeadsOn DEF HonggfuzzBuild, c
<1>15. Leads("out", Restoring(HonggfuzzBuild), Out(e1, s, ds, fs, ps),
             Out(x1, s, ds, fs1, qs))
    BY <1>14, RestoringLead
<1>16. Leads("out", before \o Sets(To(dir)) \o Restoring(HonggfuzzBuild),
             begin, Out(x1, s, ds, fs1, qs))
    <2>1. Leads("out", before, begin, Out(e, s, ds, fs, ps))
        BY DEF e
    <2> QED BY <1>8, <1>15, <2>1, LeadsOn
<1>17. Leads("out", before \o Sets(To(dir)) \o Restoring(HonggfuzzBuild)
             \o Sets(To(OUT)) \o Moves(from, to), begin,
             Out(x, s, ds, gs, qs))
    BY <1>12, <1>13, <1>16, LeadsOn
<1> QED BY <1>2, <1>3, <1>17 DEF e, qs, from, to, dir

\* PASTIS finds the three programs and the two fuzzers.
LEMMA PastisFits ==
    ASSUME NEW a \in BOOLEAN, NEW b PROVE Fits(pastis(b), a, TRUE)
<1> DEFINE e == Env("none", "none", a, OUT, {})
           made == Mkdir(TargetAflpp) \o Mkdir(TargetHf) \o Mkdir(In("targets"))
                   \o Mkdir(TargetFuzzers)
                   \o Restoring(BuildsWith("env",
                                  Compiler("clang", "Standalone")))
           with == made \o Sets(To(TargetAflpp))
                   \o Restoring(AflPlusPlusBuild(DefaultModes, {}))
                   \o Sets(To(OUT))
                   \o Moves(TargetAflpp \o In("afl-fuzz"),
                            TargetFuzzers \o In("afl-fuzz"))
           sub == TargetAflpp \o In("cmplog")
           ps1 == Built({}, OUT, "plain", a)
           ps2 == Built(ps1, TargetAflpp, "afl", a)
           ps3 == Built(ps2, sub, "cmplog", a)
           ps4 == Built(ps3, TargetHf, "hfuzz-clang", a)
           needed == {TargetFuzzers \o In("afl-fuzz"),
                      TargetFuzzers \o In("honggfuzz")}
           runs == Runs(OUT, "plain") \union Runs(TargetAflpp, "afl")
                   \union RunsIfBuilt(sub, "cmplog")
                   \union Runs(TargetHf, "hfuzz-clang")
<1>1. /\ OUT # TargetAflpp /\ OUT # sub /\ OUT # TargetHf
      /\ TargetAflpp # sub /\ TargetAflpp # TargetHf /\ sub # TargetHf
    <2>1. /\ OUT # TargetAflpp /\ OUT # TargetHf /\ TargetAflpp # TargetHf
        BY Directories DEF TargetAflpp, TargetHf
    <2>2. sub = In("target-aflpp") \o In("cmplog")
        BY DEF TargetAflpp
    <2>3. /\ In("target-aflpp") \o In("cmplog") # OUT
          /\ In("target-aflpp") \o In("cmplog") # In("target-aflpp")
          /\ In("target-aflpp") \o In("cmplog") # In("target-hf")
        BY LongerPaths
    <2> HIDE DEF sub
    <2> QED BY <2>1, <2>2, <2>3 DEF TargetAflpp, TargetHf
<1>2. /\ IsAt(ps4, OUT, "plain", a) /\ IsAt(ps4, TargetAflpp, "afl", a)
      /\ IsAt(ps4, sub, "cmplog", a) /\ IsAt(ps4, TargetHf, "hfuzz-clang", a)
    <2>1. IsAt(ps1, OUT, "plain", a)
        BY BuiltAt
    <2> HIDE DEF ps1, sub
    <2>2. IsAt(ps2, OUT, "plain", a) /\ IsAt(ps2, TargetAflpp, "afl", a)
        BY <1>1, <2>1, BuiltAt
    <2> HIDE DEF ps2
    <2>3. /\ IsAt(ps3, OUT, "plain", a) /\ IsAt(ps3, TargetAflpp, "afl", a)
          /\ IsAt(ps3, sub, "cmplog", a)
        BY <1>1, <2>2, BuiltAt
    <2> HIDE DEF ps3
    <2> QED BY <1>1, <2>3, BuiltAt
<1>3. PICK ds :
        /\ {OUT, TargetAflpp, TargetHf, TargetFuzzers} \subseteq ds
        /\ TargetAflpp \o In("cmplog") \notin ds
        /\ Leads("out", made, First(a, {}), Out(e, e, ds, Uses({}), ps1))
    BY PastisMakes
<1> HIDE DEF ps1, made
<1>4. PICK cc, lib, gs :
        /\ TargetFuzzers \o In("afl-fuzz") \in gs
        /\ Leads("out", with, First(a, {}),
                 Out(Env(cc, lib, a, OUT, {}), e, ds \union {sub}, gs, ps3))
    BY <1>3, PastisAflpp
<1> DEFINE more == ds \union {sub}
<1>5. TargetHf \in more /\ TargetFuzzers \in more
    BY <1>3
<1> HIDE DEF ps3, with
<1> HIDE DEF e
<1>6. Leads("out", with, First(a, {}),
            Out(Env(cc, lib, a, OUT, {}), e, more, gs, ps3))
    BY <1>4
<1> HIDE DEF more
<1>7. PICK x, hs :
        /\ TargetFuzzers \o In("honggfuzz") \in hs
        /\ TargetFuzzers \o In("afl-fuzz") \in hs
        /\ Leads("out", with \o Sets(To(TargetHf))
                   \o Restoring(HonggfuzzBuild) \o Sets(To(OUT))
                   \o Moves(TargetHf \o In("honggfuzz"),
                            TargetFuzzers \o In("honggfuzz")),
                 First(a, {}), Out(x, e, more, hs, ps4))
    BY <1>4, <1>5, <1>6, PastisHf
<1>8. Leads("out", pastis_build(b), First(a, {}), Out(x, e, more, hs, ps4))
    BY <1>7 DEF pastis_build, with, made
<1> HIDE DEF ps4
<1>9. \A r \in runs : Found(r, ps4)
    <2> HIDE DEF sub
    <2> QED BY <1>2, FoundAt
<1>10. needed \subseteq hs
    BY <1>7
<1>11. Fuzz(needed, runs) = pastis_fuzz(b)
    BY DEF pastis_fuzz
<1> HIDE DEF needed, runs
<1>12. Fits(Integration({}, pastis_build(b), Fuzz(needed, runs)), a, TRUE)
    BY <1>2, <1>8, <1>9, <1>10, ItFits
<1> QED BY <1>11, <1>12 DEF pastis

-----------------------------------------------------------------------------
(* All integrations, and what is invariant. *)

\* Every integration fits, those without sanitizers but for these.
Emulates(i) == \A a \in BOOLEAN : Fits(i, a, FALSE)
Delivers(i) == \A a \in BOOLEAN : Fits(i, a, TRUE)

\* What reports memory errors may be asked for less.
LEMMA FitsLess ==
    ASSUME NEW i, NEW a \in BOOLEAN, Delivers(i)
    PROVE  \A must : Fits(i, a, must)
<1>1. PICK end : /\ Leads("out", i.build, First(a, i.image), end)
                 /\ Ends(i.fuzz, a, TRUE, end)
    BY DEF Fits, Delivers
<1>2. \A must : Ends(i.fuzz, a, must, end)
    BY <1>1 DEF Ends
<1> QED BY <1>1, <1>2 DEF Fits

\* The integrations without sanitizers.
LEMMA EmulatedAre ==
    ASSUME NEW b
    PROVE  /\ Emulates(afl_qemu(b)) /\ Emulates(aflplusplus_qemu(b))
           /\ Emulates(aflplusplus_frida(b)) /\ Emulates(weizz_qemu(b))
           /\ Emulates(symcc_aflplusplus_single(b))
BY EmulatedFit, WeizzFits, SymccSingleFits DEF Emulates

\* The integrations with the build of AFL.
LEMMA AflAre ==
    ASSUME NEW b
    PROVE  /\ Delivers(afl(b)) /\ Delivers(afl_2_52_b(b))
           /\ Delivers(afl_random_favored(b))
           /\ Delivers(afl_virginmap(b)) /\ Delivers(pythia_bb(b))
           /\ Delivers(pythia_effect_bb(b)) /\ Delivers(darwin(b))
           /\ Delivers(fafuzz(b)) /\ Delivers(learnperffuzz(b))
           /\ Delivers(fairfuzz(b)) /\ Delivers(aflfast(b))
           /\ Delivers(ecofuzz(b)) /\ Delivers(mopt(b))
           /\ Delivers(manul(b)) /\ Delivers(aflsmart(b))
           /\ Delivers(aflsmart_plusplus(b)) /\ Delivers(tortoisefuzz(b))
BY AflFit, PeachFit, TortoiseFits DEF Delivers

\* The integrations with a build of their own.
LEMMA OwnAre ==
    ASSUME NEW b
    PROVE  /\ Delivers(lafintel(b)) /\ Delivers(neuzz(b))
           /\ Delivers(honggfuzz(b)) /\ Delivers(honggfuzz_qemu(b))
           /\ Delivers(libfuzzer(b)) /\ Delivers(glibfuzzer(b))
           /\ Delivers(libafl_libfuzzer(b)) /\ Delivers(wingfuzz(b))
           /\ Delivers(coverage(b)) /\ Delivers(centipede(b))
           /\ Delivers(centipede_function_filter(b))
           /\ Delivers(libafl(b)) /\ Delivers(libafl_27042023(b))
           /\ Delivers(libafl_text(b)) /\ Delivers(nautilus(b))
           /\ Delivers(token_level(b)) /\ Delivers(gramatron(b))
           /\ Delivers(grimoire(b)) /\ Delivers(klee(b))
           /\ Delivers(aflcc(b))
<1>1. /\ Delivers(nautilus(b)) /\ Delivers(token_level(b))
      /\ Delivers(gramatron(b)) /\ Delivers(grimoire(b))
    BY GrammarFits
    DEF nautilus, token_level, gramatron, grimoire, Delivers
<1> QED BY <1>1, OwnBuildsFit, LinkedFit, KleeFits, AflccFits DEF Delivers

\* The integrations with AFL++, and those next to another fuzzer.
LEMMA AflPlusPlusAre ==
    ASSUME NEW b
    PROVE  /\ Delivers(aflplusplus(b))
           /\ Delivers(aflpp_random_default(b))
           /\ Delivers(aflpp_random_no_favs(b))
           /\ Delivers(aflpp_random_wrs(b))
           /\ Delivers(aflpp_random_wrs_rf(b))
           /\ Delivers(aflpp_random_wrs_rp(b))
           /\ Delivers(aflpp_random_wrs_rf_rp(b))
           /\ Delivers(aflrustrust(b)) /\ Delivers(hastefuzz(b))
           /\ Delivers(symcc_afl(b)) /\ Delivers(symcc_afl_single(b))
           /\ Delivers(symcc_aflplusplus(b))
           /\ Delivers(symqemu_aflplusplus(b))
           /\ Delivers(eclipser_aflplusplus(b))
           /\ Delivers(eclipser(b)) /\ Delivers(eclipser_new(b))
           /\ Delivers(fuzzolic_aflplusplus_z3(b))
           /\ Delivers(fuzzolic_aflplusplus_fuzzy(b))
           /\ Delivers(symsan(b)) /\ Delivers(pastis(b))
BY AflPlusPlusFit, HasteFits, SymccFit, PlainThenFit, EclipserFit, SymsanFits,
   PastisFits
DEF Delivers

\* The build() of every integration, on any benchmark, leads to all that its
\* fuzz() takes, and to a program that reports memory errors if it should.
THEOREM AllFit ==
    ASSUME NEW b, NEW a \in BOOLEAN,
           NEW f \in DOMAIN Integrations(AnyBenchmark)
    PROVE  \E must \in BOOLEAN :
             /\ f \notin WithoutSanitizers => must
             /\ Fits(Integrations(b)[f], a, must)
<1> DEFINE i == Integrations(b)[f]
           afls == {"afl", "afl_2_52_b", "afl_random_favored",
                    "afl_virginmap", "pythia_bb", "pythia_effect_bb",
                    "darwin", "fafuzz", "learnperffuzz", "fairfuzz",
                    "aflfast", "ecofuzz", "mopt", "manul", "aflsmart",
                    "aflsmart_plusplus", "tortoisefuzz"}
           owns == {"lafintel", "neuzz", "honggfuzz", "honggfuzz_qemu",
                    "libfuzzer", "glibfuzzer", "libafl_libfuzzer",
                    "wingfuzz", "coverage", "centipede",
                    "centipede_function_filter", "libafl", "libafl_27042023",
                    "libafl_text", "nautilus", "token_level", "gramatron",
                    "grimoire", "klee", "aflcc"}
           others_ == {"aflplusplus", "aflpp_random_default",
                       "aflpp_random_no_favs", "aflpp_random_wrs",
                       "aflpp_random_wrs_rf", "aflpp_random_wrs_rp",
                       "aflpp_random_wrs_rf_rp", "aflrustrust", "hastefuzz",
                       "symcc_afl", "symcc_afl_single", "symcc_aflplusplus",
                       "symqemu_aflplusplus", "eclipser_aflplusplus",
                       "eclipser", "eclipser_new", "fuzzolic_aflplusplus_z3",
                       "fuzzolic_aflplusplus_fuzzy", "symsan", "pastis"}
<1>1. f \in DOMAIN Integrations(b)
    BY DEF Integrations
<1>2. f \in WithoutSanitizers => Emulates(i)
    BY EmulatedAre DEF Integrations, WithoutSanitizers
<1>3. ASSUME f \notin WithoutSanitizers PROVE Delivers(i)
    <2>1. f \in afls \/ f \in owns \/ f \in others_
        BY <1>1, <1>3 DEF Integrations, WithoutSanitizers
    <2>2. f \in afls => Delivers(i)
        BY AflAre DEF Integrations
    <2>3. f \in owns => Delivers(i)
        BY OwnAre DEF Integrations
    <2>4. f \in others_ => Delivers(i)
        BY AflPlusPlusAre DEF Integrations
    <2> QED BY <2>1, <2>2, <2>3, <2>4
<1> HIDE DEF i
<1>4. ASSUME f \in WithoutSanitizers PROVE Fits(i, a, FALSE)
    BY <1>2, <1>4 DEF Emulates
<1>5. ASSUME f \notin WithoutSanitizers PROVE Fits(i, a, TRUE)
    BY <1>3, <1>5, FitsLess
<1>6. \E must \in BOOLEAN : /\ f \notin WithoutSanitizers => must
                            /\ Fits(i, a, must)
    BY <1>4, <1>5
<1> QED BY <1>6 DEF i

\* What is left of build() leads, from what is in $OUT, to what fuzz() takes.
OutNow == Out(env, saved, dirs, files, programs)

Owed(steps, o) ==
    \E end : \E a \in BOOLEAN, must \in BOOLEAN :
        /\ a <=> benchmark.type = "bug"
        /\ fuzzer \notin WithoutSanitizers => must
        /\ Leads("out", steps, o, end)
        /\ Ends(The.fuzz, a, must, end)

\* The types, with the states that are reached.
OutIsTyped ==
    /\ fuzzer \in DOMAIN Integrations(AnyBenchmark) /\ benchmark \in Benchmarks
    /\ env.asan \in BOOLEAN /\ saved.asan \in BOOLEAN
    /\ dirty \in BOOLEAN /\ backups \in Seq(BOOLEAN)
    /\ \A p \in programs : p.dir \in dirs /\ p.asan \in BOOLEAN
    /\ state \in {"building", "built", "script_failed", "unsupported"}

\* The invariant: what is left of build() is owed until it is done.
OutIsKept ==
    /\ OutIsTyped
    /\ state \in {"building", "built"} => Owed(todo, OutNow)
    /\ state = "built" => todo = <<>>

\* Initially all of build() is owed, and it fits.
LEMMA OutInit == Init => OutIsKept
<1> SUFFICES ASSUME Init PROVE OutIsKept
    OBVIOUS
<1>1. fuzzer \in DOMAIN Integrations(AnyBenchmark) /\ benchmark \in Benchmarks
    BY DEF Init
<1>2. PICK a \in BOOLEAN : a <=> benchmark.type = "bug"
    OBVIOUS
<1>3. PICK must \in BOOLEAN :
        /\ fuzzer \notin WithoutSanitizers => must
        /\ Fits(The, a, must)
    BY <1>1, AllFit DEF The
<1>4. set_compilation_flags(benchmark) = Env("none", "none", a, OUT, {})
    <2>1. (benchmark.type = "bug") = a
        BY <1>2
    <2> QED BY <2>1 DEF set_compilation_flags, Env
<1>5. OutNow = First(a, The.image)
    BY <1>4 DEF Init, OutNow, First
<1>6. Owed(todo, OutNow)
    <2>1. PICK end : /\ Leads("out", The.build, First(a, The.image), end)
                     /\ Ends(The.fuzz, a, must, end)
        BY <1>3 DEF Fits
    <2>2. todo = The.build
        BY DEF Init
    <2> QED BY <1>2, <1>3, <1>5, <2>1, <2>2 DEF Owed
<1>7. /\ env.asan \in BOOLEAN /\ saved.asan \in BOOLEAN
    BY <1>4 DEF Init, Env
<1>8. /\ dirty \in BOOLEAN /\ backups = <<>> /\ programs = {}
      /\ state = "building"
    BY DEF Init
<1>9. backups \in Seq(BOOLEAN)
    BY <1>8
<1> QED BY <1>1, <1>6, <1>7, <1>8, <1>9 DEF OutIsKept, OutIsTyped

\* The next step leads to what the rest of build() leads on from.
LEMMA StepLeads ==
    ASSUME NEW op, Step(op), OutIsKept
    PROVE  \E next, end : \E a \in BOOLEAN, must \in BOOLEAN :
             /\ ToOut(todo[1], OutNow, next)
             /\ a <=> benchmark.type = "bug"
             /\ fuzzer \notin WithoutSanitizers => must
             /\ Leads("out", todo', next, end)
             /\ Ends(The.fuzz, a, must, end)
<1>1. PICK end : \E a \in BOOLEAN, must \in BOOLEAN :
        /\ a <=> benchmark.type = "bug"
        /\ fuzzer \notin WithoutSanitizers => must
        /\ Leads("out", todo, OutNow, end)
        /\ Ends(The.fuzz, a, must, end)
    BY DEF Step, OutIsKept, Owed
<1>2. PICK next : /\ Does("out", todo[1], OutNow, next)
                  /\ Leads("out", Tail(todo), next, end)
    BY <1>1, LeadsFirst DEF Step
<1>3. ToOut(todo[1], OutNow, next) /\ Leads("out", todo', next, end)
    BY <1>2 DEF Does, Step
<1> QED BY <1>1, <1>3

StepDoes == \E next : /\ ToOut(todo[1], OutNow, next)
                      /\ (next = OutNow' => Owed(todo, OutNow)')

\* If the step does what was foreseen, the rest is owed.
LEMMA StepIsOwed == ASSUME NEW op, Step(op), OutIsKept PROVE StepDoes
<1>1. PICK next, end : \E a \in BOOLEAN, must \in BOOLEAN :
        /\ ToOut(todo[1], OutNow, next)
        /\ a <=> benchmark.type = "bug"
        /\ fuzzer \notin WithoutSanitizers => must
        /\ Leads("out", todo', next, end)
        /\ Ends(The.fuzz, a, must, end)
    BY StepLeads
<1>2. UNCHANGED <<fuzzer, benchmark>>
    BY DEF Step
<1>3. ASSUME next = OutNow' PROVE Owed(todo, OutNow)'
    <2>1. The' = The
        BY <1>2 DEF The
    <2> QED BY <1>1, <1>2, <1>3, <2>1 DEF Owed
<1> QED BY <1>1, <1>3 DEF StepDoes

\* A step of build() fails, or is done on the way that was foreseen.
LEMMA ItFails ==
    ASSUME NEW op, Step(op), NEW how \in {"script_failed", "unsupported"},
           Fails(how), OutIsKept
    PROVE  OutIsKept'
BY DEF Step, Fails, OutIsKept, OutIsTyped

\* It is enough that a step does nothing but what was foreseen.
LEMMA ItIsDone ==
    ASSUME NEW op, Step(op), OutIsKept, state' = state,
           \A next : ToOut(todo[1], OutNow, next) => next = OutNow',
           OutIsTyped'
    PROVE  OutIsKept'
<1>1. Owed(todo, OutNow)'
    BY StepIsOwed DEF StepDoes
<1>2. state' = "building"
    BY DEF Step
<1> QED BY <1>1, <1>2 DEF OutIsKept

\* Steps on the environment.
LEMMA EnvironmentNext ==
    ASSUME OutIsKept, SetEnvironment \/ SaveEnvironment \/ RestoreEnvironment
    PROVE  OutIsKept'
<1>1. PICK op \in {"set", "save", "back"} : Step(op) /\ todo[1].op = op
    BY DEF SetEnvironment, SaveEnvironment, RestoreEnvironment, Step
<1>2. /\ state' = state
      /\ UNCHANGED <<fuzzer, benchmark, dirty, backups, dirs, files, programs>>
    BY <1>1
    DEF SetEnvironment, SaveEnvironment, RestoreEnvironment, Step
<1>3. \A next : ToOut(todo[1], OutNow, next) =>
                    next = OutNow' /\ env'.asan \in BOOLEAN
    <2> SUFFICES ASSUME NEW next, ToOut(todo[1], OutNow, next)
                 PROVE  next = OutNow' /\ env'.asan \in BOOLEAN
        OBVIOUS
    <2>1. CASE SetEnvironment
        BY <1>2, <2>1 DEF SetEnvironment, Step, ToOut, OutNow, Out
    <2>2. CASE SaveEnvironment
        BY <1>2, <2>2
        DEF SaveEnvironment, Step, ToOut, OutNow, Out, OutIsKept, OutIsTyped
    <2>3. CASE RestoreEnvironment
        BY <1>2, <2>3
        DEF RestoreEnvironment, Step, ToOut, OutNow, Out, OutIsKept, OutIsTyped
    <2> QED BY <2>1, <2>2, <2>3
<1>4. saved'.asan \in BOOLEAN
    BY DEF SetEnvironment, SaveEnvironment, RestoreEnvironment, OutIsKept,
           OutIsTyped
<1>5. env'.asan \in BOOLEAN
    BY <1>1, <1>3, StepIsOwed DEF StepDoes
<1>6. OutIsTyped'
    BY <1>2, <1>4, <1>5 DEF OutIsKept, OutIsTyped
<1> QED BY <1>1, <1>2, <1>3, <1>6, ItIsDone

\* Steps on the sources.
LEMMA RestoringNext ==
    ASSUME OutIsKept, SourcesAreKept, EnterRestoreDirectory \/ restore_directory
    PROVE  OutIsKept'
<1>1. PICK op \in {"enter", "exit"} : Step(op) /\ todo[1].op = op
    BY DEF EnterRestoreDirectory, restore_directory, Step
<1>2. /\ state' = state
      /\ UNCHANGED <<fuzzer, benchmark, env, saved, dirs, files, programs>>
    BY DEF EnterRestoreDirectory, restore_directory, Step
<1>3. \A next : ToOut(todo[1], OutNow, next) => next = OutNow'
    BY <1>1, <1>2 DEF ToOut, OutNow, Out
<1>4. dirty' \in BOOLEAN /\ backups' \in Seq(BOOLEAN)
    <2>1. CASE EnterRestoreDirectory
        <3>1. dirty \in BOOLEAN /\ backups \in Seq(BOOLEAN)
            BY DEF OutIsKept, OutIsTyped
        <3>2. <<dirty>> \in Seq(BOOLEAN)
            BY <3>1
        <3>3. <<dirty>> \o backups \in Seq(BOOLEAN)
            BY <3>1, <3>2, ConcatProperties
        <3> QED BY <2>1, <3>1, <3>3 DEF EnterRestoreDirectory
    <2>2. CASE restore_directory
        <3>1. PICK end : Leads("sources", todo, At(dirty, backups), end)
            BY <1>1 DEF Step, SourcesAreKept
        <3>2. PICK next : ToSources(todo[1], At(dirty, backups), next)
            BY <1>1, <3>1, LeadsFirst DEF Step, Does
        <3>3. next.dirty = dirty' /\ next.backups = backups' /\ next \in Sources
            BY <2>2, <3>2 DEF restore_directory, Step, ToSources, At
        <3> QED BY <3>3 DEF Sources
    <2> QED BY <2>1, <2>2
<1>5. OutIsTyped'
    BY <1>2, <1>4 DEF OutIsKept, OutIsTyped
<1> QED BY <1>1, <1>2, <1>3, <1>5, ItIsDone

\* Steps on directories and files: none raises an error, they were foreseen.
LEMMA FilesNext ==
    ASSUME OutIsKept, MakeDirectory \/ CopyFiles \/ MoveFile
    PROVE  OutIsKept'
<1>1. PICK op \in {"mkdir", "copy", "move"} : Step(op) /\ todo[1].op = op
    BY DEF MakeDirectory, CopyFiles, MoveFile, Step
<1>2. PICK next : ToOut(todo[1], OutNow, next)
    BY <1>1, StepIsOwed DEF StepDoes
<1>3. UNCHANGED <<fuzzer, benchmark, env, saved, dirty, backups, programs>>
    BY DEF MakeDirectory, CopyFiles, MoveFile, Fails, Step
<1>4. ASSUME NEW some, ToOut(todo[1], OutNow, some)
      PROVE  some = OutNow' /\ state' = state /\ dirs \subseteq dirs'
    <2>1. CASE MakeDirectory
        <3> DEFINE dir == env.out \o todo[1].dir
        <3>1. /\ dir \notin dirs
              /\ some = Out(env, saved, dirs \union {dir}, files, programs)
            BY <1>4, <2>1 DEF MakeDirectory, Step, ToOut, OutNow, Out
        <3>2. /\ dirs' = dirs \union {dir}
              /\ UNCHANGED <<files, state>>
            BY <2>1, <3>1 DEF MakeDirectory
        <3> QED BY <1>3, <3>1, <3>2 DEF OutNow
    <2>2. CASE CopyFiles
        <3> DEFINE dir == env.out \o todo[1].dir
                   more == {dir \o In(name) : name \in todo[1].names}
        <3>1. /\ dir \in dirs
              /\ some = Out(env, saved, dirs, files \union more, programs)
            BY <1>4, <2>2 DEF CopyFiles, Step, ToOut, OutNow, Out
        <3>2. files' = files \union more /\ UNCHANGED <<dirs, state>>
            BY <2>2, <3>1 DEF CopyFiles
        <3> QED BY <1>3, <3>1, <3>2 DEF OutNow
    <2>3. CASE MoveFile
        <3> DEFINE from == todo[1].from
                   to == todo[1].to
        <3>1. /\ from \in files /\ Front(to) \in dirs
              /\ some = Out(env, saved, dirs, (files \ {from}) \union {to},
                            programs)
            BY <1>4, <2>3 DEF MoveFile, Step, ToOut, OutNow, Out
        <3>2. /\ files' = (files \ {from}) \union {to}
              /\ UNCHANGED <<dirs, state>>
            BY <2>3, <3>1 DEF MoveFile
        <3> QED BY <1>3, <3>1, <3>2 DEF OutNow
    <2> QED BY <2>1, <2>2, <2>3
<1>5. OutIsTyped' /\ state' = state
    BY <1>2, <1>3, <1>4 DEF OutIsKept, OutIsTyped
<1> QED BY <1>1, <1>4, <1>5, ItIsDone

\* The programs that there will be, if those there are are typed.
LEMMA PutsTyped ==
    ASSUME NEW program, OutIsKept, program.dir \in dirs,
           program.asan \in BOOLEAN, Put(program),
           UNCHANGED <<fuzzer, benchmark, env, saved, backups, dirs, state>>,
           dirty' \in BOOLEAN
    PROVE  OutIsTyped' /\ programs' = Puts(programs, program)
BY DEF OutIsKept, OutIsTyped, Put, Puts

\* A build: the script fails, or the program is there, pristine.
LEMMA BuildNext ==
    ASSUME OutIsKept, SourcesAreKept, build_benchmark
    PROVE  OutIsKept'
<1>1. Step("build") /\ todo[1].op = "build"
    BY DEF build_benchmark, Step
<1>2. CASE Fails("script_failed")
    BY <1>1, <1>2, ItFails
<1> DEFINE e == Changed(IF todo[1].base = "env" THEN env ELSE saved,
                        todo[1].change)
           new == Program(e.out, KindOf(e), e.asan, TRUE, FALSE)
<1>3. CASE ~Fails("script_failed")
    <2>1. /\ Put(Program(e.out, KindOf(e), e.asan, ~dirty, FALSE))
          /\ dirty' = TRUE
          /\ UNCHANGED <<fuzzer, benchmark, env, saved, backups, dirs, files,
                         state>>
        BY <1>3 DEF build_benchmark, Step, Program
    <2>2. ~dirty
        <3>1. PICK end : Leads("sources", todo, At(dirty, backups), end)
            BY <1>1 DEF Step, SourcesAreKept
        <3>2. PICK next : ToSources(todo[1], At(dirty, backups), next)
            BY <1>1, <3>1, LeadsFirst DEF Step, Does
        <3> QED BY <1>1, <3>2 DEF ToSources, At
    <2>3. Put(new)
        <3>1. (~dirty) = TRUE
            BY <2>2
        <3> QED BY <2>1, <3>1
    <2>4. ASSUME NEW some, ToOut(todo[1], OutNow, some)
          PROVE  /\ e.out \in dirs /\ e.asan \in BOOLEAN
                 /\ some = Out(env, saved, dirs, files, Puts(programs, new))
        BY <1>1, <2>4 DEF ToOut, OutNow, Out
    <2>5. e.out \in dirs /\ e.asan \in BOOLEAN
        BY <1>1, <2>4, StepIsOwed DEF StepDoes
    <2>6. new.dir = e.out /\ new.asan = e.asan
        BY DEF Program
    <2> HIDE DEF new, e
    <2>7. OutIsTyped' /\ programs' = Puts(programs, new)
        BY <2>1, <2>3, <2>5, <2>6, PutsTyped
    <2>8. ASSUME NEW some, ToOut(todo[1], OutNow, some) PROVE some = OutNow'
        BY <2>1, <2>4, <2>7, <2>8 DEF OutNow
    <2> QED BY <1>1, <2>1, <2>7, <2>8, ItIsDone
<1> QED BY <1>2, <1>3

\* The target is copied.
LEMMA TargetNext ==
    ASSUME OutIsKept, SourcesAreKept, CopyTarget PROVE OutIsKept'
<1>1. Step("copytarget") /\ todo[1].op = "copytarget"
    BY DEF CopyTarget, Step
<1>2. PICK p \in Target :
        Put(Program(todo[1].dir, p.kind, p.asan, p.pristine, p.derived))
    BY ProgramsMoved DEF SourcesAreKept
<1> DEFINE new == Program(todo[1].dir, p.kind, p.asan, p.pristine, p.derived)
<1>3. p \in TargetsIn(programs) /\ p.asan \in BOOLEAN
    BY DEF Target, TargetsIn, OutIsKept, OutIsTyped
<1>4. UNCHANGED <<fuzzer, benchmark, env, saved, dirty, backups, dirs, files,
                  state>>
    BY DEF CopyTarget, Step
<1>5. ASSUME NEW some, ToOut(todo[1], OutNow, some)
      PROVE  /\ todo[1].dir \in dirs
             /\ some = Out(env, saved, dirs, files, Puts(programs, new))
    BY <1>1, <1>3, <1>5 DEF ToOut, OutNow, Out
<1>6. todo[1].dir \in dirs
    BY <1>1, <1>5, StepIsOwed DEF StepDoes
<1>7. new.dir = todo[1].dir /\ new.asan = p.asan
    BY DEF Program
<1>8. Put(new)
    BY <1>2
<1> HIDE DEF new
<1>9. dirty' \in BOOLEAN
    BY <1>4 DEF OutIsKept, OutIsTyped
<1>10. OutIsTyped' /\ programs' = Puts(programs, new)
    BY <1>3, <1>4, <1>6, <1>7, <1>8, <1>9, PutsTyped
<1>11. ASSUME NEW some, ToOut(todo[1], OutNow, some) PROVE some = OutNow'
    BY <1>4, <1>5, <1>10, <1>11 DEF OutNow
<1> QED BY <1>1, <1>4, <1>10, <1>11, ItIsDone

\* Programs are made of the target.
LEMMA DerivesNext ==
    ASSUME OutIsKept, SourcesAreKept, DeriveProgram PROVE OutIsKept'
<1>1. Step("derive") /\ todo[1].op = "derive"
    BY DEF DeriveProgram, Step
<1>2. CASE Fails("script_failed")
    BY <1>1, <1>2, ItFails
<1>3. CASE ~Fails("script_failed")
    <2> DEFINE more == {Program(p.dir, todo[1].kind, p.asan, p.pristine, TRUE) :
                            p \in Target}
    <2>1. UNCHANGED <<fuzzer, benchmark, env, saved, dirty, backups, dirs,
                      files, state>>
        BY <1>3 DEF DeriveProgram, Step
    <2>2. programs' = programs \union more
        <3>1. state' = "building"
            BY <1>1, <2>1 DEF Step
        <3> QED BY <3>1, ProgramsDerived DEF SourcesAreKept
    <2>3. \A q \in more : q.dir \in dirs /\ q.asan \in BOOLEAN
        <3>1. \A p \in Target : p.dir \in dirs /\ p.asan \in BOOLEAN
            BY DEF Target, OutIsKept, OutIsTyped
        <3>2. ASSUME NEW q \in more PROVE q.dir \in dirs /\ q.asan \in BOOLEAN
            <4>1. PICK p \in Target :
                    q = Program(p.dir, todo[1].kind, p.asan, p.pristine, TRUE)
                OBVIOUS
            <4>2. q.dir = p.dir /\ q.asan = p.asan
                <5> HIDE DEF more
                <5> QED BY <4>1 DEF Program
            <4> QED BY <3>1, <4>2
        <3> QED BY <3>2
    <2>4. ASSUME NEW some, ToOut(todo[1], OutNow, some)
          PROVE  some = Out(env, saved, dirs, files, programs \union more)
        <3>1. Target = TargetsIn(programs)
            BY DEF Target, TargetsIn
        <3> QED BY <1>1, <2>4, <3>1 DEF ToOut, OutNow, Out
    <2> HIDE DEF more
    <2>5. OutIsTyped'
        BY <2>1, <2>2, <2>3 DEF OutIsKept, OutIsTyped
    <2>6. ASSUME NEW some, ToOut(todo[1], OutNow, some) PROVE some = OutNow'
        BY <2>1, <2>2, <2>4, <2>6 DEF OutNow
    <2> QED BY <1>1, <2>1, <2>5, <2>6, ItIsDone
<1> QED BY <1>2, <1>3

\* Every step keeps the invariant.
LEMMA OutNext == OutIsKept /\ SourcesAreKept /\ [Next]_vars => OutIsKept'
<1> SUFFICES ASSUME OutIsKept, SourcesAreKept, [Next]_vars PROVE OutIsKept'
    OBVIOUS
<1>1. CASE UNCHANGED vars
    BY <1>1 DEF vars, OutIsKept, OutIsTyped, Owed, OutNow, The
<1>2. CASE RaiseError
    BY <1>2, ItFails DEF RaiseError
<1>3. CASE Finish
    BY <1>3 DEF Finish, OutIsKept, OutIsTyped, Owed, OutNow, The
<1> QED
    BY <1>1, <1>2, <1>3, EnvironmentNext, RestoringNext, FilesNext, BuildNext,
       TargetNext, DerivesNext
    DEF Next

\* What is in $OUT when build() has ended.
LEMMA BuiltEnds ==
    ASSUME OutIsKept, state = "built"
    PROVE  \E a \in BOOLEAN, must \in BOOLEAN :
             /\ a <=> benchmark.type = "bug"
             /\ fuzzer \notin WithoutSanitizers => must
             /\ Ends(The.fuzz, a, must, OutNow)
<1>1. PICK end : \E a \in BOOLEAN, must \in BOOLEAN :
        /\ a <=> benchmark.type = "bug"
        /\ fuzzer \notin WithoutSanitizers => must
        /\ Leads("out", <<>>, OutNow, end)
        /\ Ends(The.fuzz, a, must, end)
    BY DEF OutIsKept, Owed
<1>2. end = OutNow
    BY <1>1 DEF Leads
<1> QED BY <1>1, <1>2

\* When nothing is owed any more, fuzz() finds what it takes.
LEMMA OutKept ==
    OutIsKept => FuzzFindsItsFiles /\ CrashesAreDetected /\ TypeOK
<1> SUFFICES ASSUME OutIsKept
             PROVE  FuzzFindsItsFiles /\ CrashesAreDetected /\ TypeOK
    OBVIOUS
<1>1. TypeOK
    BY DEF OutIsKept, OutIsTyped, TypeOK
<1>2. ASSUME state = "built"
      PROVE  /\ The.fuzz.files \subseteq files
             /\ \A r \in The.fuzz.runs : Found(r, programs)
             /\ benchmark.type = "bug" /\ fuzzer \notin WithoutSanitizers =>
                  \A p \in Target : p.asan
    <2>1. PICK a \in BOOLEAN, must \in BOOLEAN :
            /\ a <=> benchmark.type = "bug"
            /\ fuzzer \notin WithoutSanitizers => must
            /\ Ends(The.fuzz, a, must, OutNow)
        BY <1>2, BuiltEnds
    <2>2. OutNow.files = files /\ OutNow.programs = programs
        BY DEF OutNow, Out
    <2>3. Target = TargetsIn(programs)
        BY DEF Target, TargetsIn
    <2> QED BY <2>1, <2>2, <2>3 DEF Ends
<1>3. state # "error" /\ \A p \in programs : p.dir \in dirs
    BY DEF OutIsKept, OutIsTyped
<1>4. FuzzFindsItsFiles
    BY <1>2, <1>3 DEF FuzzFindsItsFiles, Found
<1>5. CrashesAreDetected
    BY <1>2 DEF CrashesAreDetected
<1> QED BY <1>1, <1>4, <1>5

\* The programs are built from pristine sources.
LEMMA SourcesKept == SourcesAreKept => BuiltFromPristineSources
BY DEF SourcesAreKept, BuiltFromPristineSources

\* Every program is built in directories that nothing was built in since they
\* were restored, whichever steps fail.
THEOREM SourcesArePristine == Spec => []BuiltFromPristineSources
<1>1. SourcesAreKept => BuiltFromPristineSources
    BY SourcesKept
<1> QED BY <1>1, SourcesInit, SourcesNext, PTL DEF Spec

\* No step of build() fails for the integration's own fault, and fuzz() finds
\* the files and the programs it takes.
THEOREM FilesAreFound == Spec => []FuzzFindsItsFiles
<1>1. OutIsKept => FuzzFindsItsFiles
    BY OutKept
<1> QED
    BY <1>1, OutInit, OutNext, SourcesInit, SourcesNext, PTL DEF Spec

\* On bug benchmarks the target of every fuzzer that is not emulated reports
\* memory errors.
THEOREM CrashesAreReported == Spec => []CrashesAreDetected
<1>1. OutIsKept => CrashesAreDetected
    BY OutKept
<1> QED
    BY <1>1, OutInit, OutNext, SourcesInit, SourcesNext, PTL DEF Spec

\* The variables have their types: the directories that are put aside are put
\* back as often, and every program is in a directory that was made.
THEOREM BuildsAreTyped == Spec => []TypeOK
<1>1. OutIsKept => TypeOK
    BY OutKept
<1> QED
    BY <1>1, OutInit, OutNext, SourcesInit, SourcesNext, PTL DEF Spec

-----------------------------------------------------------------------------
(* Builds, next to mutants. *)

\* Next to mutants that rest, and while mutants are fuzzed, builds go as they
\* do alone.
THEOREM BuildsGoTheirWay == PartSpec => Spec
<1>1. PartInit => Init
    BY DEF PartInit
<1>2. [PartNext]_<<part, given, vars, fuzzingMutants>> => [Next]_vars
    BY DEF PartNext
<1> QED BY <1>1, <1>2, PTL DEF PartSpec, Spec

\* So their programs are pristine, fuzz() finds what it takes, and crashes are
\* detected.
THEOREM BuildsDeliver ==
    PartSpec =>
        [](BuiltFromPristineSources /\ FuzzFindsItsFiles /\ CrashesAreDetected)
BY BuildsGoTheirWay, SourcesArePristine, FilesAreFound, CrashesAreReported, PTL

\* The variables of builds and of mutants have their types.
THEOREM PartsAreTyped == PartSpec => []TypesOK
<1>1. MutantsInvariant => M!TypeOK
    BY DEF MutantsInvariant, MutantsTyped
<1>2. TypeOK /\ M!TypeOK => TypesOK
    BY DEF TypesOK
<1> QED
    BY <1>1, <1>2, BuildsGoTheirWay, BuildsAreTyped, MutantsInvariantHolds, PTL
=============================================================================
