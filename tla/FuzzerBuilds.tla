---------------------------- MODULE FuzzerBuilds ----------------------------
(***************************************************************************)
(* The build of a benchmark for a fuzzer, step by step, and what fuzz()    *)
(* finds in $OUT afterwards.  The fuzzer and the benchmark are chosen      *)
(* initially.                                                              *)
(***************************************************************************)
EXTENDS Fuzzers, SequencesExt

VARIABLES
    fuzzer, benchmark,
    todo,       \* the steps of build() that are left
    env, saved, \* os.environ and its copy
    dirty,      \* whether something was built in $SRC and $WORK
    backups,    \* what the enclosing restore_directory put aside
    dirs, files, programs,   \* in $OUT
    state

vars == <<fuzzer, benchmark, todo, env, saved, dirty, backups, dirs, files,
          programs, state>>

Integrations(b) == [
    afl |-> afl(b), afl_2_52_b |-> afl_2_52_b(b),
    afl_random_favored |-> afl_random_favored(b),
    afl_virginmap |-> afl_virginmap(b), pythia_bb |-> pythia_bb(b),
    pythia_effect_bb |-> pythia_effect_bb(b), darwin |-> darwin(b),
    fafuzz |-> fafuzz(b), learnperffuzz |-> learnperffuzz(b),
    fairfuzz |-> fairfuzz(b), aflfast |-> aflfast(b), ecofuzz |-> ecofuzz(b),
    mopt |-> mopt(b), tortoisefuzz |-> tortoisefuzz(b), manul |-> manul(b),
    lafintel |-> lafintel(b), aflsmart |-> aflsmart(b),
    aflsmart_plusplus |-> aflsmart_plusplus(b), neuzz |-> neuzz(b),
    aflplusplus |-> aflplusplus(b),
    aflpp_random_default |-> aflpp_random_default(b),
    aflpp_random_no_favs |-> aflpp_random_no_favs(b),
    aflpp_random_wrs |-> aflpp_random_wrs(b),
    aflpp_random_wrs_rf |-> aflpp_random_wrs_rf(b),
    aflpp_random_wrs_rp |-> aflpp_random_wrs_rp(b),
    aflpp_random_wrs_rf_rp |-> aflpp_random_wrs_rf_rp(b),
    afl_qemu |-> afl_qemu(b), aflplusplus_qemu |-> aflplusplus_qemu(b),
    aflplusplus_frida |-> aflplusplus_frida(b),
    aflrustrust |-> aflrustrust(b), hastefuzz |-> hastefuzz(b),
    symcc_afl |-> symcc_afl(b), symcc_afl_single |-> symcc_afl_single(b),
    symcc_aflplusplus |-> symcc_aflplusplus(b),
    symcc_aflplusplus_single |-> symcc_aflplusplus_single(b),
    symqemu_aflplusplus |-> symqemu_aflplusplus(b),
    eclipser_aflplusplus |-> eclipser_aflplusplus(b),
    eclipser |-> eclipser(b), eclipser_new |-> eclipser_new(b),
    fuzzolic_aflplusplus_z3 |-> fuzzolic_aflplusplus_z3(b),
    fuzzolic_aflplusplus_fuzzy |-> fuzzolic_aflplusplus_fuzzy(b),
    symsan |-> symsan(b), honggfuzz |-> honggfuzz(b),
    honggfuzz_qemu |-> honggfuzz_qemu(b), weizz_qemu |-> weizz_qemu(b),
    pastis |-> pastis(b), libfuzzer |-> libfuzzer(b),
    glibfuzzer |-> glibfuzzer(b), libafl_libfuzzer |-> libafl_libfuzzer(b),
    wingfuzz |-> wingfuzz(b), coverage |-> coverage(b),
    centipede |-> centipede(b),
    centipede_function_filter |-> centipede_function_filter(b),
    libafl |-> libafl(b), libafl_27042023 |-> libafl_27042023(b),
    libafl_text |-> libafl_text(b), nautilus |-> nautilus(b),
    token_level |-> token_level(b), gramatron |-> gramatron(b),
    grimoire |-> grimoire(b), aflcc |-> aflcc(b), klee |-> klee(b)]

Benchmarks ==
    [type: {"code", "bug"}, name: {"php", "bloaty", "libjpeg", "other"},
     focused: BOOLEAN]
AnyBenchmark == [type |-> "code", name |-> "other", focused |-> FALSE]

The == Integrations(benchmark)[fuzzer]

\* utils.initialize_env: the sanitizers are on for bug benchmarks.
set_compilation_flags(b) ==
    [cc |-> "none", lib |-> "none", out |-> OUT, vars |-> {},
     asan |-> b.type = "bug"]

Init ==
    /\ fuzzer \in DOMAIN Integrations(AnyBenchmark)
    /\ benchmark \in Benchmarks
    /\ todo = The.build
    /\ env = set_compilation_flags(benchmark)
    /\ saved = env
    /\ dirty = FALSE
    /\ backups = <<>>
    /\ dirs = {OUT}
    /\ files = Uses(The.image)
    /\ programs = {}
    /\ state = "building"

-----------------------------------------------------------------------------
Step(op) ==
    /\ state = "building"
    /\ todo # <<>>
    /\ todo[1].op = op
    /\ todo' = Tail(todo)
    /\ UNCHANGED <<fuzzer, benchmark>>

Fails(how) ==
    /\ state' = how
    /\ UNCHANGED <<env, saved, dirty, backups, dirs, files, programs>>

SetEnvironment ==
    /\ Step("set")
    /\ env' = Changed(env, todo[1].change)
    /\ UNCHANGED <<saved, dirty, backups, dirs, files, programs, state>>

SaveEnvironment ==
    /\ Step("save")
    /\ saved' = env
    /\ UNCHANGED <<env, dirty, backups, dirs, files, programs, state>>

RestoreEnvironment ==
    /\ Step("back")
    /\ env' = saved
    /\ UNCHANGED <<saved, dirty, backups, dirs, files, programs, state>>

\* The fuzz target of an earlier build in the same directory is overwritten.
Put(program) ==
    programs' = {p \in programs : p.derived \/ p.dir # program.dir}
                    \union {program}

build_benchmark ==
    /\ Step("build")
    /\ LET e == Changed(IF todo[1].base = "env" THEN env ELSE saved,
                        todo[1].change)
       IN \/ /\ Put([dir |-> e.out, kind |-> KindOf(e), asan |-> e.asan,
                     pristine |-> ~dirty, derived |-> FALSE])
             /\ dirty' = TRUE
             /\ UNCHANGED <<env, saved, backups, dirs, files, state>>
          \/ Fails("script_failed")

\* restore_directory puts the directories aside, and back.
EnterRestoreDirectory ==
    /\ Step("enter")
    /\ backups' = <<dirty>> \o backups
    /\ UNCHANGED <<env, saved, dirty, dirs, files, programs, state>>

restore_directory ==
    /\ Step("exit")
    /\ dirty' = Head(backups)
    /\ backups' = Tail(backups)
    /\ UNCHANGED <<env, saved, dirs, files, programs, state>>

\* The calls raise an error if the directory is there already, or is not; to
\* a directory that is not there shutil.copy writes a file of its name.
MakeDirectory ==
    /\ Step("mkdir")
    /\ LET dir == env.out \o todo[1].dir
       IN IF dir \in dirs
          THEN Fails("error")
          ELSE /\ dirs' = dirs \union {dir}
               /\ UNCHANGED <<env, saved, dirty, backups, files, programs,
                              state>>

CopyFiles ==
    /\ Step("copy")
    /\ LET dir == env.out \o todo[1].dir
       IN files' = files \union
            IF dir \in dirs THEN {dir \o In(name) : name \in todo[1].names}
                            ELSE {dir}
    /\ UNCHANGED <<env, saved, dirty, backups, dirs, programs, state>>

MoveFile ==
    /\ Step("move")
    /\ IF todo[1].from \in files /\ Front(todo[1].to) \in dirs
       THEN /\ files' = (files \ {todo[1].from}) \union {todo[1].to}
            /\ UNCHANGED <<env, saved, dirty, backups, dirs, programs, state>>
       ELSE Fails("error")

Target == {p \in programs : p.dir = OUT /\ ~p.derived}

CopyTarget ==
    /\ Step("copytarget")
    /\ \E p \in Target : Put([p EXCEPT !.dir = todo[1].dir])
    /\ UNCHANGED <<env, saved, dirty, backups, dirs, files, state>>

DeriveProgram ==
    /\ Step("derive")
    /\ \/ /\ programs' = programs \union
              {[p EXCEPT !.kind = todo[1].kind, !.derived = TRUE] :
                  p \in Target}
          /\ UNCHANGED <<env, saved, dirty, backups, dirs, files, state>>
       \/ Fails("script_failed")

RaiseError == Step("raise") /\ Fails("unsupported")

Finish ==
    /\ state = "building"
    /\ todo = <<>>
    /\ state' = "built"
    /\ UNCHANGED <<fuzzer, benchmark, todo, env, saved, dirty, backups, dirs,
                   files, programs>>

Next ==
    \/ SetEnvironment \/ SaveEnvironment \/ RestoreEnvironment
    \/ build_benchmark \/ EnterRestoreDirectory \/ restore_directory
    \/ MakeDirectory \/ CopyFiles \/ MoveFile \/ CopyTarget \/ DeriveProgram
    \/ RaiseError \/ Finish

Spec == Init /\ [][Next]_vars

-----------------------------------------------------------------------------
TypeOK ==
    /\ fuzzer \in DOMAIN Integrations(AnyBenchmark)
    /\ benchmark \in Benchmarks
    /\ env.asan \in BOOLEAN /\ saved.asan \in BOOLEAN
    /\ dirty \in BOOLEAN
    /\ backups \in Seq(BOOLEAN)
    /\ \A p \in programs : p.dir \in dirs /\ p.asan \in BOOLEAN
    /\ state \in {"building", "built", "script_failed", "unsupported", "error"}

\* No step of build() fails for the integration's own fault, and what it
\* leaves in $OUT has every file and every program, of its kind, that fuzz()
\* takes from there: build() and fuzz() are run in different images, weeks and
\* many trials apart, and agree only by names.
FuzzFindsItsFiles ==
    /\ state # "error"
    /\ state = "built" =>
        /\ The.fuzz.files \subseteq files
        /\ \A p \in programs : p.dir \in dirs
        /\ \A r \in The.fuzz.runs :
            /\ ~r.optional =>
                  \E p \in programs : p.dir = r.dir /\ p.kind = r.kind
            /\ \A p \in programs :
                  p.dir = r.dir /\ ~p.derived =>
                      \/ p.kind = r.kind
                      \/ \E q \in programs : q.derived /\ q.kind = r.kind

\* "For some OSS-Fuzz projects, build_benchmark cannot be run twice in the same
\* directory" (fuzzers/aflplusplus/fuzzer.py): every program is built in
\* directories that nothing was built in since they were restored.
BuiltFromPristineSources == \A p \in programs : p.pristine

\* On a bug benchmark the program the fuzzer runs in $OUT reports memory errors,
\* but for those that are run by an emulator ("QEMU is incompatible with
\* sanitizers"), and for SymCC's next to AFL++ which is built with the flags of
\* the emulated ones.  A program without sanitizers is built in an environment
\* of its own, which must not reach the other.
WithoutSanitizers ==
    {"afl_qemu", "aflplusplus_qemu", "aflplusplus_frida", "weizz_qemu",
     "symcc_aflplusplus_single"}
CrashesAreDetected ==
    state = "built" /\ benchmark.type = "bug" /\ fuzzer \notin WithoutSanitizers
        => \A p \in Target : p.asan
=============================================================================
