------------------------------- MODULE Fuzzers -------------------------------
(***************************************************************************)
(* The integrations of the fuzzers, one definition for each directory of   *)
(* fuzzers/ but those that fuzz mutants of the benchmark (module           *)
(* MutantFuzzers).  b is the benchmark: [type, name, focused].             *)
(***************************************************************************)
EXTENDS FuzzerSteps

(* AFL and those that only replace its afl-fuzz. *)

AflEnvironment ==
    Sets(Compiler("clang", "AFL") ++ Adds({"trace-pc-guard"}))
AflBuild(names) == AflEnvironment \o Builds \o Copies(names)
AflFuzz(files, kind) == Fuzz(Uses({"afl-fuzz"} \union files), Runs(OUT, kind))

afl_build(b) == AflBuild({"afl-fuzz"})
afl_fuzz(b) == AflFuzz({}, "afl")
afl(b) == Integration({}, afl_build(b), afl_fuzz(b))

afl_2_52_b_build(b) == AflBuild({"afl-fuzz"})
afl_2_52_b_fuzz(b) == AflFuzz({}, "afl")
afl_2_52_b(b) == Integration({}, afl_2_52_b_build(b), afl_2_52_b_fuzz(b))

afl_random_favored_build(b) == AflBuild({"afl-fuzz"})
afl_random_favored_fuzz(b) == AflFuzz({}, "afl")
afl_random_favored(b) ==
    Integration({}, afl_random_favored_build(b), afl_random_favored_fuzz(b))

afl_virginmap_build(b) == AflBuild({"afl-fuzz"})
afl_virginmap_fuzz(b) == AflFuzz({}, "afl")
afl_virginmap(b) ==
    Integration({}, afl_virginmap_build(b), afl_virginmap_fuzz(b))

pythia_bb_build(b) == AflBuild({"afl-fuzz"})
pythia_bb_fuzz(b) == AflFuzz({}, "afl")
pythia_bb(b) == Integration({}, pythia_bb_build(b), pythia_bb_fuzz(b))

pythia_effect_bb_build(b) == AflBuild({"afl-fuzz"})
pythia_effect_bb_fuzz(b) == AflFuzz({}, "afl")
pythia_effect_bb(b) ==
    Integration({}, pythia_effect_bb_build(b), pythia_effect_bb_fuzz(b))

darwin_build(b) == AflBuild({"afl-fuzz"})
darwin_fuzz(b) == AflFuzz({}, "afl")
darwin(b) == Integration({}, darwin_build(b), darwin_fuzz(b))

fafuzz_build(b) == AflBuild({"afl-fuzz"})
fafuzz_fuzz(b) == AflFuzz({}, "afl")
fafuzz(b) == Integration({}, fafuzz_build(b), fafuzz_fuzz(b))

learnperffuzz_build(b) == AflBuild({"afl-fuzz", "learning_engine.py"})
learnperffuzz_fuzz(b) == AflFuzz({}, "afl")
learnperffuzz(b) ==
    Integration({}, learnperffuzz_build(b), learnperffuzz_fuzz(b))

(* Those that call the functions of AFL's integration. *)

fairfuzz(b) == Integration({}, afl_build(b), afl_fuzz(b))
aflfast(b) == Integration({}, afl_build(b), AflFuzz({}, "afl"))
ecofuzz(b) == Integration({}, afl_build(b), AflFuzz({}, "afl"))
mopt(b) == Integration({}, afl_build(b), AflFuzz({}, "afl"))

tortoisefuzz(b) ==
    Integration({},
        AflEnvironment \o Sets(Compiler("afl-clang-fast", "AFLDriver"))
            \o Builds \o Copies({"afl-fuzz"}),
        AflFuzz({}, "afl"))

manul(b) ==
    Integration({}, AflEnvironment \o Builds \o Copies({"manul"}),
                Fuzz(Uses({"manul"}), Runs(OUT, "afl")))

lafintel(b) ==
    Integration({},
        Sets(Compiler("afl-clang-fast", "AFL")) \o Builds
            \o Copies({"afl-fuzz"}),
        afl_fuzz(b))

PeachBuild(b) == afl_build(b) \o Copies({"peach-3.0.202", "input models"})
aflsmart(b) ==
    Integration({}, PeachBuild(b),
                AflFuzz(IF b.name = "bloaty"
                        THEN {"peach-3.0.202", "input models"} ELSE {}, "afl"))
aflsmart_plusplus(b) ==
    Integration({}, PeachBuild(b),
                AflFuzz({"peach-3.0.202", "input models"}, "afl"))

neuzz(b) ==
    Integration({},
        Sets(Compiler("afl-clang", "Neuzz")) \o Builds
            \o Copies({"afl-fuzz", "afl-showmap", "neuzz", "nn.py"}),
        AflFuzz({"neuzz", "nn.py"}, "afl"))

-----------------------------------------------------------------------------
(* AFL++: build() with its modes. *)

DefaultModes == {"tracepc", "cmplog", "dict2file"}

\* The files of the image are copied if they are there.
AflPlusPlusTools(image) == {"afl-fuzz"} \union image
Uninstrumented == In("uninstrumented")

\* Mutant of AflPlusPlusBuild: the benchmark is not built in restored
\* directories.
AflPlusPlusBuild_Dirty(modes, image) ==
    LET qemu == "qemu" \in modes IN
    Sets(Compiler(IF qemu THEN "clang" ELSE "afl-clang-fast",
                  IF "eclipser" \in modes THEN "Standalone" ELSE "AFLDriver"))
    \o (IF qemu \/ "symcc" \in modes THEN Sets(NoAsan) ELSE <<>>)
    \o Builds
    \o (IF "cmplog" \in modes /\ ~qemu
        THEN Mkdir(In("cmplog"))
             \o BuildsWith("env", Below("cmplog") ++ Adds({"cmplog"}))
        ELSE <<>>)
    \o (IF "symcc" \in modes
        THEN Mkdir(Uninstrumented)
             \o BuildsWith("env", Below("uninstrumented")
                                  ++ Compiler("symcc", "harness"))
        ELSE <<>>)
    \o Copies(AflPlusPlusTools(image))

\* For bug benchmarks the first mode is replaced by "native", which changes
\* the instrumentation but not what is built.
AflPlusPlusBuild(modes, image) ==
    LET qemu == "qemu" \in modes IN
    Sets(Compiler(IF qemu THEN "clang" ELSE "afl-clang-fast",
                  IF "eclipser" \in modes THEN "Standalone" ELSE "AFLDriver"))
    \o (IF qemu \/ "symcc" \in modes THEN Sets(NoAsan) ELSE <<>>)
    \o Restoring(Builds)
    \o (IF "cmplog" \in modes /\ ~qemu
        THEN Mkdir(In("cmplog"))
             \o BuildsWith("env", Below("cmplog") ++ Adds({"cmplog"}))
        ELSE <<>>)
    \o (IF "symcc" \in modes
        THEN Mkdir(Uninstrumented)
             \o BuildsWith("env", Below("uninstrumented")
                                  ++ Compiler("symcc", "harness"))
        ELSE <<>>)
    \o Copies(AflPlusPlusTools(image))

\* fuzz(): the program for CmpLog is used if there is one.
AflPlusPlusFuzz(kind) ==
    Fuzz(Uses({"afl-fuzz"}),
         Runs(OUT, kind) \union RunsIfBuilt(In("cmplog"), "cmplog"))

aflplusplus(b) ==
    Integration({}, AflPlusPlusBuild(DefaultModes, {}), AflPlusPlusFuzz("afl"))

\* Older copies of AFL++'s integration: fuzz() passes the program for CmpLog on
\* when no_cmplog is set, which no caller does.
RandomFuzz == Fuzz(Uses({"afl-fuzz"}), Runs(OUT, "afl"))
aflpp_random_default(b) ==
    Integration({}, AflPlusPlusBuild(DefaultModes, {}), RandomFuzz)
aflpp_random_no_favs(b) ==
    Integration({}, AflPlusPlusBuild(DefaultModes, {}), RandomFuzz)
aflpp_random_wrs(b) ==
    Integration({}, AflPlusPlusBuild(DefaultModes, {}), RandomFuzz)
aflpp_random_wrs_rf(b) ==
    Integration({}, AflPlusPlusBuild(DefaultModes, {}), RandomFuzz)
aflpp_random_wrs_rp(b) ==
    Integration({}, AflPlusPlusBuild(DefaultModes, {}), RandomFuzz)
aflpp_random_wrs_rf_rp(b) ==
    Integration({}, AflPlusPlusBuild(DefaultModes, {}), RandomFuzz)

afl_qemu(b) ==
    Integration({}, AflPlusPlusBuild({"qemu"}, {"afl-qemu-trace"}),
                AflFuzz({"afl-qemu-trace"}, "plain"))
aflplusplus_qemu(b) ==
    Integration({},
        AflPlusPlusBuild({"qemu"},
                         {"afl-qemu-trace", "aflpp_qemu_driver_hook.so"}),
        AflFuzz({"afl-qemu-trace"}, "plain"))
FridaFiles == {"afl-frida-trace.so", "get_frida_entry.sh"}
aflplusplus_frida(b) ==
    Integration({},
        AflPlusPlusBuild({"qemu"}, FridaFiles) \o Copies({"frida_hook.so"}),
        AflFuzz(FridaFiles \union {"frida_hook.so"}, "plain"))

aflrustrust(b) ==
    Integration({},
        AflPlusPlusBuild(DefaultModes, {}) \o Copies({"fuzzbench_forkserver"}),
        Fuzz(Uses({"fuzzbench_forkserver"}),
             Runs(OUT, "afl") \union Runs(In("cmplog"), "cmplog")))

\* HasteFuzz has a copy of AFL++'s build that restores the directories after
\* each build, and adds a program without sanitizers that it prefers.
Hastemode == In("hastemode")
hastefuzz(b) ==
    Integration({},
        Sets(Compiler("afl-clang-fast", "AFLDriver"))
        \o Restoring(Builds)
        \o Mkdir(In("cmplog"))
        \o Restoring(BuildsWith("env", Below("cmplog") ++ Adds({"cmplog"})))
        \o (IF b.type = "bug"
            THEN Mkdir(Hastemode)
                 \o Restoring(BuildsWith("env", Below("hastemode") ++ NoAsan))
            ELSE <<>>)
        \o Copies({"afl-fuzz"}),
        Fuzz(Uses({"afl-fuzz"}),
             Runs(OUT, "afl") \union RunsIfBuilt(In("cmplog"), "cmplog")
             \union RunsIfBuilt(Hastemode, "afl")))

-----------------------------------------------------------------------------
(* AFL or AFL++ next to a symbolic executor or to Eclipser. *)

BelowUninstrumented == Below("uninstrumented")
SymCC == BelowUninstrumented ++ Compiler("symcc", "harness") ++ NoAsan
SymCCFiles ==
    {"libSymRuntime.so", "libz3.so", "libc++.so.1", "libc++abi.so.1",
     "symcc_fuzzing_helper"}
AflTools == Copies({"afl-fuzz", "afl-showmap"})

SymCCFuzz ==
    Fuzz({In("afl-fuzz"), Uninstrumented \o In("symcc_fuzzing_helper")},
         Runs(OUT, "afl") \union Runs(Uninstrumented, "symcc"))

symcc_afl_build(b) ==
    Restoring(afl_build(b)) \o AflTools \o Mkdir(Uninstrumented)
    \o BuildsWith("env", SymCC) \o CopiesTo(Uninstrumented, SymCCFiles)
symcc_afl(b) == Integration({}, symcc_afl_build(b), SymCCFuzz)
symcc_afl_single(b) == Integration({}, symcc_afl_build(b), SymCCFuzz)

symcc_aflplusplus(b) ==
    Integration({},
        Saves \o Restoring(AflPlusPlusBuild({"tracepc"}, {})) \o AflTools
            \o Mkdir(Uninstrumented) \o BuildsWith("saved", SymCC)
            \o CopiesTo(Uninstrumented, SymCCFiles),
        SymCCFuzz)

symcc_aflplusplus_single(b) ==
    Integration({},
        Restoring(AflPlusPlusBuild({"tracepc", "symcc"}, {})) \o AflTools
            \o CopiesTo(Uninstrumented, SymCCFiles),
        SymCCFuzz)

\* The program for the tool is built first, with QEMU's environment, and moved
\* out of the way of the second build.
PlainThenAflPlusPlus ==
    Saves \o AflPlusPlusBuild({"qemu", "eclipser"}, {})
    \o Mkdir(Uninstrumented) \o CopiesTarget(Uninstrumented)
    \o Restores \o AflPlusPlusBuild({"tracepc"}, {})

symqemu_aflplusplus(b) ==
    Integration({},
        PlainThenAflPlusPlus \o AflTools
            \o CopiesTo(Uninstrumented,
                        {"symcc_fuzzing_helper", "libSymRuntime.so",
                         "libz3.so", "symqemu-x86_64"}),
        Fuzz({In("afl-fuzz"), Uninstrumented \o In("symcc_fuzzing_helper"),
              Uninstrumented \o In("symqemu-x86_64")},
             Runs(OUT, "afl") \union Runs(Uninstrumented, "plain")))

\* Mutant of eclipser_aflplusplus: the environment is not restored.
eclipser_aflplusplus_Env(b) ==
    Integration({},
        AflPlusPlusBuild({"qemu", "eclipser"}, {})
            \o Mkdir(Uninstrumented) \o CopiesTarget(Uninstrumented)
            \o AflPlusPlusBuild({"tracepc"}, {}) \o Copies({"afl-fuzz"}),
        Fuzz(Uses({"afl-fuzz"}),
             Runs(OUT, "afl") \union Runs(Uninstrumented, "plain")
             \union RunsIfBuilt(In("cmplog"), "cmplog")))
eclipser_aflplusplus(b) ==
    Integration({},
        PlainThenAflPlusPlus \o Copies({"afl-fuzz"}),
        Fuzz(Uses({"afl-fuzz"}),
             Runs(OUT, "afl") \union Runs(Uninstrumented, "plain")
             \union RunsIfBuilt(In("cmplog"), "cmplog")))

\* Mutant of ThenPlain: the second program replaces the first.
ThenPlain_SameOut ==
    Copies({"afl-fuzz"})
    \o BuildsWith("saved", Compiler("clang", "Standalone") ++ NoAsan)

\* A second program is built without sanitizers, in the environment of before
\* the first.
ThenPlain ==
    Copies({"afl-fuzz"}) \o Mkdir(Uninstrumented)
    \o BuildsWith("saved", BelowUninstrumented
                           ++ Compiler("clang", "Standalone") ++ NoAsan)
TwoFuzz(files) ==
    Fuzz(Uses({"afl-fuzz"} \union files),
         Runs(OUT, "afl") \union Runs(Uninstrumented, "plain"))

eclipser(b) ==
    Integration({}, Saves \o AflEnvironment \o Restoring(Builds) \o ThenPlain,
                TwoFuzz({}))
eclipser_new(b) ==
    Integration({}, Saves \o AflEnvironment \o Restoring(Builds) \o ThenPlain,
                TwoFuzz({}))

FuzzolicBuild ==
    Saves \o Sets(Compiler("afl-clang-fast", "AFLDriver"))
    \o Restoring(Builds) \o ThenPlain
fuzzolic_aflplusplus_z3(b) ==
    Integration({"fuzzolic"}, FuzzolicBuild, TwoFuzz({"fuzzolic"}))
fuzzolic_aflplusplus_fuzzy(b) ==
    Integration({"fuzzolic"}, FuzzolicBuild, TwoFuzz({"fuzzolic"}))

symsan(b) ==
    LET KoClang(dir) == BuildsWith("env",
            Below(dir) ++ [cc |-> "ko-clang", lib |-> "harness"]
            ++ (IF b.name = "libjpeg" THEN Unchanged ELSE NoAsan))
    IN Integration({"fuz.sh", "fres.sh"},
        Restoring(
            Mkdir(In("symsantrack")) \o Restoring(KoClang("symsantrack"))
            \o Mkdir(In("symsanfast")) \o Restoring(KoClang("symsanfast"))
            \o AflPlusPlusBuild(DefaultModes, {}))
        \o Copies({"fastgen"}),
        Fuzz(Uses({"afl-fuzz", "fuz.sh", "fres.sh", "fastgen"}),
             Runs(OUT, "afl") \union RunsIfBuilt(In("cmplog"), "cmplog")
             \union Runs(In("symsantrack"), "ko-clang")
             \union Runs(In("symsanfast"), "ko-clang")))

-----------------------------------------------------------------------------
(* honggfuzz and Weizz. *)

HonggfuzzBuild ==
    Sets(Compiler("hfuzz-clang", "empty")) \o Builds \o Copies({"honggfuzz"})
honggfuzz(b) ==
    Integration({}, HonggfuzzBuild,
                Fuzz(Uses({"honggfuzz"}), Runs(OUT, "hfuzz-clang")))

honggfuzz_qemu(b) ==
    Integration({},
        Sets(Compiler("clang", "QEMU")) \o Builds
            \o Copies({"honggfuzz", "qemu-x86_64"}),
        Fuzz(Uses({"honggfuzz", "qemu-x86_64"}), Runs(OUT, "plain")))

weizz_qemu(b) ==
    Integration({},
        Sets(Compiler("clang", "QEMU") ++ NoAsan) \o Builds
            \o Copies({"weizz", "weizz-qemu"}),
        Fuzz(Uses({"weizz", "weizz-qemu"}), Runs(OUT, "plain")))

(* PASTIS runs three fuzzers, each with its own program. *)
TargetAflpp == In("target-aflpp")
TargetHf == In("target-hf")
TargetFuzzers == In("fuzzers")

pastis_build(b) ==
    Mkdir(TargetAflpp) \o Mkdir(TargetHf) \o Mkdir(In("targets"))
    \o Mkdir(TargetFuzzers)
    \o Restoring(BuildsWith("env", Compiler("clang", "Standalone")))
    \o Sets(To(TargetAflpp)) \o Restoring(AflPlusPlusBuild(DefaultModes, {}))
    \o Sets(To(OUT))
    \o Moves(TargetAflpp \o In("afl-fuzz"), TargetFuzzers \o In("afl-fuzz"))
    \o Sets(To(TargetHf)) \o Restoring(HonggfuzzBuild) \o Sets(To(OUT))
    \o Moves(TargetHf \o In("honggfuzz"), TargetFuzzers \o In("honggfuzz"))
pastis_fuzz(b) ==
    Fuzz({TargetFuzzers \o In("afl-fuzz"), TargetFuzzers \o In("honggfuzz")},
         Runs(OUT, "plain") \union Runs(TargetAflpp, "afl")
         \union RunsIfBuilt(TargetAflpp \o In("cmplog"), "cmplog")
         \union Runs(TargetHf, "hfuzz-clang"))
pastis(b) == Integration({}, pastis_build(b), pastis_fuzz(b))

-----------------------------------------------------------------------------
(* Fuzzers that are linked into the benchmark. *)

LinkedBuild(lib) == Sets(Compiler("clang", lib)) \o Builds
Linked(lib) == Integration({}, LinkedBuild(lib), Fuzz({}, Runs(OUT, lib)))

libfuzzer(b) == Linked("libFuzzer")
glibfuzzer(b) == Linked("glibFuzzer")
libafl_libfuzzer(b) == Linked("libFuzzer")
wingfuzz(b) == Linked("Wingfuzz")
\* The coverage build has no fuzz(): the measurers run its program.
coverage(b) == Linked("libFuzzer")

centipede(b) ==
    Integration({"centipede"}, LinkedBuild("centipede"),
                Fuzz(Uses({"centipede"}), Runs(OUT, "centipede")))
\* fuzz() returns at once if the benchmark is not in the focus map.
centipede_function_filter(b) ==
    Integration({"centipede"}, LinkedBuild("centipede"),
                IF b.focused THEN centipede(b).fuzz ELSE Fuzz({}, {}))

LibAFL(cc, lib) ==
    Integration({}, Sets(Compiler(cc, lib)) \o Builds,
                Fuzz({}, Runs(OUT, cc)))
libafl(b) == LibAFL("libafl_cc", "stub_rt")
libafl_27042023(b) == LibAFL("libafl_cc", "stub_rt")
libafl_text(b) == LibAFL("libafl_cc", "empty")

\* The fuzzers with grammars build no other benchmark than those of a language
\* they have a grammar of.
Grammar(b, cc) ==
    Integration({},
        IF b.name \in {"php", "ruby", "js"}
        THEN Copies({"grammar.json"}) \o Sets(Compiler(cc, "empty")) \o Builds
        ELSE Raises,
        Fuzz(Uses({"grammar.json"}), Runs(OUT, cc)))
nautilus(b) == Grammar(b, "nautilus_cc")
token_level(b) == Grammar(b, "token_level_cc")
gramatron(b) == Grammar(b, "gramatron_cc")
grimoire(b) == Grammar(b, "grimoire_cc")

-----------------------------------------------------------------------------
(* Fuzzers whose programs are made of the benchmark's bitcode. *)

aflcc_build(b) ==
    Sets(Compiler("aflc-gclang", "AFL")) \o Builds
aflcc_post_build(b) ==
    Derives("original") \o Derives("normalized-none-nopt")
    \o Derives("no-collision-all-opt") \o Copies({"afl-fuzz"})
aflcc_fuzz(b) ==
    Fuzz(Uses({"afl-fuzz"}),
         Runs(OUT, "original") \union Runs(OUT, "normalized-none-nopt")
         \union Runs(OUT, "no-collision-all-opt"))
aflcc(b) ==
    Integration({}, aflcc_build(b) \o aflcc_post_build(b), aflcc_fuzz(b))

klee_build(b) == Sets(Compiler("wllvm", "AFL")) \o Builds \o Derives("bc")
klee_fuzz(b) == Fuzz(Uses({"klee", "ktest-tool"}), Runs(OUT, "bc"))
klee(b) == Integration({"klee", "ktest-tool"}, klee_build(b), klee_fuzz(b))
=============================================================================
