----------------------------- MODULE FuzzerSteps -----------------------------
(***************************************************************************)
(* What the integration of a fuzzer (fuzzers/<name>/fuzzer.py) is made of. *)
(* build() runs when the image of a fuzzer and a benchmark is made: it is  *)
(* a sequence of steps on the environment, the sources and $OUT.  fuzz()   *)
(* runs in a container of another image, and all that it finds of build()  *)
(* is $OUT: it is the files it needs and the programs it runs.             *)
(* Optimisation, library paths and the fuzzers' own options are left out.  *)
(***************************************************************************)
EXTENDS Naturals, Sequences

OUT == <<>>     \* paths are sequences of names, from $OUT
In(dir) == <<dir>>

Unchanged == [x \in {} |-> x]
Compiler(cc, lib) == [cc |-> cc, lib |-> lib]
Adds(names) == [vars |-> names]
NoAsan == [asan |-> FALSE]
To(dir) == [out |-> dir]
Below(dir) == [below |-> In(dir)]

\* Both changes; of two to a variable, the first.
f ++ g ==
    [x \in DOMAIN f \union DOMAIN g |-> IF x \in DOMAIN f THEN f[x] ELSE g[x]]

\* os.environ[...] = ...
Sets(change) == <<[op |-> "set", change |-> change]>>

\* utils.build_benchmark, with os.environ or a copy of it, either the present
\* one or the saved one, but for some variables.
BuildsWith(base, change) ==
    <<[op |-> "build", base |-> base, change |-> change]>>
Builds == BuildsWith("env", Unchanged)

\* with utils.restore_directory(src), utils.restore_directory(work).
Restoring(steps) == <<[op |-> "enter"]>> \o steps \o <<[op |-> "exit"]>>

\* orig_env = os.environ.copy(), and later os.environ = orig_env.
Saves == <<[op |-> "save"]>>
Restores == <<[op |-> "back"]>>

\* os.mkdir and shutil.copy, below the directory that OUT is set to.
Mkdir(dir) == <<[op |-> "mkdir", dir |-> dir]>>
CopiesTo(dir, names) == <<[op |-> "copy", dir |-> dir, names |-> names]>>
Copies(names) == CopiesTo(OUT, names)

\* A file is moved within $OUT; the fuzz target is copied to another directory;
\* another program is made of it.
Moves(from, to) == <<[op |-> "move", from |-> from, to |-> to]>>
CopiesTarget(dir) == <<[op |-> "copytarget", dir |-> dir]>>
Derives(kind) == <<[op |-> "derive", kind |-> kind]>>

Raises == <<[op |-> "raise"]>>

\* What fuzz() needs and runs.
Uses(names) == {In(name) : name \in names}
Runs(dir, kind) == {[dir |-> dir, kind |-> kind, optional |-> FALSE]}
RunsIfBuilt(dir, kind) == {[dir |-> dir, kind |-> kind, optional |-> TRUE]}
Fuzz(files, runs) == [files |-> files, runs |-> runs]

\* What the Dockerfiles put into $OUT before build() or after it.
Integration(image, build, fuzz) ==
    [image |-> image, build |-> build, fuzz |-> fuzz]

-----------------------------------------------------------------------------
\* Assignments to os.environ, or to a copy of it, and append_flags.
Changed(e, change) ==
    LET Now(x) == IF x \in DOMAIN change THEN change[x] ELSE e[x]
    IN [cc |-> Now("cc"), lib |-> Now("lib"), asan |-> Now("asan"),
        out |-> IF "below" \in DOMAIN change THEN e.out \o change.below
                ELSE Now("out"),
        vars |-> IF "vars" \in DOMAIN change THEN e.vars \union change.vars
                 ELSE e.vars]

\* What a benchmark that is built in environment e becomes: programs that are
\* instrumented for a tool are told apart by compiler, library or variable.
KindOf(e) ==
    IF "cmplog" \in e.vars THEN "cmplog"
    ELSE IF \/ e.cc \in {"afl-clang", "afl-clang-fast"}
            \/ e.cc = "clang" /\ e.lib = "AFL" /\ "trace-pc-guard" \in e.vars
         THEN "afl"
    ELSE IF e.cc = "clang" /\ e.lib \in {"QEMU", "Standalone", "AFLDriver"}
         THEN "plain"
    ELSE IF /\ e.cc = "clang"
            /\ e.lib \in {"libFuzzer", "glibFuzzer", "Wingfuzz", "centipede"}
         THEN e.lib
    ELSE e.cc
=============================================================================
