------------------------------- MODULE Images -------------------------------
(***************************************************************************)
(* One build of docker images: what gcb_build.py has Google Cloud Build do *)
(* from a specification of experiment/build/generate_cloudbuild.py, or     *)
(* local_build.py has make do with the rules of                            *)
(* docker/generate_makefile.py.  Both know the images, and what they       *)
(* depend on, from docker/image_types.yaml; what an image is built from is *)
(* what has the tags its Dockerfile names at the time.                     *)
(*                                                                         *)
(* The images are those of one fuzzer and one benchmark, which the names   *)
(* here leave out.                                                         *)
(***************************************************************************)
EXTENDS FiniteSets

CONSTANTS
    Tools,   \* what builds, a subset of {"gcb", "make"}
    Builds   \* what is built, a subset of {"base", "coverage", "fuzzer"}

ImagesAssumption ==
    /\ Tools \subseteq {"gcb", "make"}
    /\ Builds \subseteq {"base", "coverage", "fuzzer"}

Image(type, tag, depends, parents) ==
    [type |-> type, tag |-> tag, depends |-> depends, parents |-> parents]

\* image_types.yaml, with the tags that FROM names in the Dockerfiles.
Images == [
    base_image |->
        Image("base", "base", {}, {}),
    dispatcher_image |->
        Image("dispatcher", "dispatcher", {"base_image"}, {"base"}),
    worker |->
        Image("worker", "worker", {"base_image"}, {"base"}),
    project_builder |->
        Image("builder", "project", {}, {}),
    coverage_builder_intermediate |->
        Image("coverage", "coverage_intermediate",
              {"project_builder"}, {"project"}),
    coverage_builder |->
        Image("coverage", "coverage",
              {"coverage_builder_intermediate", "base_image"},
              {"coverage_intermediate", "base"}),
    builder_intermediate |->
        Image("builder", "builders_intermediate",
              {"project_builder"}, {"project"}),
    builder_debug |->
        Image("builder", "builders", {"builder_intermediate", "base_image"},
              {"builders_intermediate", "base"}),
    builder |->
        Image("builder", "builders", {"builder_intermediate", "base_image"},
              {"builders_intermediate", "base"}),
    intermediate_runner |->
        Image("runner", "runners_intermediate", {"builder", "base_image"},
              {"base"}),
    runner |->
        Image("runner", "runners", {"intermediate_runner"},
              {"builders", "runners_intermediate"})]

Names == DOMAIN Images
Tags == {Images[i].tag : i \in Names}

\* What an image depends on, on the way to the images that depend on none.
DependsOn(i) ==
    LET with(S) == S \union UNION {Images[j].depends : j \in S}
    IN  with(with(with(with(Images[i].depends))))

\* The images that gcb_build.py has built together.
CloudImages(build) ==
    CASE build = "base" -> {"base_image", "worker"}
      [] build = "coverage" ->
           {i \in Names : i = "project_builder" \/ Images[i].type = "coverage"}
      [] build = "fuzzer" ->
           {i \in Names :
               Images[i].type \notin {"base", "coverage", "dispatcher"}}

\* The targets that local_build.py gives to make.
Target(build) ==
    CASE build = "base" -> {"base_image", "worker"}
      [] build = "coverage" -> {"coverage_builder"}
      [] build = "fuzzer" -> {"runner"}

\* make builds what its targets depend on.
MadeImages(build) ==
    Target(build) \union UNION {DependsOn(i) : i \in Target(build)}

BuiltImages(tool, build) ==
    IF tool = "gcb" THEN CloudImages(build) ELSE MadeImages(build)

\* Mutant of WaitFor: no step waits for a builder.
WaitFor_Fewer(tool, build, i) ==
    Images[i].depends \ {"base_image", "builder"}

\* wait_for of a step, without the base images when these were built before;
\* the dependencies of a rule of the makefile.  (A step that has no wait_for
\* waits for those before it: of the steps here these are the first ones.)
WaitFor(tool, build, i) ==
    IF tool = "gcb" /\ build # "base" THEN Images[i].depends \ {"base_image"}
    ELSE Images[i].depends

VARIABLES
    tool, build,  \* which of Tools builds which of Builds
    state,        \* of an image: "waiting", "building" or "built"
    tags,         \* the image that has a tag; "old" is one of another build
    from,         \* the images that the parents of an image were
    archive       \* what copy_coverage_binaries or get_coverage_steps archive

vars == <<tool, build, state, tags, from, archive>>

\* The base images are built first and once (build_base_images).
Init ==
    /\ tool \in Tools
    /\ build \in Builds
    /\ state = [i \in BuiltImages(tool, build) |-> "waiting"]
    /\ tags = [t \in Tags |->
                 IF build # "base" /\ t = "base" THEN "base_image" ELSE "old"]
    /\ from = [i \in BuiltImages(tool, build) |-> {}]
    /\ archive = "none"

IsBuilt(i) == i \in DOMAIN state /\ state[i] = "built"

\* docker build resolves the tags of the Dockerfile first ...
StartsBuild(i) ==
    /\ i \in DOMAIN state
    /\ state[i] = "waiting"
    /\ \A j \in WaitFor(tool, build, i) : IsBuilt(j)
    /\ state' = [state EXCEPT ![i] = "building"]
    /\ from' = [from EXCEPT ![i] = {tags[t] : t \in Images[i].parents}]
    /\ UNCHANGED <<tool, build, tags, archive>>

\* ... and gives the image its tag at the end.
EndsBuild(i) ==
    /\ i \in DOMAIN state
    /\ state[i] = "building"
    /\ state' = [state EXCEPT ![i] = "built"]
    /\ tags' = [tags EXCEPT ![Images[i].tag] = i]
    /\ UNCHANGED <<tool, build, from, archive>>

AllBuilt == \A i \in DOMAIN state : state[i] = "built"

\* A step without wait_for, as those of get_coverage_steps, waits for all.
ArchiveReady == AllBuilt

ArchivesCoverage ==
    /\ build = "coverage"
    /\ archive = "none"
    /\ ArchiveReady
    /\ archive' = tags["coverage"]
    /\ UNCHANGED <<tool, build, state, tags, from>>

Next ==
    \/ \E i \in Names : StartsBuild(i) \/ EndsBuild(i)
    \/ ArchivesCoverage

Spec == Init /\ [][Next]_vars

Fairness == WF_vars(Next)

FairSpec == Spec /\ Fairness

-----------------------------------------------------------------------------
(***************************************************************************)
(* Properties.                                                             *)
(***************************************************************************)
TypeOK ==
    /\ tool \in Tools /\ build \in Builds
    /\ state \in [BuiltImages(tool, build) -> {"waiting", "building", "built"}]
    /\ tags \in [Tags -> Names \union {"old"}]
    /\ from \in [BuiltImages(tool, build) -> SUBSET (Names \union {"old"})]
    /\ archive \in Names \union {"old", "none"}

\* However the steps of a build overlap, an image is built from images it
\* depends on and of the same build (or the base images built before it), never
\* from what an earlier build left under their tags.  In a cloud build, where
\* the order of the two is open, builder_debug may take the place of builder,
\* whose tag it has; it has not run fuzzer_build.  The coverage binaries that
\* the measurer gets are those of this build as well.
BuiltFromDependencies ==
    /\ \A i \in DOMAIN state :
         from[i] \subseteq DependsOn(i)
             \union (IF tool = "gcb" THEN {"builder_debug"} ELSE {})
    /\ archive \in {"none", "coverage_builder"}

\* Every step of a build gets its turn: none waits for an image that is not
\* built.
EverythingIsBuilt == <>AllBuilt
=============================================================================
