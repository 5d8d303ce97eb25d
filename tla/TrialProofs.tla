----------------------------- MODULE TrialProofs -----------------------------
(***************************************************************************)
(* Theorems about what becomes of a trial: about its runner (Runner), for  *)
(* every corpus, every number of cycles and retries and all disturbances,  *)
(* and about TrialMC, where the runner, the measurer and a measurement are *)
(* put side by side.                                                       *)
(***************************************************************************)
EXTENDS TrialMC, TLAPS

\* A file that exists has a modification time, and none is in the future;
\* TypeOK needs it for the versions that are archived.
Written == /\ \A f \in present : mtime[f] # 0
           /\ \A f \in Files : mtime[f] <= now

TypeInv == TypeOK /\ Written

LEMMA TypeInit == Init => TypeInv
<1> SUFFICES ASSUME Init PROVE TypeInv
  OBVIOUS
<1>1. /\ cycle \in Cycles /\ now \in 1..MaxTime /\ tries \in 0..NumRetries
      /\ lastArchive \in 0..MaxTime /\ newArchive \in 0..MaxTime
  BY RunnerAssumption DEF Cycles, Init
<1>2. mtime \in [Files -> 0..MaxTime]
  BY RunnerAssumption DEF Init
<1>3. /\ DOMAIN bucket \subseteq Cycles
      /\ bucket \in [DOMAIN bucket -> SUBSET Versions]
      /\ archive \subseteq Versions
  BY DEF Init
<1>4. Written
  <2>1. \A f \in Files : mtime[f] = IF f \in Seeds THEN 1 ELSE 0
    BY DEF Init
  <2>2. present \subseteq Files /\ present = Seeds /\ now = 1
    BY RunnerAssumption DEF Init
  <2> QED
    BY <2>1, <2>2 DEF Written
<1>5. /\ pc = "list" /\ fuzz = "unstarted" /\ adding = NoFile /\ failed = FALSE
      /\ present \subseteq Files /\ rewritten \subseteq Files
      /\ listed \subseteq Files /\ toVisit \subseteq Dirs
  BY RunnerAssumption DEF Init
<1> QED
  BY <1>1, <1>2, <1>3, <1>4, <1>5 DEF TypeInv, TypeOK

\* Saving an archive adds it to those in the filestore, or replaces it.
LEMMA SaveAdds ==
    ASSUME Save
    PROVE  /\ DOMAIN bucket' = DOMAIN bucket \union {cycle}
           /\ bucket'[cycle] = archive
           /\ \A c \in DOMAIN bucket : c # cycle => bucket'[c] = bucket[c]
BY DEF Save

LEMMA SaveIsTyped ==
    ASSUME TypeOK, Save
    PROVE  /\ DOMAIN bucket' \subseteq Cycles
           /\ bucket' \in [DOMAIN bucket' -> SUBSET Versions]
BY DEF Save, TypeOK

LEMMA TypeStep == TypeInv /\ [Next]_vars => TypeInv'
<1> SUFFICES ASSUME TypeInv, [Next]_vars PROVE TypeInv'
  OBVIOUS
<1> USE RunnerAssumption DEF TypeInv, TypeOK, Written, Cycles, corpus, scan
<1>1. ASSUME NEW d \in Dirs, ListDirectory(d) PROVE TypeInv'
  BY <1>1 DEF ListDirectory
<1>2. ASSUME NEW f \in Files, StatFile(f) PROVE TypeInv'
  BY <1>2 DEF StatFile, Later
<1>3. CASE AddFile
  <2>1. adding \in present => <<adding, mtime[adding]>> \in Versions
    BY <1>3 DEF AddFile, Versions
  <2> QED
    BY <1>3, <2>1 DEF AddFile
<1>4. CASE CloseArchive
  BY <1>4 DEF CloseArchive, ArchiveTime
<1>5. CASE Upload
  BY <1>5, SaveIsTyped DEF Upload, AfterSync
<1>6. CASE UploadFails
  <2>1. /\ DOMAIN bucket' \subseteq Cycles
        /\ bucket' \in [DOMAIN bucket' -> SUBSET Versions]
    <3>1. bucket' = bucket \/ Save
      BY <1>6 DEF UploadFails
    <3> QED BY <3>1, SaveIsTyped
  <2> QED
    BY <1>6, <2>1
    DEF UploadFails, AfterSync, BeginArchive, TriesLeft, NextTry
<1>7. CASE StartFuzzer \/ NextCycle \/ WakeUp \/ FinalSync
  BY <1>7 DEF StartFuzzer, NextCycle, WakeUp, FinalSync, BeginArchive
<1>8. ASSUME NEW f \in Files, WriteFile(f) PROVE TypeInv'
  BY <1>8 DEF WriteFile
<1>9. ASSUME NEW f \in Files, DeleteFile(f) PROVE TypeInv'
  BY <1>9 DEF DeleteFile
<1>10. CASE FuzzExits \/ UNCHANGED vars
  BY <1>10 DEF FuzzExits, vars
<1> QED
  BY <1>1, <1>2, <1>3, <1>4, <1>5, <1>6, <1>7, <1>8, <1>9, <1>10
  DEF Next, Main, Sync, Fuzzer, Done

(***************************************************************************)
(* Type correctness: among others, a sync makes no more than NUM_RETRIES   *)
(* calls of archive_and_save_corpus after the first.                       *)
(***************************************************************************)
THEOREM TypeCorrect == Spec => []TypeOK
<1>1. TypeInv => TypeOK
  BY DEF TypeInv
<1> QED
  BY <1>1, TypeInit, TypeStep, PTL DEF Spec

-----------------------------------------------------------------------------
\* What the filestore has is not newer than the last archive ...
BucketIsOld ==
    \A c \in DOMAIN bucket : \A v \in bucket[c] :
        v[1] \in rewritten \/ v[2] <= lastArchive

\* ... what goes into the archive is, ...
ArchiveIsNew ==
    pc \in {"list", "archive"} =>
        /\ lastArchive <= newArchive
        /\ \A v \in archive : \/ v[1] \in rewritten
                              \/ lastArchive < v[2] /\ v[2] <= newArchive

AddingIsNew ==
    adding # NoFile =>
        /\ pc = "archive"
        /\ lastArchive < mtime[adding]
        /\ adding \in rewritten \/ mtime[adding] <= newArchive

\* ... and so an archive that is closed has nothing the filestore has.
UploadIsFresh ==
    pc = "upload" =>
        \A v \in archive :
            \/ v[1] \in rewritten
            \/ /\ v[2] <= lastArchive
               /\ \A c \in DOMAIN bucket : v \notin bucket[c]

ArchiveInvariant ==
    /\ TypeInv
    /\ BucketIsOld
    /\ ArchiveIsNew
    /\ AddingIsNew
    /\ UploadIsFresh
    /\ ArchivedOnce

LEMMA ArchiveInit == Init => ArchiveInvariant
<1> SUFFICES ASSUME Init PROVE ArchiveInvariant
  OBVIOUS
<1>1. TypeInv
  BY TypeInit
<1>2. BucketIsOld /\ ArchivedOnce
  BY DEF Init, BucketIsOld, ArchivedOnce
<1>3. ArchiveIsNew /\ AddingIsNew /\ UploadIsFresh
  BY DEF Init, ArchiveIsNew, AddingIsNew, UploadIsFresh
<1> QED
  BY <1>1, <1>2, <1>3 DEF ArchiveInvariant

\* What only moves the main thread outside archive_corpus keeps the parts.
LEMMA FrameKeeps ==
    ASSUME ArchiveInvariant,
           UNCHANGED <<rewritten, lastArchive, archive, bucket>>,
           \/ /\ UNCHANGED <<pc, newArchive>>
              /\ adding' = adding
              /\ adding # NoFile => mtime'[adding] = mtime[adding]
           \/ /\ adding' = NoFile
              /\ pc' \notin {"list", "archive", "upload"}
    PROVE  BucketIsOld' /\ ArchiveIsNew' /\ AddingIsNew' /\ UploadIsFresh'
           /\ ArchivedOnce'
<1>1. BucketIsOld' /\ ArchivedOnce'
  BY DEF ArchiveInvariant, BucketIsOld, ArchivedOnce
<1>2. ArchiveIsNew' /\ UploadIsFresh'
  BY DEF ArchiveInvariant, ArchiveIsNew, UploadIsFresh
<1>3. AddingIsNew'
  BY DEF ArchiveInvariant, AddingIsNew
<1> QED
  BY <1>1, <1>2, <1>3

\* Saving the archive adds versions that no other cycle has.
LEMMA SaveKeeps ==
    ASSUME ArchiveInvariant, pc = "upload", Save,
           UNCHANGED <<lastArchive, rewritten>>
    PROVE  BucketIsOld' /\ ArchivedOnce'
<1>1. \A c \in DOMAIN bucket' :
        \/ c = cycle /\ bucket'[c] = archive
        \/ c # cycle /\ c \in DOMAIN bucket /\ bucket'[c] = bucket[c]
  BY SaveAdds
<1>2. UploadIsFresh /\ BucketIsOld /\ ArchivedOnce
  BY DEF ArchiveInvariant
<1>3. BucketIsOld'
  BY <1>1, <1>2 DEF BucketIsOld, UploadIsFresh
<1>4. ArchivedOnce'
  <2> SUFFICES ASSUME NEW c \in DOMAIN bucket', NEW d \in DOMAIN bucket',
                      NEW v, v \in bucket'[c], v \in bucket'[d], c # d
               PROVE  v[1] \in rewritten
    BY DEF ArchivedOnce
  <2>1. CASE c = cycle
    <3>1. v \in archive /\ d \in DOMAIN bucket /\ v \in bucket[d]
      BY <1>1, <2>1
    <3> QED BY <1>2, <3>1 DEF UploadIsFresh
  <2>2. CASE d = cycle
    <3>1. v \in archive /\ c \in DOMAIN bucket /\ v \in bucket[c]
      BY <1>1, <2>2
    <3> QED BY <1>2, <3>1 DEF UploadIsFresh
  <2>3. CASE c # cycle /\ d # cycle
    BY <1>1, <1>2, <2>3 DEF ArchivedOnce
  <2> QED
    BY <2>1, <2>2, <2>3
<1> QED
  BY <1>3, <1>4

\* A new archive is empty.
LEMMA BeginKeeps ==
    ASSUME ArchiveInvariant, BeginArchive, UNCHANGED lastArchive
    PROVE  ArchiveIsNew' /\ AddingIsNew' /\ UploadIsFresh'
<1>1. lastArchive \in Nat
  BY RunnerAssumption DEF ArchiveInvariant, TypeInv, TypeOK
<1> QED
  BY <1>1 DEF BeginArchive, ArchiveIsNew, AddingIsNew, UploadIsFresh

LEMMA ArchiveStep == ArchiveInvariant /\ [Next]_vars => ArchiveInvariant'
<1> SUFFICES ASSUME ArchiveInvariant, [Next]_vars PROVE ArchiveInvariant'
  OBVIOUS
<1> DEFINE Conjuncts == BucketIsOld /\ ArchiveIsNew /\ AddingIsNew
                    /\ UploadIsFresh /\ ArchivedOnce
<1>type. TypeInv'
  BY TypeStep DEF ArchiveInvariant
<1>nat. /\ lastArchive \in Nat /\ newArchive \in Nat
        /\ \A f \in Files : mtime[f] \in Nat
        /\ \A v \in archive : v[2] \in Nat
        /\ \A c \in DOMAIN bucket : \A v \in bucket[c] : v[2] \in Nat
        /\ listed \subseteq Files
        /\ adding # NoFile => adding \in Files
  BY RunnerAssumption DEF ArchiveInvariant, TypeInv, TypeOK, Versions
<1>now. Conjuncts
  BY DEF ArchiveInvariant
<1> SUFFICES Conjuncts'
  BY <1>type DEF ArchiveInvariant
<1>frame. ASSUME UNCHANGED <<rewritten, lastArchive, bucket>>
          PROVE  BucketIsOld' /\ ArchivedOnce'
  BY <1>frame, <1>now DEF BucketIsOld, ArchivedOnce
<1>1. ASSUME NEW d \in Dirs, ListDirectory(d) PROVE Conjuncts'
  <2>1. BucketIsOld' /\ ArchivedOnce'
    BY <1>1, <1>frame DEF ListDirectory, corpus
  <2>2. ArchiveIsNew' /\ AddingIsNew' /\ UploadIsFresh'
    BY <1>1, <1>now
    DEF ListDirectory, corpus, ArchiveIsNew, AddingIsNew, UploadIsFresh
  <2> QED
    BY <2>1, <2>2
<1>2. ASSUME NEW f \in Files, StatFile(f) PROVE Conjuncts'
  <2>1. BucketIsOld' /\ ArchivedOnce'
    BY <1>2, <1>frame DEF StatFile, corpus
  <2>2. /\ pc = "archive" /\ pc' = "archive" /\ archive' = archive
        /\ lastArchive' = lastArchive /\ mtime' = mtime
        /\ rewritten' = rewritten
    BY <1>2 DEF StatFile, corpus
  <2>3. newArchive' \in Nat /\ newArchive <= newArchive'
    BY <1>2, <1>nat DEF StatFile, Later
  <2>4. ArchiveIsNew'
    BY <2>2, <2>3, <1>now, <1>nat DEF ArchiveIsNew
  <2>5. AddingIsNew'
    BY <1>2, <2>2, <1>nat DEF StatFile, Later, IsNew, AddingIsNew
  <2>6. UploadIsFresh'
    BY <2>2 DEF UploadIsFresh
  <2> QED
    BY <2>1, <2>4, <2>5, <2>6
<1>3. CASE AddFile
  <2>1. BucketIsOld' /\ ArchivedOnce'
    BY <1>3, <1>frame DEF AddFile, corpus
  <2>2. ArchiveIsNew'
    <3>1. /\ lastArchive' = lastArchive /\ newArchive' = newArchive
          /\ rewritten' = rewritten /\ pc = "archive"
          /\ lastArchive <= newArchive
      BY <1>3, <1>now DEF AddFile, corpus, ArchiveIsNew
    <3>2. ASSUME NEW v \in archive'
          PROVE  v \in archive \/ v = <<adding, mtime[adding]>>
      BY <1>3 DEF AddFile
    <3>3. /\ lastArchive < mtime[adding]
          /\ adding \in rewritten \/ mtime[adding] <= newArchive
      BY <1>3, <1>now DEF AddFile, AddingIsNew
    <3> QED
      BY <3>1, <3>2, <3>3, <1>now DEF ArchiveIsNew
  <2>3. AddingIsNew' /\ UploadIsFresh'
    BY <1>3 DEF AddFile, AddingIsNew, UploadIsFresh
  <2> QED
    BY <2>1, <2>2, <2>3
<1>4. CASE CloseArchive
  <2>1. /\ lastArchive' = newArchive /\ lastArchive <= newArchive
        /\ rewritten' = rewritten /\ bucket' = bucket /\ archive' = archive
        /\ adding' = NoFile /\ pc = "archive" /\ pc' = "upload"
    BY <1>4, <1>now DEF CloseArchive, ArchiveTime, corpus, scan, ArchiveIsNew
  <2>2. BucketIsOld'
    BY <2>1, <1>now, <1>nat DEF BucketIsOld
  <2>3. ArchivedOnce'
    BY <2>1, <1>now DEF ArchivedOnce
  <2>4. UploadIsFresh'
    <3> SUFFICES ASSUME NEW v \in archive, v[1] \notin rewritten
                 PROVE  /\ v[2] <= newArchive
                        /\ \A c \in DOMAIN bucket : v \notin bucket[c]
      BY <2>1 DEF UploadIsFresh
    <3>1. lastArchive < v[2] /\ v[2] <= newArchive
      BY <2>1, <1>now DEF ArchiveIsNew
    <3>2. \A c \in DOMAIN bucket :
             \A w \in bucket[c] : w = v => w[2] <= lastArchive
      BY <1>now DEF BucketIsOld
    <3> QED
      BY <3>1, <3>2, <1>nat
  <2>5. ArchiveIsNew' /\ AddingIsNew'
    BY <2>1 DEF ArchiveIsNew, AddingIsNew
  <2> QED
    BY <2>2, <2>3, <2>4, <2>5
<1>5. CASE Upload
  <2>1. BucketIsOld' /\ ArchivedOnce'
    BY <1>5, SaveKeeps DEF Upload, corpus
  <2>2. pc' \notin {"list", "archive", "upload"} /\ adding' = adding
    BY <1>5 DEF Upload, AfterSync, scan
  <2>3. adding = NoFile
    BY <1>5, <1>now DEF Upload, AddingIsNew
  <2>4. ArchiveIsNew' /\ AddingIsNew' /\ UploadIsFresh'
    BY <2>2, <2>3 DEF ArchiveIsNew, AddingIsNew, UploadIsFresh
  <2> QED
    BY <2>1, <2>4
<1>6. CASE UploadFails
  <2>1. BucketIsOld' /\ ArchivedOnce'
    BY <1>6, <1>frame, SaveKeeps DEF UploadFails, corpus
  <2>2. CASE BeginArchive
    BY <1>6, <2>1, <2>2, BeginKeeps DEF UploadFails
  <2>3. CASE pc' = AfterSync /\ UNCHANGED scan
    <3>1. pc' \notin {"list", "archive", "upload"} /\ adding' = adding
      BY <2>3 DEF AfterSync, scan
    <3>2. adding = NoFile
      BY <1>6, <1>now DEF UploadFails, AddingIsNew
    <3> QED
      BY <2>1, <3>1, <3>2 DEF ArchiveIsNew, AddingIsNew, UploadIsFresh
  <2> QED
    BY <1>6, <2>2, <2>3 DEF UploadFails
<1>7. CASE WakeUp \/ FinalSync
  <2>1. BucketIsOld' /\ ArchivedOnce'
    BY <1>7, <1>frame DEF WakeUp, FinalSync, corpus
  <2>2. ArchiveIsNew' /\ AddingIsNew' /\ UploadIsFresh'
    BY <1>7, BeginKeeps DEF WakeUp, FinalSync
  <2> QED
    BY <2>1, <2>2
<1>8. CASE StartFuzzer \/ NextCycle
  <2>1. adding = NoFile
    BY <1>8, <1>now DEF StartFuzzer, NextCycle, AddingIsNew
  <2> QED
    BY <1>8, <2>1, FrameKeeps DEF StartFuzzer, NextCycle, corpus, scan
<1>9. ASSUME NEW f \in Files, WriteFile(f) PROVE Conjuncts'
  <2>1. rewritten \subseteq rewritten'
    BY <1>9 DEF WriteFile
  <2>2. UNCHANGED <<pc, lastArchive, newArchive, adding, archive, bucket>>
    BY <1>9 DEF WriteFile, scan
  <2>3. BucketIsOld' /\ ArchivedOnce'
    BY <2>1, <2>2, <1>now DEF BucketIsOld, ArchivedOnce
  <2>4. ArchiveIsNew' /\ UploadIsFresh'
    BY <2>1, <2>2, <1>now DEF ArchiveIsNew, UploadIsFresh
  <2>5. AddingIsNew'
    <3>1. CASE adding = NoFile
      BY <2>2, <3>1 DEF AddingIsNew
    <3>2. CASE adding = f /\ adding # NoFile
      <4>1. /\ pc = "archive" /\ lastArchive < mtime[f]
        BY <1>now, <3>2 DEF AddingIsNew
      <4>2. mtime[f] <= now /\ mtime'[f] = now + 1 /\ now \in Nat
        BY <1>9, RunnerAssumption
        DEF WriteFile, ArchiveInvariant, TypeInv, TypeOK, Written
      <4>3. f \in rewritten'
        BY <1>9, <4>1, <1>nat DEF WriteFile
      <4> QED
        BY <2>2, <3>2, <4>1, <4>2, <4>3, <1>nat DEF AddingIsNew
    <3>3. CASE adding # f /\ adding # NoFile
      <4>1. mtime'[adding] = mtime[adding]
        BY <1>9, <1>nat, <3>3
        DEF WriteFile, ArchiveInvariant, TypeInv, TypeOK
      <4> QED
        BY <2>1, <2>2, <4>1, <1>now DEF AddingIsNew
    <3> QED
      BY <3>1, <3>2, <3>3
  <2> QED
    BY <2>3, <2>4, <2>5
<1>10. ASSUME NEW f \in Files, DeleteFile(f) PROVE Conjuncts'
  BY <1>10, FrameKeeps DEF DeleteFile, scan
<1>11. CASE FuzzExits \/ UNCHANGED vars
  BY <1>11, FrameKeeps DEF FuzzExits, corpus, scan, vars
<1> QED
  BY <1>1, <1>2, <1>3, <1>4, <1>5, <1>6, <1>7, <1>8, <1>9, <1>10, <1>11
  DEF Next, Main, Sync, Fuzzer, Done

(***************************************************************************)
(* The archives of different cycles have no version of a file in common,   *)
(* through failed, retried and half-failed uploads alike.                  *)
(***************************************************************************)
THEOREM ArchivedApart == Spec => []ArchivedOnce
<1>1. ArchiveInvariant => ArchivedOnce
  BY DEF ArchiveInvariant
<1> QED
  BY <1>1, ArchiveInit, ArchiveStep, PTL DEF Spec

-----------------------------------------------------------------------------
(***************************************************************************)
(* What the scan of the corpus leaves behind.  A corpus with its files in  *)
(* one directory is listed in one step; what is written after that is      *)
(* newer than all that was listed.  That is what the argument needs, and   *)
(* what fails for a corpus of two directories.                             *)
(***************************************************************************)
FilesAreIn(d) == d \in Dirs /\ \A f \in Files : DirOf[f] = d

Saved(f) == \E c \in DOMAIN bucket : <<f, mtime[f]>> \in bucket[c]

\* The files archive_corpus still has to look at.
Ahead == listed \union (IF adding = NoFile THEN {} ELSE {adding})

\* The cycle that is being archived has nothing in the filestore yet.
CycleIsFresh ==
    /\ \A c \in DOMAIN bucket : c <= cycle
    /\ pc \in {"sleep", "list", "archive", "upload"} => cycle \notin DOMAIN bucket

\* Outside of a sync, and for what a sync skips: an old file is saved.
OldIsSaved ==
    pc \in {"start", "loop", "sleep", "list", "archive"} =>
        \A f \in present : mtime[f] <= lastArchive => Saved(f)

\* Before its directory is listed nothing has happened to a file ...
NothingListed(d) ==
    (pc = "list" /\ d \in toVisit) =>
        listed = {} /\ archive = {} /\ newArchive = lastArchive

\* ... and then it is saved, to be looked at, archived, or newer than
\* everything that was listed.
EveryFileIsDealtWith(d) ==
    (pc \in {"list", "archive"} /\ d \notin toVisit) =>
        \A f \in present :
            \/ Saved(f)
            \/ f \in Ahead
            \/ <<f, mtime[f]>> \in archive
            \/ newArchive < mtime[f] /\ \A g \in Ahead : mtime[g] < mtime[f]

\* A closed archive has what will be skipped.
ClosedIsComplete ==
    pc = "upload" =>
        \A f \in present :
            mtime[f] <= lastArchive => Saved(f) \/ <<f, mtime[f]>> \in archive

\* What holds whatever happened: times are not in the future, listed files
\* were written, all directories are listed and the fuzzer is started once.
TimesArePast ==
    /\ lastArchive <= now
    /\ pc \in {"list", "archive"} => newArchive <= now
    /\ \A f \in listed : mtime[f] # 0
    /\ pc = "archive" => toVisit = {}
    /\ pc = "start" => fuzz = "unstarted"

SavesAll(d) ==
    /\ CycleIsFresh
    /\ OldIsSaved
    /\ NothingListed(d)
    /\ EveryFileIsDealtWith(d)
    /\ ClosedIsComplete

ScanInvariant(d) ==
    /\ ArchiveInvariant
    /\ TimesArePast
    /\ (~failed /\ rewritten = {} /\ fuzz # "joined") => SavesAll(d)

LEMMA TimesInit == Init => TimesArePast
BY DEF Init, TimesArePast

LEMMA TimesStep ==
    ASSUME ArchiveInvariant, TimesArePast, [Next]_vars
    PROVE  TimesArePast'
<1> USE RunnerAssumption DEF TimesArePast, corpus, scan
<1>0. /\ lastArchive \in Nat /\ newArchive \in Nat /\ now \in Nat
      /\ \A f \in Files : mtime[f] \in Nat /\ mtime[f] <= now
      /\ \A f \in present : f \in Files /\ mtime[f] # 0
      /\ mtime \in [Files -> 0..MaxTime]
      /\ listed \subseteq Files
  BY DEF ArchiveInvariant, TypeInv, TypeOK, Written
<1>1. ASSUME NEW d \in Dirs, ListDirectory(d) PROVE TimesArePast'
  BY <1>0, <1>1 DEF ListDirectory
<1>2. ASSUME NEW f \in Files, StatFile(f) PROVE TimesArePast'
  BY <1>0, <1>2 DEF StatFile, Later
<1>3. CASE AddFile \/ StartFuzzer \/ NextCycle \/ FuzzExits \/ UNCHANGED vars
  BY <1>0, <1>3
     DEF AddFile, StartFuzzer, NextCycle, FuzzExits, vars
<1>4. CASE CloseArchive
  BY <1>0, <1>4 DEF CloseArchive, ArchiveTime
<1>5. CASE Upload \/ UploadFails \/ WakeUp \/ FinalSync
  BY <1>0, <1>5 DEF Upload, UploadFails, WakeUp, FinalSync, Save, AfterSync,
                    BeginArchive
<1>6. ASSUME NEW f \in Files, WriteFile(f) PROVE TimesArePast'
  BY <1>0, <1>6 DEF WriteFile
<1>7. ASSUME NEW f \in Files, DeleteFile(f) PROVE TimesArePast'
  BY <1>0, <1>7 DEF DeleteFile
<1> QED
  BY <1>1, <1>2, <1>3, <1>4, <1>5, <1>6, <1>7
     DEF Next, Main, Sync, Fuzzer, Done

\* A step that leaves the files, what is archived and what is saved alone, or
\* removes a file, keeps the parts that hold where the main thread is next.
LEMMA ScanFrame ==
    ASSUME NEW d, SavesAll(d), pc' = pc, present' \subseteq present,
           UNCHANGED <<cycle, mtime, lastArchive, scan, bucket>>
    PROVE  SavesAll(d)'
<1>1. \A f \in Files : Saved(f)' <=> Saved(f)
  BY DEF Saved
<1>2. Ahead' = Ahead
  BY DEF Ahead, scan
<1> QED
  BY <1>1, <1>2 DEF SavesAll, CycleIsFresh, OldIsSaved, NothingListed,
     EveryFileIsDealtWith, ClosedIsComplete, Saved, scan

\* A sync begins with everything still to be looked at.
LEMMA ScanBegins ==
    ASSUME NEW d, FilesAreIn(d), TypeOK, SavesAll(d), BeginArchive,
           pc = "sleep",
           UNCHANGED <<cycle, corpus, lastArchive, bucket>>
    PROVE  SavesAll(d)'
<1>1. \A f \in Files : Saved(f)' <=> Saved(f)
  BY DEF Saved, corpus
<1> QED
  BY <1>1 DEF BeginArchive, SavesAll, CycleIsFresh, OldIsSaved, Saved,
     NothingListed, EveryFileIsDealtWith, ClosedIsComplete, FilesAreIn, corpus

LEMMA ScanStep ==
    ASSUME NEW d, FilesAreIn(d), ScanInvariant(d), [Next]_vars
    PROVE  ScanInvariant(d)'
<1>1. ArchiveInvariant' /\ TimesArePast'
  BY ArchiveStep, TimesStep DEF ScanInvariant
<1> SUFFICES ASSUME ~failed', rewritten' = {}, fuzz' # "joined"
             PROVE  SavesAll(d)'
  BY <1>1 DEF ScanInvariant
<1>2. /\ ~UploadFails /\ ~FinalSync
      /\ \A f \in Files : WriteFile(f) => mtime[f] = 0
  BY DEF UploadFails, FinalSync, WriteFile
<1>0. rewritten = {}
  <2>1. UNCHANGED rewritten \/ \E f \in Files : WriteFile(f)
    BY DEF Next, Main, Sync, Fuzzer, Done, vars, corpus, ListDirectory,
       StatFile, AddFile, CloseArchive, Upload, UploadFails, StartFuzzer,
       NextCycle, WakeUp, FinalSync, FuzzExits, DeleteFile
  <2> QED BY <2>1 DEF WriteFile
<1>3. ~failed /\ fuzz # "joined"
  BY <1>2 DEF Next, Main, Sync, Fuzzer, Done, vars, ListDirectory, StatFile,
     AddFile, CloseArchive, Upload, StartFuzzer, NextCycle, WakeUp, FuzzExits,
     WriteFile, DeleteFile, ScanInvariant, TimesArePast
<1>4. SavesAll(d) /\ ArchiveInvariant /\ TimesArePast
  BY <1>0, <1>3 DEF ScanInvariant
<1>5. /\ lastArchive \in Nat /\ newArchive \in Nat /\ now \in Nat
      /\ \A f \in Files : mtime[f] \in Nat /\ mtime[f] <= now
      /\ mtime \in [Files -> 0..MaxTime]
      /\ \A f \in present : f \in Files /\ mtime[f] # 0
      /\ listed \subseteq Files /\ adding \in Files \union {NoFile}
      /\ cycle \in Cycles /\ Cycles \subseteq Nat
      /\ DOMAIN bucket \subseteq Cycles
  BY <1>4, RunnerAssumption
     DEF ArchiveInvariant, TypeInv, TypeOK, Written, Cycles
<1>6. ASSUME NEW e \in Dirs, ListDirectory(e) PROVE SavesAll(d)'
  <2>1. /\ pc = "list" /\ pc' \in {"list", "archive"}
        /\ toVisit' = toVisit \ {e}
        /\ listed' = listed \union {f \in present : DirOf[f] = e}
        /\ UNCHANGED <<cycle, present, mtime, lastArchive, newArchive, adding,
                       archive, bucket>>
    BY <1>6 DEF ListDirectory, corpus
  <2>2. \A f \in Files : Saved(f)' <=> Saved(f)
    BY <2>1 DEF Saved
  <2>3. CycleIsFresh' /\ OldIsSaved' /\ ClosedIsComplete'
    BY <1>4, <1>5, <2>1, <2>2
       DEF SavesAll, CycleIsFresh, OldIsSaved, ClosedIsComplete
  <2>4. NothingListed(d)'
    BY <1>4, <1>5, <2>1 DEF SavesAll, NothingListed, FilesAreIn
  <2>5. EveryFileIsDealtWith(d)'
    <3>1. CASE e = d
      <4>1. present \subseteq listed'
        BY <1>5, <2>1, <3>1 DEF FilesAreIn
      <4> QED BY <2>1, <4>1 DEF EveryFileIsDealtWith, Ahead
    <3>2. CASE e # d
      <4>1. listed' = listed
        BY <1>5, <2>1, <3>2 DEF FilesAreIn
      <4>2. Ahead' = Ahead
        BY <2>1, <4>1 DEF Ahead
      <4> QED
        BY <1>4, <1>5, <2>1, <2>2, <3>2, <4>2
           DEF SavesAll, EveryFileIsDealtWith
    <3> QED BY <3>1, <3>2
  <2> QED BY <2>3, <2>4, <2>5 DEF SavesAll
<1>7. ASSUME NEW g \in Files, StatFile(g) PROVE SavesAll(d)'
  <2>1. /\ pc = "archive" /\ pc' = "archive" /\ adding = NoFile
        /\ g \in listed /\ listed' = listed \ {g}
        /\ UNCHANGED <<cycle, present, mtime, lastArchive, toVisit, archive,
                       bucket>>
        /\ \/ /\ g \in present /\ lastArchive < mtime[g]
              /\ adding' = g /\ newArchive' = Later(newArchive, mtime[g])
           \/ /\ g \notin present \/ ~(lastArchive < mtime[g])
              /\ adding' = adding /\ newArchive' = newArchive
    BY <1>5, <1>7 DEF StatFile, IsNew, corpus
  <2>2. \A f \in Files : Saved(f)' <=> Saved(f)
    BY <2>1 DEF Saved
  <2>3. CycleIsFresh' /\ OldIsSaved' /\ ClosedIsComplete' /\ NothingListed(d)'
    BY <1>4, <1>5, <2>1, <2>2 DEF SavesAll, CycleIsFresh, OldIsSaved,
       ClosedIsComplete, NothingListed
  <2>4. EveryFileIsDealtWith(d)'
    <3> SUFFICES ASSUME NEW f \in present, ~Saved(f), f \notin Ahead',
                        <<f, mtime[f]>> \notin archive
                 PROVE  /\ newArchive' < mtime[f]
                        /\ \A h \in Ahead' : mtime[h] < mtime[f]
      BY <1>5, <2>1, <2>2 DEF EveryFileIsDealtWith
    <3>1. f # g
      <4>1. CASE g \in present /\ lastArchive < mtime[g]
        <5>1. adding' = g /\ g # NoFile
          BY <2>1, <4>1, RunnerAssumption
        <5> QED BY <5>1 DEF Ahead
      <4>2. CASE ~(lastArchive < mtime[g])
        <5>1. g \in present => Saved(g)
          BY <1>4, <1>5, <2>1, <4>2 DEF SavesAll, OldIsSaved
        <5> QED BY <5>1
      <4> QED BY <4>1, <4>2
    <3>2. Ahead' \subseteq Ahead /\ f \notin Ahead /\ g \in Ahead
      BY <1>5, <2>1, <3>1 DEF Ahead
    <3>3. d \notin toVisit
      BY <1>4, <2>1 DEF TimesArePast
    <3>4. newArchive < mtime[f] /\ \A h \in Ahead : mtime[h] < mtime[f]
      BY <1>4, <2>1, <3>2, <3>3 DEF SavesAll, EveryFileIsDealtWith
    <3>5. newArchive' < mtime[f]
      BY <1>5, <2>1, <3>2, <3>4 DEF Later
    <3> QED BY <3>2, <3>4, <3>5
  <2> QED BY <2>3, <2>4 DEF SavesAll
<1>8. CASE AddFile
  <2>1. /\ pc = "archive" /\ pc' = pc /\ adding # NoFile /\ adding' = NoFile
        /\ UNCHANGED <<cycle, present, mtime, lastArchive, newArchive, toVisit,
                       listed, bucket>>
        /\ archive \subseteq archive'
        /\ adding \in present => <<adding, mtime[adding]>> \in archive'
    BY <1>8 DEF AddFile, corpus
  <2>2. \A f \in Files : Saved(f)' <=> Saved(f)
    BY <2>1 DEF Saved
  <2>3. CycleIsFresh' /\ OldIsSaved' /\ ClosedIsComplete' /\ NothingListed(d)'
    BY <1>4, <1>5, <2>1, <2>2 DEF SavesAll, CycleIsFresh, OldIsSaved,
       ClosedIsComplete, NothingListed
  <2>4. EveryFileIsDealtWith(d)'
    <3>1. Ahead = Ahead' \union {adding}
      BY <2>1 DEF Ahead
    <3> QED
      BY <1>4, <1>5, <2>1, <2>2, <3>1 DEF SavesAll, EveryFileIsDealtWith
  <2> QED BY <2>3, <2>4 DEF SavesAll
<1>9. CASE CloseArchive
  <2>1. /\ pc = "archive" /\ pc' = "upload" /\ adding = NoFile /\ listed = {}
        /\ lastArchive' = newArchive
        /\ UNCHANGED <<cycle, present, mtime, archive, bucket>>
    BY <1>9 DEF CloseArchive, ArchiveTime, corpus, scan
  <2>2. \A f \in Files : Saved(f)' <=> Saved(f)
    BY <2>1 DEF Saved
  <2>3. CycleIsFresh' /\ OldIsSaved' /\ NothingListed(d)'
        /\ EveryFileIsDealtWith(d)'
    BY <1>4, <2>1 DEF SavesAll, CycleIsFresh, OldIsSaved, NothingListed,
       EveryFileIsDealtWith
  <2>4. ClosedIsComplete'
    <3>1. d \notin toVisit /\ Ahead = {}
      BY <1>4, <2>1 DEF TimesArePast, Ahead
    <3> QED
      BY <1>4, <1>5, <2>1, <2>2, <3>1
         DEF SavesAll, EveryFileIsDealtWith, ClosedIsComplete
  <2> QED BY <2>3, <2>4 DEF SavesAll
<1>10. CASE Upload
  <2>1. /\ pc = "upload" /\ pc' \in {"start", "loop"}
        /\ Save /\ UNCHANGED <<cycle, present, mtime, lastArchive>>
    BY <1>3, <1>10 DEF Upload, AfterSync, corpus
  <2>2. cycle \notin DOMAIN bucket /\ \A c \in DOMAIN bucket : c <= cycle
    BY <1>4, <2>1 DEF SavesAll, CycleIsFresh
  <2>3. /\ DOMAIN bucket' = DOMAIN bucket \union {cycle}
        /\ bucket'[cycle] = archive
        /\ \A c \in DOMAIN bucket : bucket'[c] = bucket[c]
    BY <2>1, <2>2, SaveAdds
  <2>4. \A f \in Files :
           Saved(f) \/ <<f, mtime[f]>> \in archive => Saved(f)'
    BY <1>5, <2>1, <2>2, <2>3 DEF Saved
  <2>5. OldIsSaved'
    BY <1>4, <1>5, <2>1, <2>4 DEF SavesAll, ClosedIsComplete, OldIsSaved
  <2>6. CycleIsFresh'
    BY <1>5, <2>1, <2>2, <2>3 DEF CycleIsFresh
  <2> QED
    BY <2>1, <2>5, <2>6 DEF SavesAll, NothingListed, EveryFileIsDealtWith,
       ClosedIsComplete
<1>11. CASE StartFuzzer \/ NextCycle
  <2>1. /\ pc \in {"start", "loop"} /\ pc' \in {"loop", "sleep"}
        /\ cycle' = cycle \/ cycle' = cycle + 1
        /\ pc' = "sleep" => cycle' = cycle + 1
        /\ UNCHANGED <<present, mtime, lastArchive, bucket>>
    BY <1>11 DEF StartFuzzer, NextCycle, corpus
  <2>2. \A f \in Files : Saved(f)' <=> Saved(f)
    BY <2>1 DEF Saved
  <2>3. CycleIsFresh'
    <3>1. \A c \in DOMAIN bucket : c \in Nat /\ c <= cycle
      BY <1>4, <1>5 DEF SavesAll, CycleIsFresh
    <3>2. \A c \in DOMAIN bucket : c <= cycle' /\ c # cycle + 1
      BY <1>5, <2>1, <3>1
    <3> QED BY <2>1, <3>2 DEF CycleIsFresh
  <2>4. OldIsSaved'
    BY <1>4, <1>5, <2>1, <2>2 DEF SavesAll, OldIsSaved
  <2> QED
    BY <2>1, <2>3, <2>4 DEF SavesAll, NothingListed, EveryFileIsDealtWith,
       ClosedIsComplete
<1>12. CASE WakeUp
  BY <1>4, <1>12, ScanBegins DEF WakeUp, ArchiveInvariant, TypeInv
<1>13. ASSUME NEW g \in Files, WriteFile(g) PROVE SavesAll(d)'
  <2>1. /\ UNCHANGED <<pc, cycle, lastArchive, newArchive, toVisit, listed,
                       adding, archive, bucket>>
        /\ present' = present \union {g} /\ mtime[g] = 0
        /\ mtime' = [mtime EXCEPT ![g] = now + 1]
    BY <1>2, <1>13 DEF WriteFile, scan
  <2>2. /\ mtime'[g] = now + 1
        /\ \A f \in Files : f # g => mtime'[f] = mtime[f]
        /\ g \notin present
    BY <1>5, <2>1
  <2>3. \A f \in present : f # g /\ (Saved(f) => Saved(f)')
    BY <1>5, <2>1, <2>2 DEF Saved
  <2>4. Ahead' = Ahead /\ Ahead \subseteq Files /\ g \notin Ahead
    BY <1>4, <1>5, <2>1
       DEF Ahead, TimesArePast, ArchiveInvariant, AddingIsNew
  <2>5. lastArchive <= now /\ (pc \in {"list", "archive"} => newArchive <= now)
    BY <1>4 DEF TimesArePast
  <2>6. CycleIsFresh' /\ NothingListed(d)'
    BY <1>4, <2>1 DEF SavesAll, CycleIsFresh, NothingListed
  <2>7. OldIsSaved'
    BY <1>4, <1>5, <2>1, <2>2, <2>3, <2>5 DEF SavesAll, OldIsSaved
  <2>8. ClosedIsComplete'
    BY <1>4, <1>5, <2>1, <2>2, <2>3, <2>5 DEF SavesAll, ClosedIsComplete
  <2>9. EveryFileIsDealtWith(d)'
    <3> SUFFICES ASSUME pc \in {"list", "archive"}, d \notin toVisit,
                        NEW f \in present', ~Saved(f)', f \notin Ahead,
                        <<f, mtime'[f]>> \notin archive
                 PROVE  /\ newArchive < mtime'[f]
                        /\ \A h \in Ahead : mtime'[h] < mtime'[f]
      BY <2>1, <2>4 DEF EveryFileIsDealtWith
    <3>1. CASE f = g
      BY <1>5, <2>2, <2>4, <2>5, <3>1
    <3>2. CASE f # g
      BY <1>4, <1>5, <2>1, <2>2, <2>3, <2>4, <3>2
         DEF SavesAll, EveryFileIsDealtWith
    <3> QED BY <3>1, <3>2
  <2> QED BY <2>6, <2>7, <2>8, <2>9 DEF SavesAll
<1>14. ASSUME NEW g \in Files, DeleteFile(g) PROVE SavesAll(d)'
  BY <1>4, <1>14, ScanFrame DEF DeleteFile
<1>15. CASE FuzzExits \/ UNCHANGED vars
  BY <1>4, <1>15, ScanFrame DEF FuzzExits, corpus, scan, vars
<1> QED
  BY <1>2, <1>6, <1>7, <1>8, <1>9, <1>10, <1>11, <1>12, <1>13, <1>14, <1>15
     DEF Next, Main, Sync, Fuzzer, Done

(***************************************************************************)
(* "We've saved this file already" holds while the fuzzer runs, if it      *)
(* keeps its files in one directory of the corpus.                         *)
(***************************************************************************)
THEOREM SkippedAreSaved ==
    ASSUME NEW d, FilesAreIn(d)
    PROVE  Spec => []SkippedIsSavedWhileFuzzing
<1>1. Init => ScanInvariant(d)
  <2> SUFFICES ASSUME Init PROVE SavesAll(d)
    BY ArchiveInit, TimesInit DEF ScanInvariant
  <2>1. CycleIsFresh
    BY RunnerAssumption DEF Init, CycleIsFresh, Cycles
  <2>2. OldIsSaved
    BY RunnerAssumption DEF Init, OldIsSaved
  <2>3. NothingListed(d) /\ EveryFileIsDealtWith(d) /\ ClosedIsComplete
    BY DEF Init, NothingListed, EveryFileIsDealtWith, ClosedIsComplete,
           FilesAreIn
  <2> QED BY <2>1, <2>2, <2>3 DEF SavesAll
<1>2. ScanInvariant(d) /\ [Next]_vars => ScanInvariant(d)'
  BY ScanStep
<1>3. ScanInvariant(d) => SkippedIsSavedWhileFuzzing
  BY DEF ScanInvariant, SavesAll, OldIsSaved, Saved, LostFiles,
         SkippedIsSavedWhileFuzzing
<1> QED
  BY <1>1, <1>2, <1>3, PTL DEF Spec

-----------------------------------------------------------------------------
(***************************************************************************)
(* The archives as the measurer sees them.                                 *)
(***************************************************************************)
\* Nothing is in the filestore before its cycle.
NoneIsEarly == TypeOK /\ \A c \in DOMAIN bucket : c <= cycle

LEMMA NoneIsEarlyStep ==
    ASSUME NoneIsEarly, TypeInv, [Next]_vars
    PROVE  NoneIsEarly'
<1>1. TypeOK'
  BY TypeStep DEF TypeInv
<1>2. cycle \in Nat /\ \A c \in DOMAIN bucket : c \in Nat
  BY RunnerAssumption DEF NoneIsEarly, TypeOK, Cycles
<1> SUFFICES \A c \in DOMAIN bucket' : c <= cycle'
  BY <1>1 DEF NoneIsEarly
<1>3. CASE cycle' = cycle /\ (bucket' = bucket \/ Save)
  BY <1>2, <1>3, SaveAdds DEF NoneIsEarly
<1>4. CASE cycle' = cycle + 1 /\ bucket' = bucket
  BY <1>2, <1>4 DEF NoneIsEarly
<1> QED
  BY <1>3, <1>4
  DEF Next, Main, Sync, Fuzzer, Done, vars, ListDirectory, StatFile, AddFile,
      CloseArchive, Upload, UploadFails, StartFuzzer, NextCycle, WakeUp,
      FinalSync, FuzzExits, WriteFile, DeleteFile

\* A step that saves the archive, or gives up on it for good, is one of
\* TrialArchives; all others are not seen.
LEMMA SyncsInOrder ==
    ASSUME NoneIsEarly, [Next]_vars
    PROVE  [Archives!Sync]_<<Synced, DOMAIN bucket>>
<1> USE DEF Synced, Archives!Sync, Archives!Saved, Archives!GivenUp
<1>1. /\ cycle \in Nat /\ cycle <= MaxCycle /\ MaxCycle \in Nat
      /\ cycle + 1 \notin DOMAIN bucket
  BY RunnerAssumption DEF NoneIsEarly, TypeOK, Cycles
<1>2. CASE Upload
  <2>1. /\ DOMAIN bucket' = DOMAIN bucket \union {cycle}
        /\ cycle' = cycle /\ pc = "upload"
    BY <1>2, SaveAdds DEF Upload
  <2> QED BY <1>1, <2>1
<1>3. CASE UploadFails
  <2>1. /\ DOMAIN bucket' \in {DOMAIN bucket, DOMAIN bucket \union {cycle}}
        /\ cycle' = cycle /\ pc = "upload"
    BY <1>3, SaveAdds DEF UploadFails
  <2> QED BY <1>1, <2>1
<1>4. CASE NextCycle
  <2>1. /\ cycle' = cycle + 1 /\ bucket' = bucket
        /\ pc = "loop" /\ pc' = "sleep"
    BY <1>4 DEF NextCycle
  <2> QED BY <1>1, <2>1
<1>5. CASE UNCHANGED <<cycle, bucket>> /\ (pc = "done" <=> pc' = "done")
  BY <1>5
<1> QED
  BY <1>2, <1>3, <1>4, <1>5
  DEF Next, Main, Sync, Fuzzer, Done, vars, ListDirectory, StatFile, AddFile,
      CloseArchive, StartFuzzer, WakeUp, BeginArchive, FinalSync, FuzzExits,
      WriteFile, DeleteFile

(***************************************************************************)
(* Whatever uploads fail, are lost, retried and repeated, the archives of  *)
(* a trial appear in the order of their cycles or never.                   *)
(***************************************************************************)
THEOREM SavesInOrder == Spec => ImplementsArchives
<1>1. Init => TypeInv /\ NoneIsEarly /\ Archives!Init
  BY TypeInit DEF TypeInv, Init, NoneIsEarly, Archives!Init, Synced
<1>2. /\ TypeInv /\ [Next]_vars => TypeInv'
      /\ TypeInv /\ NoneIsEarly /\ [Next]_vars => NoneIsEarly'
      /\ NoneIsEarly /\ [Next]_vars
            => [Archives!Sync]_<<Synced, DOMAIN bucket>>
  BY TypeStep, NoneIsEarlyStep, SyncsInOrder
<1> QED
  BY <1>1, <1>2, PTL DEF Spec, ImplementsArchives, Archives!Spec

-----------------------------------------------------------------------------
(***************************************************************************)
(* The parts side by side: each takes its own steps or none.               *)
(***************************************************************************)
THEOREM EveryPartIsOne == PartSpec => Spec /\ M!Spec /\ T!Spec
<1>1. PartInit => Init /\ M!Init /\ T!Init
  BY DEF PartInit
<1>2. [PartNext]_<<part, vars, loops, measurement>> =>
         [Next]_vars /\ [M!Next]_M!vars /\ [T!Next]_T!vars
  <2>1. UNCHANGED loops => UNCHANGED M!vars
    BY DEF loops, M!vars
  <2>2. UNCHANGED measurement => UNCHANGED T!vars
    BY DEF measurement, T!vars, T!files, T!history
  <2> QED
    BY <2>1, <2>2 DEF PartNext, RunnerOnly, MeasurerOnly, MeasurementOnly
<1> QED BY <1>1, <1>2, PTL DEF PartSpec, Spec, M!Spec, T!Spec

\* The variables of the runner, the measurer and a worker have their types.
THEOREM TypesCorrect == PartSpec => []TypesOK
<1>1. TypeOK /\ M!TypeOK /\ T!TypeOK => TypesOK
  BY DEF TypesOK
<1> QED BY <1>1, EveryPartIsOne, TypeCorrect, M!TypeCorrect, T!TypeCorrect,
           TrialAssumption, PTL

\* When the measurer stops, every trial that counts is measured up to the
\* first archive that is missing, unless a copy failed in its last call.
THEOREM MeasuredAtTheEnd == PartSpec => []MeasuredWhenDone
<1>1. M!MeasuredWhenDone <=> MeasuredWhenDone
  BY DEF MeasuredWhenDone
<1> QED BY <1>1, EveryPartIsOne, M!MeasuredAtTheEnd, TrialAssumption, PTL

\* The snapshots of a trial have no holes.
THEOREM Contiguous == PartSpec => []SnapshotsContiguous
<1>1. M!SnapshotsContiguous <=> SnapshotsContiguous
  BY DEF SnapshotsContiguous
<1> QED BY <1>1, EveryPartIsOne, M!Contiguous, TrialAssumption, PTL

\* No two workers measure one trial.
THEOREM OneWorker == PartSpec => []OneWorkerPerTrial
<1>1. M!OneWorkerPerTrial <=> OneWorkerPerTrial
  BY DEF OneWorkerPerTrial
<1> QED BY <1>1, EveryPartIsOne, M!OneWorker, TrialAssumption, PTL

\* The coverage of a snapshot is that of the archives up to its cycle, without
\* the cycles that failed.
THEOREM CoverageIsRight == PartSpec => []CoverageIsOfArchives
<1>1. T!CoverageIsOfArchives <=> CoverageIsOfArchives
  BY DEF CoverageIsOfArchives
<1> QED BY <1>1, EveryPartIsOne, T!CoverageIsRight, TrialAssumption, PTL

\* A crash belongs to the snapshot of the cycle that found it.
THEOREM CrashesAreRight == PartSpec => []CrashesAreOfCycle
<1>1. T!CrashesAreOfCycle <=> CrashesAreOfCycle
  BY DEF CrashesAreOfCycle
<1> QED BY <1>1, EveryPartIsOne, T!CrashesAreRight, TrialAssumption, PTL

-----------------------------------------------------------------------------
(***************************************************************************)
(* The runner of a trial beside the measurer, which sees what it saved.    *)
(***************************************************************************)
SeenAsSaved(t) ==
    /\ TypeInv /\ NoneIsEarly
    /\ runnerCycle \in [Trials -> Nat] /\ runnerCycle[t] = Synced
    /\ archives \in [Trials -> SUBSET Nat] /\ archives[t] = DOMAIN bucket

\* Unless the runner gave up on an archive, all of them are there.
AllAreSaved ==
    "upload_gap" \notin hit =>
        \A c \in Nat : c < Synced => c \in DOMAIN bucket

\* What the next cycle is called has not been saved.
LEMMA NextIsNotSaved ==
    ASSUME NoneIsEarly
    PROVE  Synced \in Nat /\ Synced \notin DOMAIN bucket
<1>1. cycle \in Nat /\ cycle + 1 \notin DOMAIN bucket
  BY RunnerAssumption DEF NoneIsEarly, TypeOK, Cycles
<1>2. pc = "done" => Synced = cycle + 1
  BY DEF Synced
<1> QED BY <1>1, <1>2 DEF Synced

\* A step of the runner is RunnerStep of Measurer, or not seen.
LEMMA RunnerIsSeen ==
    ASSUME LastCycle = MaxCycle, NEW t \in Trials, SeenAsSaved(t),
           RunnerMoves(t)
    PROVE  /\ M!RunnerStep(t) \/ UNCHANGED M!vars
           /\ SeenAsSaved(t)'
           /\ AllAreSaved => AllAreSaved'
<1>1. [Archives!Sync]_<<Synced, DOMAIN bucket>>
  BY SyncsInOrder DEF SeenAsSaved, RunnerMoves
<1>2. /\ Synced \in Nat /\ Synced \notin DOMAIN bucket /\ Synced' \in Nat
      /\ TypeInv' /\ NoneIsEarly' /\ DOMAIN bucket' \subseteq Nat
  <2>1. TypeInv' /\ NoneIsEarly'
    BY TypeStep, NoneIsEarlyStep DEF SeenAsSaved, RunnerMoves
  <2>2. Synced' \in Nat
    BY <2>1, RunnerAssumption DEF NoneIsEarly, TypeOK, Cycles, Synced
  <2>3. DOMAIN bucket' \subseteq Nat
    BY <2>1, RunnerAssumption DEF NoneIsEarly, TypeOK, Cycles
  <2> QED BY <2>1, <2>2, <2>3, NextIsNotSaved DEF SeenAsSaved
<1>3. /\ runnerCycle' = [runnerCycle EXCEPT ![t] = Synced']
      /\ archives' = [archives EXCEPT ![t] = DOMAIN bucket']
      /\ IF GivesUp THEN M!Gap ELSE hit' = hit
      /\ rows[t].status \in {"pending", "running"}
      /\ UNCHANGED <<rows, snapshots, loop, allEnded, jobs, abandoned,
                     uncopied, queue, batch, saved>>
  BY DEF RunnerMoves
<1>4. SeenAsSaved(t)'
  BY <1>2, <1>3 DEF SeenAsSaved
<1>5. CASE UNCHANGED <<Synced, DOMAIN bucket>>
  <2>1. runnerCycle' = runnerCycle /\ archives' = archives /\ hit' = hit
    BY <1>3, <1>5 DEF SeenAsSaved, GivesUp
  <2>2. UNCHANGED M!vars
    BY <1>3, <2>1 DEF M!vars
  <2>3. AllAreSaved => AllAreSaved'
    BY <1>5, <2>1 DEF AllAreSaved
  <2> QED BY <1>4, <2>2, <2>3
<1>6. CASE Archives!Sync /\ Archives!Saved
  <2>1. /\ Synced' = Synced + 1 /\ Synced <= MaxCycle
        /\ DOMAIN bucket' = DOMAIN bucket \union {Synced} /\ hit' = hit
    BY <1>2, <1>3, <1>6 DEF Archives!Sync, Archives!Saved, GivesUp
  <2>2. M!RunnerStep(t)
    BY <1>3, <2>1 DEF M!RunnerStep, M!pool, SeenAsSaved
  <2>3. AllAreSaved => AllAreSaved'
    BY <1>2, <2>1 DEF AllAreSaved
  <2> QED BY <1>4, <2>2, <2>3
<1>7. CASE Archives!Sync /\ Archives!GivenUp
  <2>1. /\ Synced' = Synced + 1 /\ Synced <= MaxCycle
        /\ DOMAIN bucket' = DOMAIN bucket /\ M!Gap
    BY <1>2, <1>3, <1>7 DEF Archives!Sync, Archives!GivenUp, GivesUp
  <2>2. archives' = archives
    BY <1>3, <2>1 DEF SeenAsSaved
  <2>3. M!RunnerStep(t)
    BY <1>3, <2>1, <2>2 DEF M!RunnerStep, M!pool, SeenAsSaved
  <2>4. "upload_gap" \in hit'
    BY <2>1 DEF M!Gap, M!Recurs, M!Strike
  <2> QED BY <1>4, <2>3, <2>4 DEF AllAreSaved
<1> QED
  BY <1>1, <1>5, <1>6, <1>7 DEF Archives!Sync

\* A step of the measurer, the scheduler or another runner leaves what this
\* one saved alone.
LEMMA OthersAreNotSeen ==
    ASSUME NEW t \in Trials, SeenAsSaved(t), M!MeasurerAssumption, M!TypeOK',
           OthersMove(t)
    PROVE  SeenAsSaved(t)' /\ (AllAreSaved => AllAreSaved')
<1>1. UNCHANGED <<vars, runnerCycle[t], archives[t]>>
  BY DEF OthersMove
<1>2. TypeInv' /\ NoneIsEarly' /\ Synced' = Synced /\ bucket' = bucket
  BY <1>1 DEF SeenAsSaved, TypeInv, TypeOK, Written, NoneIsEarly, Synced, vars
<1>3. hit \subseteq hit'
  BY M!FaultsStay DEF OthersMove
<1>4. runnerCycle' \in [Trials -> Nat] /\ archives' \in [Trials -> SUBSET Nat]
  BY DEF M!TypeOK, M!MeasurerAssumption, M!Cycles
<1> QED
  BY <1>1, <1>2, <1>3, <1>4 DEF SeenAsSaved, AllAreSaved

(***************************************************************************)
(* A runner and the measurer together are a behaviour of each: what        *)
(* Measurer assumes of the runner of a trial, Runner does.                 *)
(***************************************************************************)
THEOREM JointIsEach ==
    ASSUME LastCycle = MaxCycle, NEW t \in Trials
    PROVE  JointSpec(t) => Spec /\ M!Spec /\ [](SeenAsSaved(t) /\ AllAreSaved)
<1> DEFINE Sees == SeenAsSaved(t) /\ AllAreSaved
           Joint == RunnerMoves(t) \/ OthersMove(t)
<1>1. Init /\ M!Init => Sees /\ M!Types
  <2> SUFFICES ASSUME Init, M!Init PROVE Sees /\ M!Types
    OBVIOUS
  <2>1. TypeInv /\ M!Types
    BY TypeInit, M!InvariantInit, TrialAssumption DEF M!MeasurerInvariant
  <2>2. /\ Synced = 0 /\ DOMAIN bucket = {}
        /\ runnerCycle = [u \in Trials |-> 0]
        /\ archives = [u \in Trials |-> {}]
    BY DEF Init, M!Init, Synced
  <2>3. NoneIsEarly
    BY <2>1, <2>2 DEF TypeInv, NoneIsEarly
  <2> QED BY <2>1, <2>2, <2>3 DEF SeenAsSaved, AllAreSaved
<1>2. [Joint]_<<vars, loops>> => [Next]_vars
  BY DEF RunnerMoves, OthersMove
<1>3. Sees /\ M!Types /\ [Joint]_<<vars, loops>>
         => Sees' /\ M!Types' /\ [M!Next]_M!vars
  <2> SUFFICES ASSUME Sees, M!Types, [Joint]_<<vars, loops>>
               PROVE  Sees' /\ M!Types' /\ [M!Next]_M!vars
    OBVIOUS
  <2>1. [M!Next]_M!vars => M!Types' /\ M!TypeOK'
    BY M!TypesStep, TrialAssumption DEF M!Types
  <2>2. CASE RunnerMoves(t)
    <3>1. M!RunnerStep(t) => M!Next
      BY <2>2 DEF RunnerMoves, M!Next, M!World
    <3> QED BY <2>1, <2>2, <3>1, RunnerIsSeen
  <2>3. CASE OthersMove(t)
    <3>1. M!Next
      BY <2>3 DEF OthersMove
    <3> QED BY <2>1, <2>3, <3>1, OthersAreNotSeen, TrialAssumption
  <2>4. CASE UNCHANGED <<vars, loops>>
    <3>1. UNCHANGED M!vars
      BY <2>4 DEF loops, M!vars
    <3>2. Sees'
      BY <2>4 DEF loops, vars, SeenAsSaved, AllAreSaved, TypeInv, TypeOK,
                  Written, NoneIsEarly, Synced
    <3> QED BY <2>1, <3>1, <3>2
  <2> QED BY <2>2, <2>3, <2>4
<1> HIDE DEF Sees, Joint
<1>4. JointSpec(t) <=> Init /\ M!Init /\ [][Joint]_<<vars, loops>>
  BY DEF JointSpec, Joint
<1>5. JointSpec(t) => Spec /\ M!Spec /\ []Sees
  BY <1>1, <1>2, <1>3, <1>4, PTL DEF Spec, M!Spec
<1> QED BY <1>5 DEF Sees

(***************************************************************************)
(* From the corpus to the database: when the measurer stops, the cycle of  *)
(* every archive the runner saved has its snapshot, although the measurer  *)
(* asks which trials have ended while runners still save, and unless its   *)
(* last call could not copy one of them.                                   *)
(***************************************************************************)
THEOREM WhatIsSavedIsMeasured ==
    ASSUME LastCycle = MaxCycle, NEW t \in Trials
    PROVE  JointSpec(t) => []SavedIsMeasured(t)
<1> DEFINE Sees == SeenAsSaved(t) /\ AllAreSaved
<1>1. Sees /\ M!MeasuredWhenDone => SavedIsMeasured(t)
  <2> SUFFICES ASSUME Sees, M!MeasuredWhenDone, loop = "done",
                      hit \subseteq {"copy_fail", "query_raise"},
                      t \in DOMAIN rows \ uncopied, M!Counts(t), NEW c \in DOMAIN bucket
               PROVE  c \in snapshots[t]
    BY DEF SavedIsMeasured
  <2>1. /\ c \in Nat /\ c <= cycle /\ cycle \in Nat /\ c \in 0..LastCycle
        /\ cycle \in DOMAIN bucket => Synced = cycle + 1
        /\ cycle \notin DOMAIN bucket => Synced >= cycle
    BY RunnerAssumption
       DEF SeenAsSaved, NoneIsEarly, TypeOK, Cycles, Synced
  <2>2. c < Synced /\ Synced \in Nat
    BY <2>1, NextIsNotSaved DEF SeenAsSaved
  <2>3. \A d \in 0..c : d \in DOMAIN bucket
    BY <2>1, <2>2 DEF AllAreSaved
  <2>4. 0..c \subseteq archives[t]
    BY <2>3 DEF SeenAsSaved
  <2> QED BY <2>1, <2>4 DEF M!MeasuredWhenDone, M!Cycles
<1> HIDE DEF Sees
<1>2. JointSpec(t) => M!Spec /\ []Sees
  BY JointIsEach DEF Sees
<1> QED BY <1>1, <1>2, M!MeasuredAtTheEnd, TrialAssumption, PTL
=============================================================================
