------------------------------- MODULE Runner -------------------------------
(***************************************************************************)
(* The runner of one trial: src/experiment/runner.py (TrialRunner), with   *)
(* the retries of src/common/retry.py around its uploads.                  *)
(*                                                                         *)
(* The main thread archives the corpus once per cycle and copies the       *)
(* archive to the filestore while, in another thread, the fuzzer goes on   *)
(* writing to the corpus.  An archive holds what was modified since the    *)
(* archive before it, judged by modification times.                        *)
(***************************************************************************)
EXTENDS Naturals

CONSTANTS
    Files,        \* the names of files in the output corpus
    NoFile,       \* "no file is being added"
    Seeds,        \* those that set_up_corpus_directories puts there
    Dirs,         \* the directories os.walk visits one after the other
    DirOf,        \* the directory a file is in
    MaxTime,      \* bound on modification times, one per write
    MaxCycle,     \* the fuzzer is stopped (max_total_time) in this cycle
    NumRetries,   \* NUM_RETRIES
    Disturbances  \* what can happen around the runner, of AllDisturbances

(***************************************************************************)
(*   upload_fail  filestore_utils.cp raises and copied nothing             *)
(*   upload_lost  it raises although the archive was copied                *)
(*   rewrite      the fuzzer writes again to a name it has used            *)
(***************************************************************************)
AllDisturbances == {"upload_fail", "upload_lost", "rewrite"}

ASSUME RunnerAssumption ==
    /\ NoFile \notin Files
    /\ Seeds \subseteq Files
    /\ DirOf \in [Files -> Dirs]
    /\ Dirs # {}
    /\ MaxTime \in Nat \ {0}
    /\ MaxCycle \in Nat \ {0}
    /\ NumRetries \in Nat
    /\ Disturbances \subseteq AllDisturbances

VARIABLES
    pc,           \* where the main thread is
    fuzz,         \* fuzz_thread
    cycle,        \* TrialRunner.cycle
    now,          \* the latest modification time
    present,      \* the files that exist
    mtime,        \* when a file was last written; 0: never
    rewritten,    \* the files written more than once
    lastArchive,  \* last_archive_time; 0 is -inf
    newArchive,   \* new_archive_time, in archive_corpus
    toVisit,      \* directories get_corpus_elements has not listed yet
    listed,       \* files listed and not looked at yet
    adding,       \* the file tar.add is about to read
    archive,      \* the versions <<file, mtime>> in the archive being written
    tries,        \* failed calls of archive_and_save_corpus in this sync
    failed,       \* an upload has failed before
    bucket        \* the archives in the filestore: cycle -> its versions

corpus == <<present, mtime, rewritten, now>>
scan == <<newArchive, toVisit, listed, adding, archive>>
vars == <<pc, fuzz, cycle, now, present, mtime, rewritten, lastArchive,
          newArchive, toVisit, listed, adding, archive, tries, failed, bucket>>

Cycles == 0..MaxCycle
Versions == Files \X (1..MaxTime)

-----------------------------------------------------------------------------
\* conduct_trial up to the first do_sync: the corpus is the seeds.
Init ==
    /\ pc = "list"
    /\ fuzz = "unstarted"
    /\ cycle = 0
    /\ now = 1
    /\ present = Seeds
    /\ mtime = [f \in Files |-> IF f \in Seeds THEN 1 ELSE 0]
    /\ rewritten = {}
    /\ lastArchive = 0
    /\ newArchive = 0
    /\ toVisit = Dirs
    /\ listed = {}
    /\ adding = NoFile
    /\ archive = {}
    /\ tries = 0
    /\ failed = FALSE
    /\ bucket = [c \in {} |-> {}]

\* A call of archive_corpus: it opens the archive (mode 'w:gz', an older one
\* of the same name is lost) and begins to list the corpus.
BeginArchive ==
    /\ pc' = "list"
    /\ newArchive' = lastArchive
    /\ toVisit' = Dirs
    /\ listed' = {}
    /\ adding' = NoFile
    /\ archive' = {}

\* get_corpus_elements lists one more directory.
ListDirectory(d) ==
    /\ pc = "list"
    /\ d \in toVisit
    /\ toVisit' = toVisit \ {d}
    /\ listed' = listed \union {f \in present : DirOf[f] = d}
    /\ pc' = IF toVisit = {d} THEN "archive" ELSE "list"
    /\ UNCHANGED <<fuzz, cycle, corpus, lastArchive, newArchive, adding,
                   archive, tries, failed, bucket>>

IsNew(f) == mtime[f] > lastArchive

Later(time, other) == IF time < other THEN other ELSE time

\* The body of archive_corpus' loop up to tar.add: a listed file may be gone
\* by now, an old one is skipped.
StatFile(f) ==
    /\ pc = "archive"
    /\ adding = NoFile
    /\ f \in listed
    /\ listed' = listed \ {f}
    /\ IF f \in present /\ IsNew(f)
       THEN adding' = f /\ newArchive' = Later(newArchive, mtime[f])
       ELSE UNCHANGED <<adding, newArchive>>
    /\ UNCHANGED <<pc, fuzz, cycle, corpus, lastArchive, toVisit, archive,
                   tries, failed, bucket>>

\* tar.add reads the file as it is by then, if it still is there.
AddFile ==
    /\ pc = "archive"
    /\ adding # NoFile
    /\ archive' = IF adding \in present
                  THEN archive \union {<<adding, mtime[adding]>>} ELSE archive
    /\ adding' = NoFile
    /\ UNCHANGED <<pc, fuzz, cycle, corpus, lastArchive, newArchive, toVisit,
                   listed, tries, failed, bucket>>

\* Mutant of ArchiveTime: last_archive_time stays as it is.
ArchiveTime_Forgotten == lastArchive

\* Mutant of ArchiveTime: the time when the archive is closed.
ArchiveTime_Now == now

\* self.last_archive_time = new_archive_time
ArchiveTime == newArchive

\* The end of archive_corpus.
CloseArchive ==
    /\ pc = "archive"
    /\ adding = NoFile
    /\ listed = {}
    /\ lastArchive' = ArchiveTime
    /\ pc' = "upload"
    /\ UNCHANGED <<fuzz, cycle, corpus, scan, tries, failed, bucket>>

\* What follows do_sync in conduct_trial: the fuzzer is started, the loop
\* tests whether it is alive, or the final sync is over.
AfterSync ==
    IF fuzz = "unstarted" THEN "start" ELSE IF fuzz = "joined" THEN "done"
    ELSE "loop"

\* Mutant of Save: the trial's directory is replaced, with what it has.
Save_Alone == bucket' = [c \in {cycle} |-> archive]

\* save_corpus_archive copies the archive: its name holds only the cycle.
Save == bucket' = [c \in DOMAIN bucket \union {cycle} |->
                    IF c = cycle THEN archive ELSE bucket[c]]

\* archive_and_save_corpus and save_results return.
Upload ==
    /\ pc = "upload"
    /\ Save
    /\ tries' = 0
    /\ pc' = AfterSync
    /\ UNCHANGED <<fuzz, cycle, corpus, lastArchive, scan, failed>>

\* Mutant of NextTry: failures are not counted.
NextTry_Same == tries

NextTry == tries + 1

\* Mutant of TriesLeft: one more.
TriesLeft_Plus == tries <= NumRetries

\* retry.wrap: NUM_RETRIES calls after the first.
TriesLeft == tries < NumRetries

\* The copy raises: archive_and_save_corpus is called again, all of it, or
\* do_sync swallows the exception of the last try.
UploadFails ==
    /\ pc = "upload"
    /\ \/ "upload_fail" \in Disturbances /\ bucket' = bucket
       \/ "upload_lost" \in Disturbances /\ Save
    /\ failed' = TRUE
    /\ IF TriesLeft
       THEN tries' = NextTry /\ BeginArchive
       ELSE tries' = 0 /\ pc' = AfterSync /\ UNCHANGED scan
    /\ UNCHANGED <<fuzz, cycle, corpus, lastArchive>>

-----------------------------------------------------------------------------
StartFuzzer ==
    /\ pc = "start"
    /\ fuzz' = "running"
    /\ pc' = "loop"
    /\ UNCHANGED <<cycle, corpus, lastArchive, scan, tries, failed, bucket>>

\* while fuzz_thread.is_alive(): the next cycle begins, with a sleep.
NextCycle ==
    /\ pc = "loop"
    /\ fuzz = "running"
    /\ cycle < MaxCycle
    /\ cycle' = cycle + 1
    /\ pc' = "sleep"
    /\ UNCHANGED <<fuzz, corpus, lastArchive, scan, tries, failed, bucket>>

WakeUp ==
    /\ pc = "sleep"
    /\ BeginArchive
    /\ UNCHANGED <<fuzz, cycle, corpus, lastArchive, tries, failed, bucket>>

\* The loop ends and the final sync begins, in the cycle of the sync before.
\* "joined" is a fuzz_thread that is known to have ended.
FinalSync ==
    /\ pc = "loop"
    /\ fuzz = "exited"
    /\ fuzz' = "joined"
    /\ BeginArchive
    /\ UNCHANGED <<cycle, corpus, lastArchive, tries, failed, bucket>>

\* run_fuzzer returns: the fuzzer ended, failed or was stopped.
FuzzExits ==
    /\ fuzz = "running"
    /\ fuzz' = "exited"
    /\ UNCHANGED <<pc, cycle, corpus, lastArchive, scan, tries, failed,
                   bucket>>

\* The fuzzer writes to a file: a later write has a later time.
WriteFile(f) ==
    /\ fuzz = "running"
    /\ now < MaxTime
    /\ mtime[f] # 0 => "rewrite" \in Disturbances
    /\ now' = now + 1
    /\ present' = present \union {f}
    /\ mtime' = [mtime EXCEPT ![f] = now + 1]
    /\ rewritten' = IF mtime[f] = 0 THEN rewritten ELSE rewritten \union {f}
    /\ UNCHANGED <<pc, fuzz, cycle, lastArchive, scan, tries, failed, bucket>>

\* The fuzzer removes a file (corpus minimisation, a temporary file).
DeleteFile(f) ==
    /\ fuzz = "running"
    /\ f \in present
    /\ present' = present \ {f}
    /\ UNCHANGED <<pc, fuzz, cycle, now, mtime, rewritten, lastArchive, scan,
                   tries, failed, bucket>>

Sync ==
    \/ \E d \in Dirs : ListDirectory(d)
    \/ \E f \in Files : StatFile(f)
    \/ AddFile
    \/ CloseArchive
    \/ Upload
    \/ UploadFails

Main == Sync \/ StartFuzzer \/ NextCycle \/ WakeUp \/ FinalSync

Fuzzer == FuzzExits \/ \E f \in Files : WriteFile(f) \/ DeleteFile(f)

\* The trial is over.
Done == pc = "done" /\ UNCHANGED vars

Next == Main \/ Fuzzer \/ Done

Spec == Init /\ [][Next]_vars

\* The main thread goes on; the fuzzer is stopped after max_total_time.
FairSpec == Spec /\ WF_vars(Main) /\ WF_vars(FuzzExits)

-----------------------------------------------------------------------------
TypeOK ==
    /\ pc \in {"list", "archive", "upload", "start", "loop", "sleep", "done"}
    /\ fuzz \in {"unstarted", "running", "exited", "joined"}
    /\ cycle \in Cycles
    /\ now \in 1..MaxTime
    /\ present \subseteq Files
    /\ mtime \in [Files -> 0..MaxTime]
    /\ rewritten \subseteq Files
    /\ lastArchive \in 0..MaxTime
    /\ newArchive \in 0..MaxTime
    /\ toVisit \subseteq Dirs
    /\ listed \subseteq Files
    /\ adding \in Files \union {NoFile}
    /\ archive \subseteq Versions
    /\ tries \in 0..NumRetries
    /\ failed \in BOOLEAN
    /\ DOMAIN bucket \subseteq Cycles
    /\ bucket \in [DOMAIN bucket -> SUBSET Versions]

(***************************************************************************)
(* No element is handed to the measurer twice: the archives of different   *)
(* cycles have no version of a file in common, whatever uploads failed,    *)
(* were retried or arrived although they seemed to fail.  A file that is   *)
(* written again between os.stat and tar.add is the exception.             *)
(***************************************************************************)
ArchivedOnce ==
    \A c, d \in DOMAIN bucket : \A v \in bucket[c] \intersect bucket[d] :
        c = d \/ v[1] \in rewritten

\* Files that archive_corpus will never look at again and that are in no
\* archive of the filestore.
LostFiles ==
    {f \in present : /\ mtime[f] <= lastArchive
                     /\ \A c \in DOMAIN bucket :
                          <<f, mtime[f]>> \notin bucket[c]}

(***************************************************************************)
(* "We've saved this file already": between two syncs, a file the next     *)
(* archive would skip is in the filestore, in one archive or another,      *)
(* unless an upload failed.  This is the case of files written once, while *)
(* the fuzzer runs.                                                        *)
(***************************************************************************)
SkippedIsSavedWhileFuzzing ==
    (pc = "sleep" /\ fuzz = "running" /\ ~failed /\ rewritten = {})
        => LostFiles = {}

(***************************************************************************)
(* The same promise at the end of the trial.                               *)
(***************************************************************************)
SkippedIsSaved ==
    (pc = "done" /\ ~failed /\ rewritten = {}) => LostFiles = {}

(***************************************************************************)
(* To the measurer the archives appear in the order of their cycles,       *)
(* although uploads fail after they were done, are retried and, by the     *)
(* final sync, repeated: the runner implements TrialArchives.  A cycle is  *)
(* over for it when its archive is there or the next cycle has begun.      *)
(***************************************************************************)
Synced == IF cycle \in DOMAIN bucket \/ pc = "done" THEN cycle + 1 ELSE cycle

Archives == INSTANCE TrialArchives
                WITH synced <- Synced, archives <- DOMAIN bucket

ImplementsArchives == Archives!Spec

(***************************************************************************)
(* conduct_trial returns although every upload may fail: retries are       *)
(* limited and do_sync swallows the last exception.                        *)
(***************************************************************************)
RunnerEnds == <>(pc = "done")
=============================================================================
