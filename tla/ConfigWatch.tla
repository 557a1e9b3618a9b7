----------------------------- MODULE ConfigWatch -----------------------------
(***************************************************************************)
(* The configuration watcher: it is told of writes to config.yaml and      *)
(* models.json, waits until they settle, and reloads unless the bytes on   *)
(* disk are those it last committed.  The user writes the file at any      *)
(* time, POST /reload loads it independently of the watcher, and loading a *)
(* file whose secret is in plain text writes the file back with the secret *)
(* hashed, which the watcher is told of like of any other write.           *)
(*                                                                         *)
(* What is on disk is the content of the two files and the form the secret *)
(* has there: plain, or hashed with some salt.  The fingerprint of the     *)
(* files tells any two of these apart.  The lock and the scans of a reload *)
(* are those of ConfigSnapshot; here a reload is one job at a time that    *)
(* reads, perhaps writes back, and publishes or fails.                     *)
(***************************************************************************)
EXTENDS Naturals, FiniteSets

CONSTANTS
  Contents,      \* what the files can hold, apart from the secret
  Empty,         \* the content of an empty config.yaml
  Malformed,     \* contents that do not parse
  Invalid,       \* contents that parse and are refused later
  StartContent,  \* the content the process was started with
  Plain,         \* a secret in plain text
  Salts,         \* the salts of a hashed secret; reused when none is left
  SaveAtStart,   \* whether the user may save before the watcher is up
  MaxSaves,      \* bound on the saves of the user
  MaxPosts       \* bound on the calls of POST /reload

Refused == {Empty} \cup Malformed \cup Invalid

ASSUME ContentsAssumption ==
  /\ Refused \subseteq Contents
  /\ StartContent \in Contents \ Refused

ASSUME SecretAssumption == Plain \notin Salts /\ Cardinality(Salts) > 2

ASSUME BoundsAssumption ==
  SaveAtStart \in BOOLEAN /\ MaxSaves \in Nat /\ MaxPosts \in Nat

VARIABLES
  disk,      \* the watched files
  snapshot,  \* the content of the published configuration
  watcher,   \* the watcher task
  notices,   \* notifications under way to the watcher
  queued,    \* whether any has arrived and is not yet received
  job,       \* the reload that holds the reload lock
  others,    \* whether anybody but the watcher wrote since it last loaded
  saves, posts

vars == <<disk, snapshot, watcher, notices, queued, job, others, saves, posts>>

Files == [content : Contents, secret : Salts \cup {Plain}]
NoJob == [by |-> "none", pc |-> "none"]
Jobs == {NoJob} \cup [by : {"watcher", "post"}, pc : {"hash", "scan"},
                      read : Files]
Watchers == [pc : {"starting", "watching", "idle", "debounce", "decide",
                   "reload", "loading", "commit"},
             last : Files, found : Files, published : BOOLEAN]
-----------------------------------------------------------------------------
Init ==
  /\ \E salt \in Salts : disk = [content |-> StartContent, secret |-> salt]
  /\ snapshot = StartContent
  /\ watcher = [pc |-> "starting", last |-> disk, found |-> disk,
                published |-> TRUE]
  /\ notices = 0
  /\ queued = FALSE
  /\ job = NoJob
  /\ others = FALSE
  /\ saves = 0
  /\ posts = 0

\* A write is noticed once the directory is watched.
Write(files) ==
  /\ disk' = files
  /\ notices' = IF watcher.pc = "starting" THEN notices ELSE notices + 1

\* The user saves another content, with the secret as it is or in plain text.
Save(c, secret) ==
  /\ saves < MaxSaves
  /\ SaveAtStart \/ watcher.pc \notin {"starting", "watching"}
  /\ secret \in {disk.secret, Plain}
  /\ [content |-> c, secret |-> secret] # disk
  /\ Write([content |-> c, secret |-> secret])
  /\ saves' = saves + 1
  /\ others' = TRUE
  /\ UNCHANGED <<snapshot, watcher, queued, job, posts>>

\* A notification crosses the bridge thread into the channel of the watcher.
Deliver ==
  /\ notices > 0
  /\ notices' = notices - 1
  /\ queued' = TRUE
  /\ UNCHANGED <<disk, snapshot, watcher, job, others, saves, posts>>
-----------------------------------------------------------------------------
(***************************************************************************)
(* run_config_watcher                                                      *)
(***************************************************************************)
WatchDirectories ==
  /\ watcher.pc = "starting"
  /\ watcher' = [watcher EXCEPT !.pc = "watching"]
  /\ UNCHANGED <<disk, snapshot, notices, queued, job, others, saves, posts>>

FirstFingerprint ==
  /\ watcher.pc = "watching"
  /\ watcher' = [watcher EXCEPT !.pc = "idle", !.last = disk]
  /\ others' = FALSE
  /\ UNCHANGED <<disk, snapshot, notices, queued, job, saves, posts>>

Receive ==
  /\ watcher.pc = "idle"
  /\ queued
  /\ watcher' = [watcher EXCEPT !.pc = "debounce"]
  /\ UNCHANGED <<disk, snapshot, notices, queued, job, others, saves, posts>>

\* After the pause whatever else has arrived is thrown away.
Drain ==
  /\ watcher.pc = "debounce"
  /\ queued' = FALSE
  /\ watcher' = [watcher EXCEPT !.pc = "decide"]
  /\ UNCHANGED <<disk, snapshot, notices, job, others, saves, posts>>

\* An empty file is a save in two steps, and the same bytes need no reload.
decide_reload ==
  /\ watcher.pc = "decide"
  /\ watcher' = IF disk.content = Empty \/ disk = watcher.last
                THEN [watcher EXCEPT !.pc = "idle"]
                ELSE [watcher EXCEPT !.pc = "reload", !.found = disk]
  /\ UNCHANGED <<disk, snapshot, notices, queued, job, others, saves, posts>>

\* Mutant: the fingerprint that led to the reload is committed.
CommitHashFound ==
  /\ watcher.pc = "commit"
  /\ watcher' = [watcher EXCEPT
                   !.pc = "idle",
                   !.last = IF watcher.published THEN watcher.found
                            ELSE watcher.last]
  /\ UNCHANGED <<disk, snapshot, notices, queued, job, others, saves, posts>>

\* Mutant: what arrived during the reload is taken for its own write-back.
CommitHashDrains ==
  /\ watcher.pc = "commit"
  /\ watcher' = [watcher EXCEPT
                   !.pc = "idle",
                   !.last = IF watcher.published THEN disk ELSE watcher.last]
  /\ queued' = FALSE
  /\ UNCHANGED <<disk, snapshot, notices, job, others, saves, posts>>

\* What is committed is what is on disk now, a write-back included; after a
\* reload that published nothing the old fingerprint stays.
CommitHash ==
  /\ watcher.pc = "commit"
  /\ watcher' = [watcher EXCEPT
                   !.pc = "idle",
                   !.last = IF watcher.published THEN disk ELSE watcher.last]
  /\ UNCHANGED <<disk, snapshot, notices, queued, job, others, saves, posts>>
-----------------------------------------------------------------------------
(***************************************************************************)
(* A reload, by the watcher or by POST /reload.                            *)
(***************************************************************************)
\* Where the caller goes on when its reload has ended.
Return(by, published) ==
  watcher' = IF by = "watcher"
             THEN [watcher EXCEPT !.pc = "commit", !.published = published]
             ELSE watcher

\* Mutant: a secret that is hashed already is hashed again.
LoadHashesAgain(by) ==
  IF disk.content \in {Empty} \cup Malformed
  THEN /\ job' = NoJob
       /\ Return(by, FALSE)
  ELSE /\ job' = [by |-> by, read |-> disk, pc |-> "hash"]
       /\ watcher' = IF by = "watcher"
                     THEN [watcher EXCEPT !.pc = "loading"]
                     ELSE watcher

\* Config::load reads the file; one that does not parse ends the reload, and
\* a plain secret is hashed, which takes a while.
Load(by) ==
  IF disk.content \in {Empty} \cup Malformed
  THEN /\ job' = NoJob
       /\ Return(by, FALSE)
  ELSE /\ job' = [by |-> by, read |-> disk,
                  pc |-> IF disk.secret = Plain THEN "hash" ELSE "scan"]
       /\ watcher' = IF by = "watcher"
                     THEN [watcher EXCEPT !.pc = "loading"]
                     ELSE watcher

WatcherLoad ==
  /\ watcher.pc = "reload"
  /\ job = NoJob
  /\ Load("watcher")
  /\ others' = FALSE
  /\ UNCHANGED <<disk, snapshot, notices, queued, saves, posts>>

PostLoad ==
  /\ posts < MaxPosts
  /\ posts' = posts + 1
  /\ job = NoJob
  /\ Load("post")
  /\ UNCHANGED <<disk, snapshot, notices, queued, others, saves>>

\* The file is written as it was read, with the hash in place of the secret.
persist_secret ==
  /\ job.pc = "hash"
  /\ \E salt \in Salts \ {disk.secret, watcher.last.secret} :
       Write([content |-> job.read.content, secret |-> salt])
  /\ job' = [job EXCEPT !.pc = "scan"]
  /\ others' = (others \/ job.by = "post")
  /\ UNCHANGED <<snapshot, watcher, queued, saves, posts>>

\* The scans are over: the snapshot is replaced, or stays as it was.
EndReload ==
  /\ job.pc = "scan"
  /\ snapshot' = IF job.read.content \in Invalid THEN snapshot
                 ELSE job.read.content
  /\ Return(job.by, job.read.content \notin Invalid)
  /\ job' = NoJob
  /\ UNCHANGED <<disk, notices, queued, others, saves, posts>>

\* The client of POST /reload disconnects and the handler is dropped.
AbandonPost ==
  /\ job.by = "post"
  /\ job.pc = "scan"
  /\ job' = NoJob
  /\ UNCHANGED <<disk, snapshot, watcher, notices, queued, others, saves,
                 posts>>
-----------------------------------------------------------------------------
Watch == WatchDirectories \/ FirstFingerprint \/ Receive \/ Drain
           \/ decide_reload \/ WatcherLoad \/ CommitHash

Next ==
  \/ \E c \in Contents, secret \in Salts \cup {Plain} : Save(c, secret)
  \/ Deliver
  \/ Watch
  \/ PostLoad
  \/ persist_secret
  \/ EndReload
  \/ AbandonPost

\* Threads and tasks that can go on do; nobody has to save or to call.
Fairness ==
  /\ WF_vars(Deliver)
  /\ WF_vars(Watch)
  /\ WF_vars(persist_secret \/ EndReload)

Spec == Init /\ [][Next]_vars /\ Fairness
-----------------------------------------------------------------------------
\* Every variable holds a value the program can give it.
TypeOK ==
  /\ disk \in Files
  /\ snapshot \in Contents \ Refused
  /\ watcher \in Watchers
  /\ notices \in Nat
  /\ queued \in BOOLEAN
  /\ job \in Jobs
  /\ others \in BOOLEAN
  /\ saves \in 0..MaxSaves
  /\ posts \in 0..MaxPosts

AtRest == watcher.pc = "idle" /\ notices = 0 /\ ~queued

\* No write is overlooked: when nothing is under way any more, the watcher has
\* committed exactly what is on disk, or it could not be loaded.
NoWriteOverlooked ==
  AtRest => disk = watcher.last \/ disk.content \in Refused

\* The watcher does not chase what its own reload wrote back.  After a reload
\* that published it starts another only if somebody else has written since it
\* loaded.  After a refused one the old fingerprint stays, and what was written
\* back is loaded again when its notification comes; but a load to which nobody
\* else's write has led finds no secret to write back, so that ends there.
NoReloadForOwnWriteBack ==
  [][/\ watcher'.pc = "reload" /\ watcher.pc # "reload"
          => others \/ ~watcher.published
     /\ watcher.pc = "reload" /\ watcher'.pc = "loading" /\ job'.pc = "hash"
          => others]_vars

\* Write-backs and refused contents do not keep the watcher busy for ever.
WatcherSettles == <>[]AtRest

\* Saving is reloading: when the watcher is at rest, a loadable content on disk
\* is the one in force.
SavedIsLoaded ==
  AtRest /\ disk.content \notin Refused => snapshot = disk.content
=============================================================================
