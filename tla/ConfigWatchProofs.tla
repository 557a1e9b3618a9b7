-------------------------- MODULE ConfigWatchProofs --------------------------
(***************************************************************************)
(* Proofs about the configuration watcher: for any contents and salts, any *)
(* number of saves and of calls of POST /reload.                           *)
(***************************************************************************)
EXTENDS ConfigWatch, TLAPS

\* A notification is on its way to the watcher, or waits for it.
Pending == notices > 0 \/ queued

\* The files were committed, or could not be loaded, or the watcher will hear
\* of them.
Known == disk = watcher.last \/ disk.content \in Refused \/ Pending

\* A reload that publishes nothing has read what cannot be loaded; if that is
\* not on disk any more, it was written over and the watcher will hear of it.
WritesKnown ==
  /\ watcher.pc = "idle" => Known
  /\ watcher.pc = "loading" /\ job.read.content \in Invalid
       => disk.content \in Refused \/ Pending
  /\ watcher.pc = "commit" /\ ~watcher.published
       => disk.content \in Refused \/ Pending

\* After a reload that published the watcher has what is on disk unless somebody
\* else has written since.
OwnWritesCommitted ==
  watcher.pc \in {"idle", "debounce", "decide"} /\ watcher.published
    => others \/ disk = watcher.last

\* A plain secret that could be loaded was written by somebody else since the
\* watcher last loaded, or was there when it began to watch, or is what it is
\* loading now and will write over.
PlainIsNew ==
  disk.secret = Plain /\ disk.content \notin {Empty} \cup Malformed
    => \/ others
       \/ watcher.pc \in {"starting", "watching"}
       \/ watcher.pc \in {"idle", "debounce", "decide"} /\ disk = watcher.last
       \/ watcher.pc = "loading" /\ job.pc = "hash"

\* What a reload goes on with does parse.
Parsed == job.pc # "none" => job.read.content \notin {Empty} \cup Malformed

WatchInv ==
  /\ TypeOK
  /\ Parsed
  /\ job.by = "watcher" <=> watcher.pc = "loading"
  /\ WritesKnown
  /\ OwnWritesCommitted
  /\ PlainIsNew
-----------------------------------------------------------------------------
(***************************************************************************)
(* Types.                                                                  *)
(***************************************************************************)
LEMMA JobShape ==
  ASSUME NEW j \in Jobs
  PROVE  /\ j.pc \in {"none", "hash", "scan"}
         /\ j.pc = "none" => j = NoJob
         /\ j # NoJob => /\ j \in [by : {"watcher", "post"}, pc : {"hash", "scan"}, read : Files]
                         /\ j.by \in {"watcher", "post"} /\ j.pc \in {"hash", "scan"}
                         /\ j.read \in Files /\ j.read.content \in Contents
         /\ NoJob.by = "none" /\ NoJob.pc = "none"
BY DEF Jobs, NoJob, Files

LEMMA FilesShape ==
  ASSUME TypeOK
  PROVE  /\ disk.content \in Contents /\ disk.secret \in Salts \cup {Plain}
         /\ watcher \in Watchers /\ notices \in Nat
         /\ watcher.last \in Files /\ watcher.published \in BOOLEAN
BY DEF TypeOK, Files, Watchers

LEMMA InitInv == Init => WatchInv
<1> SUFFICES ASSUME Init PROVE WatchInv
  OBVIOUS
<1>1. PICK salt \in Salts : disk = [content |-> StartContent, secret |-> salt]
  BY DEF Init
<1>2. disk \in Files /\ StartContent \in Contents \ Refused
  BY <1>1, ContentsAssumption DEF Files
<1>3. /\ watcher = [pc |-> "starting", last |-> disk, found |-> disk, published |-> TRUE]
      /\ snapshot = StartContent /\ notices = 0 /\ queued = FALSE /\ job = NoJob
      /\ others = FALSE /\ saves = 0 /\ posts = 0
  BY DEF Init
<1>4. watcher \in Watchers /\ watcher.pc = "starting"
  BY <1>2, <1>3 DEF Watchers
<1>5. job \in Jobs /\ job.by = "none" /\ job.pc = "none"
  BY <1>3 DEF Jobs, NoJob
<1>6. notices \in Nat /\ saves \in 0..MaxSaves /\ posts \in 0..MaxPosts
  BY <1>3, BoundsAssumption
<1>7. queued \in BOOLEAN /\ others \in BOOLEAN
  BY <1>3
<1>8. TypeOK
  BY <1>2, <1>3, <1>4, <1>5, <1>6, <1>7 DEF TypeOK
<1>9. QED
  BY <1>3, <1>4, <1>5, <1>8
     DEF WatchInv, Parsed, WritesKnown, OwnWritesCommitted, PlainIsNew
-----------------------------------------------------------------------------
(***************************************************************************)
(* Writes.                                                                 *)
(***************************************************************************)
\* A write the watcher cannot miss, but for those before it watches.
LEMMA WriteKeepsKnown ==
  ASSUME WatchInv, NEW files \in Files, Write(files), UNCHANGED <<watcher, queued>>,
         job'.read = job.read
  PROVE  /\ disk' \in Files /\ notices' \in Nat
         /\ WritesKnown'
<1>1. disk' = files /\ notices' \in Nat /\ watcher' = watcher
  BY FilesShape DEF WatchInv, Write
<1>2. watcher.pc # "starting" => Pending'
  BY FilesShape DEF WatchInv, Write, Pending
<1>3. QED
  BY <1>1, <1>2 DEF WritesKnown, Known

LEMMA SaveKeepsInv ==
  ASSUME WatchInv, NEW c \in Contents, NEW secret \in Salts \cup {Plain}, Save(c, secret)
  PROVE  WatchInv'
<1> DEFINE files == [content |-> c, secret |-> secret]
<1>1. /\ files \in Files /\ Write(files) /\ others' = TRUE
      /\ UNCHANGED <<snapshot, watcher, queued, job, posts>>
      /\ saves < MaxSaves /\ saves' = saves + 1
  BY DEF Save, Files
<1> HIDE DEF files
<1>2. disk' \in Files /\ notices' \in Nat /\ WritesKnown'
  BY <1>1, WriteKeepsKnown
<1>3. saves' \in 0..MaxSaves
  BY <1>1, BoundsAssumption DEF WatchInv, TypeOK
<1>4. TypeOK'
  BY <1>1, <1>2, <1>3 DEF WatchInv, TypeOK
<1>5. QED
  BY <1>1, <1>2, <1>4 DEF WatchInv, Parsed, OwnWritesCommitted, PlainIsNew

\* What is written back is hashed; what the watcher's own reload writes back comes
\* before its commit.
LEMMA PersistKeepsInv ==
  ASSUME WatchInv, persist_secret
  PROVE  WatchInv'
<1>1. PICK salt \in Salts : Write([content |-> job.read.content, secret |-> salt])
  BY DEF persist_secret
<1> DEFINE files == [content |-> job.read.content, secret |-> salt]
<1>2. /\ job.pc = "hash" /\ job' = [job EXCEPT !.pc = "scan"]
      /\ others' = (others \/ job.by = "post")
      /\ UNCHANGED <<snapshot, watcher, queued, saves, posts>>
  BY DEF persist_secret
<1>3. /\ job # NoJob /\ job.by \in {"watcher", "post"} /\ job.read.content \in Contents
      /\ job \in [by : {"watcher", "post"}, pc : {"hash", "scan"}, read : Files]
  BY <1>2, JobShape DEF WatchInv, TypeOK
<1>4. /\ job' \in [by : {"watcher", "post"}, pc : {"hash", "scan"}, read : Files]
      /\ job'.by = job.by /\ job'.read = job.read
  BY <1>2, <1>3
<1>5. files \in Files
  BY <1>3 DEF Files
<1> HIDE DEF files
<1>6. disk' \in Files /\ notices' \in Nat /\ WritesKnown'
  BY <1>1, <1>2, <1>4, <1>5, WriteKeepsKnown DEF files
<1>7. TypeOK'
  BY <1>2, <1>4, <1>6 DEF WatchInv, TypeOK, Jobs
<1>8. OwnWritesCommitted'
  <2>1. CASE job.by = "post"
    BY <1>2, <2>1 DEF OwnWritesCommitted
  <2>2. CASE job.by = "watcher"
    BY <1>2, <2>2 DEF WatchInv, OwnWritesCommitted
  <2>3. QED
    BY <1>3, <2>1, <2>2
<1>9. PlainIsNew'
  BY <1>1, SecretAssumption DEF Write, PlainIsNew
<1>10. QED
  BY <1>2, <1>4, <1>6, <1>7, <1>8, <1>9 DEF WatchInv, Parsed
-----------------------------------------------------------------------------
(***************************************************************************)
(* run_config_watcher.                                                     *)
(***************************************************************************)
\* The watcher goes on to a state in which it has nothing to show yet.
LEMMA WatcherType ==
  ASSUME TypeOK, NEW pc \in {"starting", "watching", "idle", "debounce", "decide",
                             "reload", "loading", "commit"},
         NEW last \in Files, NEW found \in Files, NEW published \in BOOLEAN
  PROVE  /\ [watcher EXCEPT !.pc = pc, !.last = last, !.found = found,
                            !.published = published] \in Watchers
         /\ [watcher EXCEPT !.pc = pc, !.last = last] \in Watchers
         /\ [watcher EXCEPT !.pc = pc, !.found = found] \in Watchers
         /\ [watcher EXCEPT !.pc = pc, !.published = published] \in Watchers
         /\ [watcher EXCEPT !.pc = pc] \in Watchers
BY FilesShape DEF Watchers

LEMMA DeliverKeepsInv ==
  ASSUME WatchInv, Deliver
  PROVE  WatchInv'
<1>1. /\ notices > 0 /\ notices' = notices - 1 /\ queued' = TRUE
      /\ UNCHANGED <<disk, snapshot, watcher, job, others, saves, posts>>
  BY DEF Deliver
<1>2. TypeOK'
  BY <1>1 DEF WatchInv, TypeOK
<1>3. QED
  BY <1>1, <1>2
     DEF WatchInv, Parsed, WritesKnown, Known, Pending, OwnWritesCommitted, PlainIsNew

LEMMA WatchKeepsInv ==
  ASSUME WatchInv,
         WatchDirectories \/ FirstFingerprint \/ Receive \/ Drain \/ decide_reload
  PROVE  WatchInv'
<1>1. /\ TypeOK /\ watcher \in Watchers /\ disk \in Files
      /\ watcher.last \in Files /\ watcher.found \in Files
  BY DEF WatchInv, TypeOK, Watchers
<1>2. CASE WatchDirectories
  <2>1. /\ watcher' = [watcher EXCEPT !.pc = "watching"] /\ watcher.pc = "starting"
        /\ UNCHANGED <<disk, snapshot, notices, queued, job, others, saves, posts>>
    BY <1>2 DEF WatchDirectories
  <2>2. watcher' \in Watchers /\ watcher'.pc = "watching"
    BY <1>1, <2>1 DEF Watchers
  <2>3. QED
    BY <2>1, <2>2
       DEF WatchInv, Parsed, TypeOK, WritesKnown, OwnWritesCommitted, PlainIsNew
<1>3. CASE FirstFingerprint
  <2>1. /\ watcher' = [watcher EXCEPT !.pc = "idle", !.last = disk]
        /\ watcher.pc = "watching" /\ others' = FALSE
        /\ UNCHANGED <<disk, snapshot, notices, queued, job, saves, posts>>
    BY <1>3 DEF FirstFingerprint
  <2>2. watcher' \in Watchers /\ watcher'.pc = "idle" /\ watcher'.last = disk
    BY <1>1, <2>1 DEF Watchers
  <2>3. QED
    BY <2>1, <2>2
       DEF WatchInv, Parsed, TypeOK, WritesKnown, Known, OwnWritesCommitted, PlainIsNew
<1>4. CASE Receive
  <2>1. /\ watcher' = [watcher EXCEPT !.pc = "debounce"] /\ watcher.pc = "idle"
        /\ UNCHANGED <<disk, snapshot, notices, queued, job, others, saves, posts>>
    BY <1>4 DEF Receive
  <2>2. watcher' \in Watchers /\ watcher'.pc = "debounce" /\ watcher'.last = watcher.last
    BY <1>1, <2>1 DEF Watchers
  <2>3. QED
    BY <2>1, <2>2
       DEF WatchInv, Parsed, TypeOK, WritesKnown, OwnWritesCommitted, PlainIsNew
<1>5. CASE Drain
  <2>1. /\ watcher' = [watcher EXCEPT !.pc = "decide"] /\ watcher.pc = "debounce"
        /\ queued' = FALSE
        /\ UNCHANGED <<disk, snapshot, notices, job, others, saves, posts>>
    BY <1>5 DEF Drain
  <2>2. /\ watcher' \in Watchers /\ watcher'.pc = "decide"
        /\ watcher'.last = watcher.last /\ watcher'.published = watcher.published
    BY <1>1, <2>1 DEF Watchers
  <2>3. QED
    BY <2>1, <2>2
       DEF WatchInv, Parsed, TypeOK, WritesKnown, OwnWritesCommitted, PlainIsNew
<1>6. CASE decide_reload
  <2>1. /\ watcher.pc = "decide"
        /\ UNCHANGED <<disk, snapshot, notices, queued, job, others, saves, posts>>
    BY <1>6 DEF decide_reload
  <2>2. CASE disk.content = Empty \/ disk = watcher.last
    <3>1. watcher' = [watcher EXCEPT !.pc = "idle"]
      BY <1>6, <2>2 DEF decide_reload
    <3>2. /\ watcher' \in Watchers /\ watcher'.pc = "idle"
          /\ watcher'.last = watcher.last /\ watcher'.published = watcher.published
      BY <1>1, <3>1 DEF Watchers
    <3>3. QED
      BY <2>1, <2>2, <3>2
         DEF WatchInv, Parsed, TypeOK, WritesKnown, Known, Refused, OwnWritesCommitted, PlainIsNew
  <2>3. CASE ~(disk.content = Empty \/ disk = watcher.last)
    <3>1. watcher' = [watcher EXCEPT !.pc = "reload", !.found = disk]
      BY <1>6, <2>3 DEF decide_reload
    <3>2. watcher' \in Watchers /\ watcher'.pc = "reload" /\ watcher'.last = watcher.last
      BY <1>1, <3>1 DEF Watchers
    <3>3. QED
      BY <2>1, <2>3, <3>2
         DEF WatchInv, Parsed, TypeOK, WritesKnown, OwnWritesCommitted, PlainIsNew
  <2>4. QED
    BY <2>2, <2>3
<1>7. QED
  BY <1>2, <1>3, <1>4, <1>5, <1>6

LEMMA CommitKeepsInv ==
  ASSUME WatchInv, CommitHash
  PROVE  WatchInv'
<1> DEFINE last == IF watcher.published THEN disk ELSE watcher.last
<1>1. /\ watcher.pc = "commit"
      /\ watcher' = [watcher EXCEPT !.pc = "idle", !.last = last]
      /\ UNCHANGED <<disk, snapshot, notices, queued, job, others, saves, posts>>
  BY DEF CommitHash
<1>2. watcher \in Watchers /\ last \in Files
  BY DEF WatchInv, TypeOK, Watchers
<1>3. watcher' \in Watchers /\ watcher'.pc = "idle" /\ watcher'.last = last
  BY <1>1, <1>2 DEF Watchers
<1>4. TypeOK'
  BY <1>1, <1>3 DEF WatchInv, TypeOK
<1>5. WritesKnown'
  BY <1>1, <1>3 DEF WatchInv, Parsed, WritesKnown, Known, Pending
<1>6. OwnWritesCommitted' /\ PlainIsNew'
  BY <1>1, <1>3 DEF WatchInv, Parsed, OwnWritesCommitted, PlainIsNew
<1>7. QED
  BY <1>1, <1>3, <1>4, <1>5, <1>6 DEF WatchInv, Parsed
-----------------------------------------------------------------------------
(***************************************************************************)
(* Reloads.                                                                *)
(***************************************************************************)
\* The watcher, after Load or at the end of a reload.
LEMMA ReturnShape ==
  ASSUME TypeOK, NEW published \in BOOLEAN, Return("watcher", published)
  PROVE  /\ watcher' \in Watchers
         /\ watcher'.pc = "commit" /\ watcher'.published = published
         /\ watcher'.last = watcher.last
BY FilesShape DEF Return, Watchers

LEMMA LoadByWatcherKeepsInv ==
  ASSUME WatchInv, WatcherLoad
  PROVE  WatchInv'
<1>1. /\ watcher.pc = "reload" /\ job = NoJob /\ Load("watcher") /\ others' = FALSE
      /\ UNCHANGED <<disk, snapshot, notices, queued, saves, posts>>
      /\ TypeOK /\ disk \in Files /\ watcher \in Watchers
  BY DEF WatchInv, WatcherLoad, TypeOK
<1>2. CASE disk.content \in {Empty} \cup Malformed
  <2>1. job' = NoJob /\ Return("watcher", FALSE)
    BY <1>1, <1>2 DEF Load
  <2>2. /\ watcher' \in Watchers
        /\ watcher'.pc = "commit" /\ watcher'.published = FALSE
    BY <1>1, <2>1, ReturnShape
  <2>3. TypeOK'
    BY <1>1, <2>1, <2>2 DEF TypeOK, Jobs
  <2>4. disk'.content \in Refused
    BY <1>1, <1>2 DEF Refused
  <2>5. QED
    BY <1>1, <1>2, <2>1, <2>2, <2>3, <2>4
       DEF WatchInv, Parsed, WritesKnown, OwnWritesCommitted, PlainIsNew, NoJob
<1>3. CASE disk.content \notin {Empty} \cup Malformed
  <2>1. /\ job' = [by |-> "watcher", read |-> disk,
                   pc |-> IF disk.secret = Plain THEN "hash" ELSE "scan"]
        /\ watcher' = [watcher EXCEPT !.pc = "loading"]
    BY <1>1, <1>3 DEF Load
  <2>2. watcher' \in Watchers /\ watcher'.pc = "loading"
    BY <1>1, <2>1 DEF Watchers
  <2>3. /\ job' \in Jobs /\ job'.by = "watcher" /\ job'.read = disk
        /\ disk.secret = Plain => job'.pc = "hash"
    BY <1>1, <2>1 DEF Jobs
  <2>4. TypeOK'
    BY <1>1, <2>2, <2>3 DEF TypeOK
  <2>5. QED
    BY <1>1, <1>3, <2>2, <2>3, <2>4
       DEF WatchInv, Parsed, WritesKnown, OwnWritesCommitted, PlainIsNew, Refused
<1>4. QED
  BY <1>2, <1>3

\* POST /reload and the watcher never load at the same time.
LEMMA LoadByPostKeepsInv ==
  ASSUME WatchInv, PostLoad
  PROVE  WatchInv'
<1>1. /\ posts < MaxPosts /\ posts' = posts + 1 /\ job = NoJob /\ Load("post")
      /\ UNCHANGED <<disk, snapshot, notices, queued, others, saves>>
      /\ TypeOK /\ disk \in Files
  BY DEF WatchInv, PostLoad, TypeOK
<1>2. watcher' = watcher /\ watcher.pc # "loading"
  BY <1>1, JobShape DEF WatchInv, Load, Return, TypeOK, NoJob
<1>3. /\ job' \in Jobs /\ job'.by # "watcher"
      /\ job'.pc # "none" => job'.read.content \notin {Empty} \cup Malformed
  <2>1. CASE disk.content \in {Empty} \cup Malformed
    BY <1>1, <2>1 DEF Load, Jobs, NoJob
  <2>2. CASE disk.content \notin {Empty} \cup Malformed
    <3>1. job' = [by |-> "post", read |-> disk,
                  pc |-> IF disk.secret = Plain THEN "hash" ELSE "scan"]
      BY <1>1, <2>2 DEF Load
    <3>2. job' \in Jobs /\ job'.by = "post" /\ job'.read = disk
      BY <1>1, <3>1 DEF Jobs
    <3>3. QED
      BY <2>2, <3>2
  <2>3. QED
    BY <2>1, <2>2
<1>4. posts' \in 0..MaxPosts
  BY <1>1, BoundsAssumption DEF TypeOK
<1>5. TypeOK'
  BY <1>1, <1>2, <1>3, <1>4 DEF TypeOK
<1>6. QED
  BY <1>1, <1>2, <1>3, <1>5
     DEF WatchInv, Parsed, WritesKnown, Known, Pending, OwnWritesCommitted, PlainIsNew, NoJob

LEMMA EndKeepsInv ==
  ASSUME WatchInv, EndReload
  PROVE  WatchInv'
<1> DEFINE published == job.read.content \notin Invalid
<1>1. /\ job.pc = "scan" /\ job' = NoJob
      /\ snapshot' = IF job.read.content \in Invalid THEN snapshot ELSE job.read.content
      /\ Return(job.by, published)
      /\ UNCHANGED <<disk, notices, queued, others, saves, posts>>
      /\ TypeOK
  BY DEF EndReload, WatchInv
<1>2. /\ job.by \in {"watcher", "post"}
      /\ job.read.content \in Contents \ ({Empty} \cup Malformed)
  BY <1>1, JobShape DEF WatchInv, TypeOK, Parsed
<1>3. job' \in Jobs /\ job'.by = "none" /\ job'.pc = "none"
  BY <1>1 DEF Jobs, NoJob
<1>4. snapshot' \in Contents \ Refused
  BY <1>1, <1>2 DEF TypeOK, Refused
<1>5. CASE job.by = "post"
  <2>1. watcher' = watcher
    BY <1>1, <1>5 DEF Return
  <2>2. TypeOK'
    BY <1>1, <1>3, <1>4, <2>1 DEF TypeOK
  <2>3. watcher.pc # "loading"
    BY <1>5 DEF WatchInv
  <2>4. QED
    BY <1>1, <1>3, <2>1, <2>2, <2>3
       DEF WatchInv, Parsed, WritesKnown, Known, Pending, OwnWritesCommitted, PlainIsNew
<1>6. CASE job.by = "watcher"
  <2>1. /\ watcher' \in Watchers
        /\ watcher'.pc = "commit" /\ watcher'.published = published
    BY <1>1, <1>6, ReturnShape
  <2>2. TypeOK'
    BY <1>1, <1>3, <1>4, <2>1 DEF TypeOK
  <2>3. watcher.pc = "loading"
    BY <1>6 DEF WatchInv
  <2>4. QED
    BY <1>1, <1>3, <2>1, <2>2, <2>3
       DEF WatchInv, Parsed, WritesKnown, Pending, OwnWritesCommitted, PlainIsNew
<1>7. QED
  BY <1>2, <1>5, <1>6

LEMMA AbandonKeepsInv ==
  ASSUME WatchInv, AbandonPost
  PROVE  WatchInv'
<1>1. /\ job.by = "post" /\ job' = NoJob
      /\ UNCHANGED <<disk, snapshot, watcher, notices, queued, others, saves, posts>>
  BY DEF AbandonPost
<1>2. job' \in Jobs /\ job'.by = "none" /\ job'.pc = "none"
  BY <1>1 DEF Jobs, NoJob
<1>3. TypeOK' /\ watcher.pc # "loading"
  BY <1>1, <1>2 DEF WatchInv, TypeOK
<1>4. QED
  BY <1>1, <1>2, <1>3
     DEF WatchInv, Parsed, WritesKnown, Known, Pending, OwnWritesCommitted, PlainIsNew
-----------------------------------------------------------------------------
(***************************************************************************)
(* What the watcher promises.                                              *)
(***************************************************************************)
LEMMA NextKeepsInv ==
  ASSUME WatchInv, [Next]_vars
  PROVE  WatchInv'
<1>1. CASE \E c \in Contents, secret \in Salts \cup {Plain} : Save(c, secret)
  BY <1>1, SaveKeepsInv
<1>2. CASE Deliver
  BY <1>2, DeliverKeepsInv
<1>3. CASE Watch
  BY <1>3, WatchKeepsInv, LoadByWatcherKeepsInv, CommitKeepsInv DEF Watch
<1>4. CASE PostLoad
  BY <1>4, LoadByPostKeepsInv
<1>5. CASE persist_secret
  BY <1>5, PersistKeepsInv
<1>6. CASE EndReload \/ AbandonPost
  BY <1>6, EndKeepsInv, AbandonKeepsInv
<1>7. CASE UNCHANGED vars
  BY <1>7
     DEF vars, WatchInv, TypeOK, Parsed, WritesKnown, Known, Pending, OwnWritesCommitted, PlainIsNew
<1>8. QED
  BY <1>1, <1>2, <1>3, <1>4, <1>5, <1>6, <1>7 DEF Next

\* WatchInv holds in every state, whatever is saved and posted.
THEOREM WatchInvariant == Spec => []WatchInv
<1>1. Init => WatchInv
  BY InitInv
<1>2. WatchInv /\ [Next]_vars => WatchInv'
  BY NextKeepsInv
<1>3. QED
  BY <1>1, <1>2, PTL DEF Spec

\* Every variable keeps its type; in particular what is published could be
\* loaded.
THEOREM TypesHold == Spec => []TypeOK
<1>1. WatchInv => TypeOK
  BY DEF WatchInv
<1>2. QED
  BY <1>1, WatchInvariant, PTL

\* When nothing is under way any more, no write is left that the watcher could
\* have loaded and has not committed: not one made while it paused, decided,
\* reloaded or committed.
THEOREM WritesAreSeen == Spec => []NoWriteOverlooked
<1>1. WatchInv => NoWriteOverlooked
  BY FilesShape
     DEF WatchInv, WritesKnown, Known, Pending, NoWriteOverlooked, AtRest
<1>2. QED
  BY <1>1, WatchInvariant, PTL

\* The watcher decides on what is on disk.
LEMMA ReloadIsDecided ==
  ASSUME TypeOK, [Next]_vars, watcher'.pc = "reload", watcher.pc # "reload"
  PROVE  watcher.pc = "decide" /\ disk # watcher.last
<1>1. watcher \in Watchers
  BY DEF TypeOK
<1>2. CASE decide_reload
  BY <1>1, <1>2 DEF decide_reload, Watchers
<1>3. CASE WatchDirectories \/ FirstFingerprint \/ Receive \/ Drain \/ CommitHash
  BY <1>1, <1>3
     DEF WatchDirectories, FirstFingerprint, Receive, Drain, CommitHash, Watchers
<1>4. CASE WatcherLoad \/ PostLoad \/ EndReload
  BY <1>1, <1>4 DEF WatcherLoad, PostLoad, EndReload, Load, Return, Watchers
<1>5. CASE \/ \E c \in Contents, secret \in Salts \cup {Plain} : Save(c, secret)
           \/ Deliver \/ persist_secret \/ AbandonPost
  BY <1>5 DEF Save, Deliver, persist_secret, AbandonPost
<1>6. CASE UNCHANGED vars
  BY <1>6 DEF vars
<1>7. QED
  BY <1>2, <1>3, <1>4, <1>5, <1>6 DEF Next, Watch

\* The watcher hashes a secret only in loading what is on disk.
LEMMA HashIsLoaded ==
  ASSUME TypeOK, [Next]_vars, watcher.pc = "reload", watcher'.pc = "loading",
         job'.pc = "hash"
  PROVE  disk.secret = Plain /\ disk.content \notin {Empty} \cup Malformed
<1>1. watcher \in Watchers
  BY DEF TypeOK
<1>2. CASE WatcherLoad
  <2>1. disk.content \notin {Empty} \cup Malformed
    <3>1. disk.content \in {Empty} \cup Malformed => job' = NoJob
      BY <1>2 DEF WatcherLoad, Load
    <3>2. NoJob.pc # "hash"
      BY DEF NoJob
    <3>3. QED
      BY <3>1, <3>2
  <2>2. job' = [by |-> "watcher", read |-> disk,
                pc |-> IF disk.secret = Plain THEN "hash" ELSE "scan"]
    BY <1>2, <2>1 DEF WatcherLoad, Load
  <2>3. QED
    BY <2>1, <2>2
<1>3. CASE WatchDirectories \/ FirstFingerprint \/ Receive \/ Drain \/ CommitHash
             \/ decide_reload
  BY <1>1, <1>3 DEF WatchDirectories, FirstFingerprint, Receive, Drain, CommitHash,
                    decide_reload
<1>4. CASE PostLoad \/ EndReload
  BY <1>1, <1>4 DEF PostLoad, EndReload, Load, Return, Watchers
<1>5. CASE \/ \E c \in Contents, secret \in Salts \cup {Plain} : Save(c, secret)
           \/ Deliver \/ persist_secret \/ AbandonPost
  BY <1>5 DEF Save, Deliver, persist_secret, AbandonPost
<1>6. CASE UNCHANGED vars
  BY <1>6 DEF vars
<1>7. QED
  BY <1>2, <1>3, <1>4, <1>5, <1>6 DEF Next, Watch

\* After a reload that published the watcher goes into another only if somebody
\* else has written since it loaded; and a secret it loads to write it back is
\* one that somebody else has written since.
THEOREM OwnWriteBacksRest == Spec => NoReloadForOwnWriteBack
<1> DEFINE Starts == watcher'.pc = "reload" /\ watcher.pc # "reload"
           Hashes == /\ watcher.pc = "reload" /\ watcher'.pc = "loading"
                     /\ job'.pc = "hash"
<1>1. ASSUME WatchInv, [Next]_vars, Starts
      PROVE  others \/ ~watcher.published
  <2>1. watcher.pc = "decide" /\ disk # watcher.last
    BY <1>1, ReloadIsDecided DEF WatchInv
  <2>2. QED
    BY <1>1, <2>1 DEF WatchInv, OwnWritesCommitted
<1>2. ASSUME WatchInv, [Next]_vars, Hashes
      PROVE  others
  <2>1. disk.secret = Plain /\ disk.content \notin {Empty} \cup Malformed
    BY <1>2, HashIsLoaded DEF WatchInv
  <2>2. QED
    BY <1>2, <2>1 DEF WatchInv, PlainIsNew
<1>3. WatchInv /\ [Next]_vars
        => [/\ watcher'.pc = "reload" /\ watcher.pc # "reload"
                 => others \/ ~watcher.published
            /\ watcher.pc = "reload" /\ watcher'.pc = "loading" /\ job'.pc = "hash"
                 => others]_vars
  BY <1>1, <1>2
<1>4. QED
  BY <1>3, WatchInvariant, PTL DEF Spec, NoReloadForOwnWriteBack
=============================================================================
