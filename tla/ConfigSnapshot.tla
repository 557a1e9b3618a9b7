--------------------------- MODULE ConfigSnapshot ---------------------------
(***************************************************************************)
(* The configuration snapshot of a running proxy and everybody who touches *)
(* it:                                                                     *)
(*                                                                         *)
(*   - reloads (the file watcher, POST /reload, a login command), which    *)
(*     take the reload lock in arrival order, load without any lock on the *)
(*     snapshot, validate, and publish a whole new snapshot;               *)
(*   - the background task, which captures the snapshot, scans the         *)
(*     credential directories without a lock, and publishes the providers  *)
(*     only if the version it captured is still the current one;           *)
(*   - requests, which capture the snapshot together with the generation   *)
(*     of the unfit registry and may mark a feature as refused much later; *)
(*   - the user, who edits the file and adds, disables or enables          *)
(*     credentials at any time.                                            *)
(*                                                                         *)
(* A content of the file stands for its static providers, its runtime      *)
(* settings and its refresh inputs.  A provider list is the content its    *)
(* static part came from and, for each kind of credential that yielded     *)
(* any, the set of credentials loaded, in merge order (within a kind the   *)
(* order is that of the paths, hence the same every time).                 *)
(***************************************************************************)
EXTENDS Naturals, Sequences, FiniteSets

CONSTANTS
  Contents,         \* what config.yaml can hold
  Unloadable,       \* those Config::load rejects
  Invalid,          \* those whose models file or static providers are rejected
  NoProxy,          \* those without a usable proxy for OAuth providers
  StartContent,     \* the one the process started with
  Creds,            \* credential files
  KindOf,           \* the kind of each of them
  CredsOf,          \* the credentials in the directories a content names
  Reloaders,        \* callers of reload_now
  HttpReloaders,    \* those that are HTTP handlers, dropped on disconnect
  Requests,         \* requests in flight
  Features,         \* what an upstream can refuse (UnfitKind)
  NoReloader,       \* the reload lock is free
  MaxCalls,         \* bound on the calls of reload_now
  MaxVersion        \* bound on the version at which a refresh may start

Kinds == {"antigravity", "xai", "codex", "claude"}

Loadable == Contents \ (Unloadable \cup Invalid \cup NoProxy)

ASSUME ContentsAssumption ==
  /\ Unloadable \subseteq Contents
  /\ Invalid \subseteq Contents
  /\ NoProxy \subseteq Contents
  /\ StartContent \in Loadable

ASSUME CredsAssumption ==
  /\ KindOf \in [Creds -> Kinds]
  /\ CredsOf \in [Contents -> SUBSET Creds]

ASSUME ActorsAssumption ==
  /\ HttpReloaders \subseteq Reloaders
  /\ NoReloader \notin Reloaders

ASSUME BoundsAssumption == MaxCalls \in Nat /\ MaxVersion \in Nat

VARIABLES
  disk,       \* the content of config.yaml
  enabled,    \* the credentials that exist and are not disabled
  config,     \* the published snapshot
  holder,     \* who holds reload_lock
  reload,     \* the state of each caller of reload_now
  bg,         \* the background refresh task
  flags,      \* the unfit registry: what is marked as refused, and under
              \* which reload (`seen') the request that marked it ran
  generation, \* the generation of the unfit registry
  req,        \* the requests
  calls,      \* reload_now calls so far
  loads,      \* configuration files read so far
  dropped     \* credentials that were off when a reload published without
              \* them and have not been turned on since

snapshotVars == <<config, flags, generation, dropped>>
vars == <<disk, enabled, config, holder, reload, bg, flags, generation, req,
          calls, loads, dropped>>
-----------------------------------------------------------------------------
(***************************************************************************)
(* Merge orders.  A scan walks the kinds in the order of its loader; each  *)
(* step appends the providers of one kind.                                 *)
(***************************************************************************)
StartupOrder == <<"xai", "codex", "claude">>
ReloadOrder  == <<"antigravity", "xai", "codex", "claude">>
RefreshOrder == <<"xai", "codex", "claude", "antigravity">>

\* The credentials of kind k in the directories of content c.
InDirs(c, k) == {cred \in CredsOf[c] : KindOf[cred] = k}

MergeKind(list, loaded) == IF loaded = {} THEN list ELSE Append(list, loaded)

\* A loader skips disabled credentials and those it fails to refresh.
Loadables(c, k) == SUBSET (InDirs(c, k) \cap enabled)

ListType == Seq(SUBSET Creds)

SnapshotType == [version : Nat, runtime : Contents, static : Contents,
                 refresh : Contents, dyn : ListType, stamp : Nat]
LoadType == [content : Contents, dyn : ListType, next : 1..5, stamp : Nat]
ReloadType == [pc : {"idle", "waiting", "scanning", "published"},
               ticket : Nat, data : LoadType]
RefreshType == [pc : {"idle", "scanning", "loaded"}, version : Nat, refresh : Contents,
                dyn : ListType, next : 1..4]
RequestType == [pc : {"idle", "sent"}, gen : Nat, seen : Nat]

NoData == [content |-> StartContent, dyn |-> << >>, next |-> 1, stamp |-> 0]
IdleReload == [pc |-> "idle", ticket |-> 0, data |-> NoData]
IdleRefresh == [pc |-> "idle", version |-> 0, refresh |-> StartContent,
                dyn |-> << >>, next |-> 1]
IdleRequest == [pc |-> "idle", gen |-> 0, seen |-> 0]
-----------------------------------------------------------------------------
\* The lists startup can have loaded, each kind from the directories of the
\* content it started with.  Antigravity is left to the background task.
StartupLists ==
  {MergeKind(MergeKind(MergeKind(<< >>, x), o), c) :
     x \in SUBSET InDirs(StartContent, StartupOrder[1]),
     o \in SUBSET InDirs(StartContent, StartupOrder[2]),
     c \in SUBSET InDirs(StartContent, StartupOrder[3])}

InitialSnapshot(list) ==
  [version |-> 1, runtime |-> StartContent, static |-> StartContent,
   refresh |-> StartContent, dyn |-> list, stamp |-> 0]

Init ==
  /\ disk \in Contents
  /\ enabled \in SUBSET Creds
  /\ \E list \in StartupLists : config = InitialSnapshot(list)
  /\ holder = NoReloader
  /\ reload = [r \in Reloaders |-> IdleReload]
  /\ bg = IdleRefresh
  /\ flags = {}
  /\ generation = 0
  /\ req = [q \in Requests |-> IdleRequest]
  /\ calls = 0
  /\ loads = 0
  /\ dropped = {}
-----------------------------------------------------------------------------
(***************************************************************************)
(* The user.                                                               *)
(***************************************************************************)
EditConfig(c) ==
  /\ disk # c
  /\ disk' = c
  /\ UNCHANGED <<enabled, config, holder, reload, bg, flags, generation, req,
                 calls, loads, dropped>>

EnableCred(cred) ==
  /\ cred \notin enabled
  /\ enabled' = enabled \cup {cred}
  /\ dropped' = dropped \ {cred}
  /\ UNCHANGED <<disk, config, holder, reload, bg, flags, generation, req,
                 calls, loads>>

DisableCred(cred) ==
  /\ cred \in enabled
  /\ enabled' = enabled \ {cred}
  /\ UNCHANGED <<disk, config, holder, reload, bg, flags, generation, req,
                 calls, loads, dropped>>
-----------------------------------------------------------------------------
(***************************************************************************)
(* reload_now.                                                             *)
(***************************************************************************)
CallReload(r) ==
  /\ reload[r].pc = "idle"
  /\ calls < MaxCalls
  /\ calls' = calls + 1
  /\ reload' = [reload EXCEPT ![r] = [IdleReload EXCEPT !.pc = "waiting",
                                                        !.ticket = calls + 1]]
  /\ UNCHANGED <<disk, enabled, config, holder, bg, flags, generation, req,
                 loads, dropped>>

\* Mutant: reload_now without its lock.
MayTakeLockAtOnce(r) == r \in Reloaders

\* The tokio mutex is fair: the lock goes to the one who has waited longest.
MayTakeLock(r) ==
  /\ holder = NoReloader
  /\ \A s \in Reloaders :
       reload[s].pc = "waiting" => reload[r].ticket <= reload[s].ticket

\* Config::load reads and parses the file as it is on disk now.
BeginReload(r) ==
  /\ reload[r].pc = "waiting"
  /\ MayTakeLock(r)
  /\ loads' = loads + 1
  /\ IF disk \in Unloadable
     THEN /\ reload' = [reload EXCEPT ![r] = IdleReload]
          /\ holder' = holder
     ELSE /\ reload' = [reload EXCEPT
                          ![r].pc = "scanning",
                          ![r].data = [content |-> disk, dyn |-> << >>,
                                       next |-> 1, stamp |-> loads + 1]]
          /\ holder' = r
  /\ UNCHANGED <<disk, enabled, config, bg, flags, generation, req, calls,
                 dropped>>

\* One kind of credential is scanned and merged behind the ones before it.
ScanReload(r) ==
  LET d == reload[r].data IN
  /\ reload[r].pc = "scanning"
  /\ d.next <= Len(ReloadOrder)
  /\ \E loaded \in Loadables(d.content, ReloadOrder[d.next]) :
       reload' = [reload EXCEPT ![r].data.dyn = MergeKind(d.dyn, loaded),
                                ![r].data.next = d.next + 1]
  /\ UNCHANGED <<disk, enabled, config, holder, bg, flags, generation, req,
                 calls, loads, dropped>>

\* What was loaded is accepted when the models file loads, the providers
\* validate, and there is a proxy if any credential is to use it.
Accepted(d) ==
  /\ d.content \notin Invalid
  /\ d.content \in NoProxy => /\ d.dyn = << >>
                            /\ CredsOf[d.content] \cap enabled = {}

\* Mutant: the lock outlives a reload that is refused.
RejectReloadKeepsLock(r) ==
  LET d == reload[r].data IN
  /\ reload[r].pc = "scanning"
  /\ d.next > Len(ReloadOrder)
  /\ ~Accepted(d)
  /\ reload' = [reload EXCEPT ![r] = IdleReload]
  /\ UNCHANGED <<disk, enabled, holder, bg, req, calls, loads, snapshotVars>>

\* The scans are done, their result is refused: the old snapshot stays, and
\* the lock is released.
RejectReload(r) ==
  LET d == reload[r].data IN
  /\ reload[r].pc = "scanning"
  /\ d.next > Len(ReloadOrder)
  /\ ~Accepted(d)
  /\ reload' = [reload EXCEPT ![r] = IdleReload]
  /\ holder' = NoReloader
  /\ UNCHANGED <<disk, enabled, bg, req, calls, loads, snapshotVars>>

\* Mutant: the inputs of the background refresh stay those of startup.
PublishReloadKeepsRefresh(r) ==
  LET d == reload[r].data IN
  /\ reload[r].pc = "scanning"
  /\ d.next > Len(ReloadOrder)
  /\ Accepted(d)
  /\ config' = [config EXCEPT !.version = config.version + 1,
                              !.runtime = d.content, !.static = d.content,
                              !.dyn = d.dyn, !.stamp = d.stamp]
  /\ flags' = {}
  /\ generation' = generation + 1
  /\ dropped' = dropped
  /\ reload' = [reload EXCEPT ![r].pc = "published"]
  /\ UNCHANGED <<disk, enabled, holder, bg, req, calls, loads>>

\* Under the configuration write lock: the whole snapshot is replaced, the
\* unfit registry cleared and its generation advanced.
PublishReload(r) ==
  LET d == reload[r].data IN
  /\ reload[r].pc = "scanning"
  /\ d.next > Len(ReloadOrder)
  /\ Accepted(d)
  /\ config' = [version |-> config.version + 1, runtime |-> d.content,
                static |-> d.content, refresh |-> d.content,
                dyn |-> d.dyn, stamp |-> d.stamp]
  /\ flags' = {}
  /\ generation' = generation + 1
  /\ dropped' = dropped \cup
       {cred \in Creds \ enabled : \A i \in DOMAIN d.dyn : cred \notin d.dyn[i]}
  /\ reload' = [reload EXCEPT ![r].pc = "published"]
  /\ UNCHANGED <<disk, enabled, holder, bg, req, calls, loads>>

\* The authentication cache is cleared, and the lock released on return.
FinishReload(r) ==
  /\ reload[r].pc = "published"
  /\ reload' = [reload EXCEPT ![r] = IdleReload]
  /\ holder' = NoReloader
  /\ UNCHANGED <<disk, enabled, bg, req, calls, loads, snapshotVars>>

\* The client of POST /reload goes away: the handler is dropped at an await,
\* which releases the lock it holds or gives up its place in the queue.
CancelReload(r) ==
  /\ r \in HttpReloaders
  /\ reload[r].pc \in {"waiting", "scanning"}
  /\ reload' = [reload EXCEPT ![r] = IdleReload]
  /\ holder' = IF holder = r THEN NoReloader ELSE holder
  /\ UNCHANGED <<disk, enabled, bg, req, calls, loads, snapshotVars>>
-----------------------------------------------------------------------------
(***************************************************************************)
(* The background refresh.                                                 *)
(***************************************************************************)
BeginRefresh ==
  /\ bg.pc = "idle"
  /\ config.version < MaxVersion
  /\ bg' = [IdleRefresh EXCEPT !.pc = "scanning", !.version = config.version,
                               !.refresh = config.refresh]
  /\ UNCHANGED <<disk, enabled, holder, reload, req, calls, loads,
                 snapshotVars>>

\* xAI, Codex and Claude, without any lock.
ScanRefresh ==
  /\ bg.pc = "scanning"
  /\ bg.next < Len(RefreshOrder)
  /\ \E loaded \in Loadables(bg.refresh, RefreshOrder[bg.next]) :
       bg' = [bg EXCEPT !.dyn = MergeKind(bg.dyn, loaded),
                        !.next = bg.next + 1]
  /\ UNCHANGED <<disk, enabled, holder, reload, req, calls, loads,
                 snapshotVars>>

\* Antigravity comes last; when it yields nothing the round is given up and
\* the published providers stay.
GiveUpRefresh ==
  /\ bg.pc = "scanning"
  /\ bg.next = Len(RefreshOrder)
  /\ bg' = IdleRefresh
  /\ UNCHANGED <<disk, enabled, holder, reload, req, calls, loads,
                 snapshotVars>>

\* Antigravity yielded providers.  They may still be waiting for the write
\* lock when others publish, so the list is kept until PublishRefresh.
ScanAntigravity ==
  /\ bg.pc = "scanning"
  /\ bg.next = Len(RefreshOrder)
  /\ \E loaded \in Loadables(bg.refresh, RefreshOrder[bg.next]) \ {{}} :
       bg' = [bg EXCEPT !.pc = "loaded", !.dyn = MergeKind(bg.dyn, loaded)]
  /\ UNCHANGED <<disk, enabled, holder, reload, req, calls, loads,
                 snapshotVars>>

\* Mutant: published without a look at the version.
PublishRefreshUnchecked ==
  /\ bg.pc = "loaded"
  /\ bg' = IdleRefresh
  /\ config' = [config EXCEPT !.version = config.version + 1, !.dyn = bg.dyn]
  /\ UNCHANGED <<disk, enabled, holder, reload, req, calls, loads, flags,
                 generation, dropped>>

\* Under the configuration write lock.  The round is discarded when the version
\* is no longer the one it started from.  Otherwise the providers are exchanged
\* and the version advances, unless they equal the published ones; a list of
\* the same credentials may still differ in its tokens and models.
PublishRefresh ==
  /\ bg.pc = "loaded"
  /\ bg' = IdleRefresh
  /\ \/ UNCHANGED config
     \/ /\ bg.version = config.version
        /\ config' = [config EXCEPT !.version = config.version + 1,
                                    !.static = bg.refresh,
                                    !.dyn = bg.dyn]
  /\ (bg.version = config.version /\ bg.dyn # config.dyn) => config' # config
  /\ UNCHANGED <<disk, enabled, holder, reload, req, calls, loads, flags,
                 generation, dropped>>
-----------------------------------------------------------------------------
(***************************************************************************)
(* Requests.                                                               *)
(***************************************************************************)
\* Snapshot and generation are read under one read lock.
CaptureRequest(q) ==
  /\ req[q].pc = "idle"
  /\ req' = [req EXCEPT ![q] = [pc |-> "sent", gen |-> generation,
                                seen |-> config.stamp]]
  /\ UNCHANGED <<disk, enabled, holder, reload, bg, calls, loads,
                 snapshotVars>>

\* Mutant: a late mark is accepted.
MarkUnfitLate(q, f) ==
  /\ req[q].pc = "sent"
  /\ flags' = flags \cup {[kind |-> f, seen |-> req[q].seen]}
  /\ UNCHANGED <<disk, enabled, config, holder, reload, bg, generation, req,
                 calls, loads, dropped>>

\* The upstream refused feature f.  The mark is dropped when the registry was
\* cleared since the request began.  The adapted request is sent again, so the
\* request goes on.
MarkUnfit(q, f) ==
  /\ req[q].pc = "sent"
  /\ flags' = IF req[q].gen = generation
              THEN flags \cup {[kind |-> f, seen |-> req[q].seen]}
              ELSE flags
  /\ UNCHANGED <<disk, enabled, config, holder, reload, bg, generation, req,
                 calls, loads, dropped>>

EndRequest(q) ==
  /\ req[q].pc = "sent"
  /\ req' = [req EXCEPT ![q] = IdleRequest]
  /\ UNCHANGED <<disk, enabled, holder, reload, bg, calls, loads,
                 snapshotVars>>
-----------------------------------------------------------------------------
User == \/ \E c \in Contents : EditConfig(c)
        \/ \E cred \in Creds : EnableCred(cred)
        \/ \E cred \in Creds : DisableCred(cred)

Reload(r) == \/ BeginReload(r)
             \/ ScanReload(r)
             \/ RejectReload(r)
             \/ PublishReload(r)
             \/ FinishReload(r)

Background == \/ ScanRefresh
              \/ GiveUpRefresh
              \/ ScanAntigravity
              \/ PublishRefresh

Next ==
  \/ User
  \/ \E r \in Reloaders : CallReload(r)
  \/ \E r \in Reloaders : Reload(r)
  \/ \E r \in Reloaders : CancelReload(r)
  \/ BeginRefresh
  \/ Background
  \/ \E q \in Requests : CaptureRequest(q)
  \/ \E q \in Requests, f \in Features : MarkUnfit(q, f)
  \/ \E q \in Requests : EndRequest(q)

\* The runtime polls every task that can go on, and the token and model
\* requests of a scan carry a timeout, so a reload does not stop half way.
\* Nothing makes a request end, a user act or a refresh begin.
Fairness == \A r \in Reloaders : WF_vars(Reload(r))

Spec == Init /\ [][Next]_vars /\ Fairness
-----------------------------------------------------------------------------
FlagType == [kind : Features, seen : Nat]

\* Every variable holds a value the program can give it.
TypeOK ==
  /\ disk \in Contents
  /\ enabled \in SUBSET Creds
  /\ config \in SnapshotType
  /\ holder \in Reloaders \cup {NoReloader}
  /\ reload \in [Reloaders -> ReloadType]
  /\ bg \in RefreshType
  /\ flags \in SUBSET FlagType
  /\ generation \in Nat
  /\ req \in [Requests -> RequestType]
  /\ calls \in Nat
  /\ loads \in Nat
  /\ dropped \in SUBSET Creds

\* A feature is only ever marked as refused by a request that ran under the
\* configuration in force: a request that outlives a reload cannot write its
\* finding about the old upstreams into the cleared registry.
UnfitFlagsFromCurrentConfig == \A m \in flags : m.seen = config.stamp

\* A credential that a reload left out because it was disabled is not brought
\* back by a background round that had loaded it before.
DroppedStayOut ==
  \A i \in DOMAIN config.dyn : config.dyn[i] \cap dropped = {}

\* Reloads publish in the order in which they read the file, so the file read
\* last wins, whatever the order in which their network calls finish.
ReloadsPublishInLoadOrder == [][config'.stamp >= config.stamp]_vars

\* The snapshot is always one whole configuration (PublishedConfig): no mixture
\* of two files, no credential from a directory that is no longer named.
PC == INSTANCE PublishedConfig WITH
        effective <- [runtime |-> config.runtime, static |-> config.static,
                      refresh |-> config.refresh, dyn |-> config.dyn]
ImplementsPublishedConfig == PC!Spec

\* Every caller of reload_now gets its turn and an answer (or has gone away),
\* also behind reloads that fail or are abandoned while they hold the lock.
ReloadReturns ==
  \A r \in Reloaders : reload[r].pc = "waiting" ~> reload[r].pc = "idle"
=============================================================================
