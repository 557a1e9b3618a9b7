------------------------ MODULE ConfigSnapshotProofs ------------------------
(***************************************************************************)
(* What TLC checks of ConfigSnapshot for a handful of files, credentials   *)
(* and callers, proved for all of them and with no bound on the calls or   *)
(* the versions.                                                           *)
(***************************************************************************)
EXTENDS ConfigSnapshot, TLAPS

\* The dynamic providers that the directories of c can yield.
Lists(c) == Seq((SUBSET CredsOf[c]) \ {{}})

\* A loader yields credentials that are in the directories, are enabled, and
\* are known.
LEMMA LoadablesAreEnabled ==
  ASSUME NEW c \in Contents, NEW k, NEW loaded \in Loadables(c, k)
  PROVE  loaded \subseteq CredsOf[c] /\ loaded \subseteq enabled
           /\ loaded \subseteq Creds
BY CredsAssumption DEF Loadables, InDirs

\* Merging what a loader yields keeps a list a list, of at most one more entry.
LEMMA MergeKindList ==
  ASSUME NEW S, NEW list \in Seq(S), NEW loaded, loaded # {} => loaded \in S
  PROVE  MergeKind(list, loaded) \in Seq(S)
BY DEF MergeKind

\* No credential gets into the list but those that were loaded.
LEMMA MergeKindLoaded ==
  ASSUME NEW list \in ListType, NEW loaded \in SUBSET Creds,
         NEW i \in DOMAIN MergeKind(list, loaded)
  PROVE  \/ MergeKind(list, loaded)[i] = loaded
         \/ i \in DOMAIN list /\ MergeKind(list, loaded)[i] = list[i]
BY DEF MergeKind, ListType

LEMMA Orders == Len(ReloadOrder) = 4 /\ Len(RefreshOrder) = 4
BY DEF ReloadOrder, RefreshOrder

\* What startup loads is a list of the directories of the start content.
LEMMA StartupListsType ==
  ASSUME NEW list \in StartupLists
  PROVE  list \in Lists(StartContent) /\ list \in ListType
<1> DEFINE S == (SUBSET CredsOf[StartContent]) \ {{}}
<1>1. StartContent \in Contents
  BY ContentsAssumption DEF Loadable
<1>2. PICK x \in SUBSET InDirs(StartContent, StartupOrder[1]),
           o \in SUBSET InDirs(StartContent, StartupOrder[2]),
           c \in SUBSET InDirs(StartContent, StartupOrder[3]) :
             list = MergeKind(MergeKind(MergeKind(<< >>, x), o), c)
  BY DEF StartupLists
<1>3. /\ x # {} => x \in S
      /\ o # {} => o \in S
      /\ c # {} => c \in S
  BY DEF InDirs
<1> HIDE DEF S
<1>4. MergeKind(<< >>, x) \in Seq(S)
  BY <1>3 DEF MergeKind
<1>5. MergeKind(MergeKind(<< >>, x), o) \in Seq(S)
  BY <1>3, <1>4, MergeKindList
<1>6. list \in Seq(S)
  BY <1>2, <1>3, <1>5, MergeKindList
<1>7. S \subseteq SUBSET Creds
  BY <1>1, CredsAssumption DEF S
<1>8. list \in ListType
  BY <1>6, <1>7 DEF ListType
<1> QED BY <1>6, <1>8 DEF Lists, S
-----------------------------------------------------------------------------
(***************************************************************************)
(* Type correctness.                                                       *)
(***************************************************************************)
LEMMA InitTypeOK == Init => TypeOK
<1> SUFFICES ASSUME Init PROVE TypeOK
  OBVIOUS
<1>1. StartContent \in Contents /\ StartContent \in Loadable
  BY ContentsAssumption DEF Loadable
<1>2. config \in SnapshotType
  <2>1. PICK list \in StartupLists : config = InitialSnapshot(list)
    BY DEF Init
  <2> QED BY <1>1, <2>1, StartupListsType DEF InitialSnapshot, SnapshotType
<1>3. NoData \in LoadType /\ << >> \in ListType
  BY <1>1 DEF NoData, LoadType, ListType
<1>4. reload \in [Reloaders -> ReloadType]
  BY <1>3 DEF Init, IdleReload, ReloadType
<1>5. bg \in RefreshType
  BY <1>1, <1>3 DEF Init, IdleRefresh, RefreshType
<1>6. req \in [Requests -> RequestType]
  BY DEF Init, IdleRequest, RequestType
<1> QED BY <1>2, <1>4, <1>5, <1>6 DEF Init, TypeOK

\* The parts of a load, the reload that carries it, and an idle one.
LEMMA IdleTypes ==
  /\ IdleReload \in ReloadType
  /\ IdleRefresh \in RefreshType
  /\ IdleRequest \in RequestType
<1>1. StartContent \in Contents
  BY ContentsAssumption DEF Loadable
<1>2. << >> \in ListType
  BY DEF ListType
<1> QED BY <1>1, <1>2 DEF IdleReload, NoData, LoadType, ReloadType, IdleRefresh,
             RefreshType, IdleRequest, RequestType

LEMMA NextTypeOK == TypeOK /\ [Next]_vars => TypeOK'
<1> SUFFICES ASSUME TypeOK, [Next]_vars PROVE TypeOK'
  OBVIOUS
<1> USE IdleTypes
<1>1. ASSUME NEW c \in Contents, EditConfig(c) PROVE TypeOK'
  BY <1>1 DEF EditConfig, TypeOK
<1>2. ASSUME NEW cred \in Creds, EnableCred(cred) PROVE TypeOK'
  BY <1>2 DEF EnableCred, TypeOK
<1>3. ASSUME NEW cred \in Creds, DisableCred(cred) PROVE TypeOK'
  BY <1>3 DEF DisableCred, TypeOK
<1>4. ASSUME NEW r \in Reloaders, CallReload(r) PROVE TypeOK'
  <2>1. calls + 1 \in Nat
    BY DEF TypeOK
  <2>2. [IdleReload EXCEPT !.pc = "waiting", !.ticket = calls + 1] \in ReloadType
    <3>1. ASSUME NEW c \in ReloadType, NEW n \in Nat
          PROVE  [c EXCEPT !.pc = "waiting", !.ticket = n] \in ReloadType
      BY DEF ReloadType
    <3> QED BY <2>1, <3>1
  <2> QED BY <1>4, <2>2 DEF CallReload, TypeOK
<1>5. ASSUME NEW r \in Reloaders, BeginReload(r) PROVE TypeOK'
  <2>1. CASE disk \in Unloadable
    BY <1>5, <2>1 DEF BeginReload, TypeOK
  <2>2. CASE disk \notin Unloadable
    <3>1. [content |-> disk, dyn |-> << >>, next |-> 1, stamp |-> loads + 1]
            \in LoadType
      BY DEF LoadType, ListType, TypeOK
    <3>2. reload[r] \in ReloadType
      BY DEF TypeOK
    <3>3. [reload[r] EXCEPT
             !.pc = "scanning",
             !.data = [content |-> disk, dyn |-> << >>, next |-> 1,
                       stamp |-> loads + 1]] \in ReloadType
      BY <3>1, <3>2 DEF ReloadType
    <3>4. reload' \in [Reloaders -> ReloadType]
      BY <1>5, <2>2, <3>3 DEF BeginReload, TypeOK
    <3> QED BY <1>5, <2>2, <3>4 DEF BeginReload, TypeOK
  <2> QED BY <2>1, <2>2
<1>6. ASSUME NEW r \in Reloaders, ScanReload(r) PROVE TypeOK'
  <2> DEFINE d == reload[r].data
  <2>1. reload[r] \in ReloadType /\ d \in LoadType
    BY DEF TypeOK, ReloadType
  <2>2. PICK loaded \in Loadables(d.content, ReloadOrder[d.next]) :
          reload' = [reload EXCEPT ![r].data.dyn = MergeKind(d.dyn, loaded),
                                   ![r].data.next = d.next + 1]
    BY <1>6 DEF ScanReload
  <2>3. d.next \in 1..4
    BY <1>6, <2>1, Orders DEF ScanReload, LoadType
  <2>4. MergeKind(d.dyn, loaded) \in ListType
    BY <2>1, <2>2, LoadablesAreEnabled, MergeKindList DEF LoadType, ListType
  <2>5. [reload[r] EXCEPT !.data.dyn = MergeKind(d.dyn, loaded),
                          !.data.next = d.next + 1] \in ReloadType
    <3> DEFINE dyn == MergeKind(d.dyn, loaded)
    <3>1. d.next + 1 \in 1..5
      BY <2>3
    <3> HIDE DEF dyn, d
    <3>2. ASSUME NEW e \in LoadType, NEW next \in 1..5, NEW list \in ListType,
                 NEW c \in ReloadType, c.data = e
          PROVE  [c EXCEPT !.data.dyn = list, !.data.next = next] \in ReloadType
      <4>1. [e EXCEPT !.dyn = list, !.next = next] \in LoadType
        BY DEF LoadType
      <4>2. [c EXCEPT !.data = [e EXCEPT !.dyn = list, !.next = next]]
              \in ReloadType
        BY <4>1 DEF ReloadType
      <4>3. [c EXCEPT !.data.dyn = list, !.data.next = next]
              = [c EXCEPT !.data = [e EXCEPT !.dyn = list, !.next = next]]
        BY <3>2 DEF ReloadType, LoadType
      <4> QED BY <4>2, <4>3
    <3> QED BY <2>1, <2>4, <3>1, <3>2 DEF d, dyn
  <2>6. reload' \in [Reloaders -> ReloadType]
    BY <2>2, <2>5 DEF TypeOK
  <2> QED BY <1>6, <2>6 DEF ScanReload, TypeOK
<1>7. ASSUME NEW r \in Reloaders, RejectReload(r) PROVE TypeOK'
  BY <1>7 DEF RejectReload, TypeOK, snapshotVars
<1>8. ASSUME NEW r \in Reloaders, PublishReload(r) PROVE TypeOK'
  <2> DEFINE d == reload[r].data
  <2>1. reload[r] \in ReloadType /\ d \in LoadType
    BY DEF TypeOK, ReloadType
  <2>2. config' \in SnapshotType
    BY <1>8, <2>1 DEF PublishReload, LoadType, SnapshotType, TypeOK
  <2>3. reload' \in [Reloaders -> ReloadType]
    BY <1>8, <2>1 DEF PublishReload, ReloadType, TypeOK
  <2> QED BY <1>8, <2>2, <2>3 DEF PublishReload, TypeOK
<1>9. ASSUME NEW r \in Reloaders, FinishReload(r) PROVE TypeOK'
  BY <1>9 DEF FinishReload, TypeOK, snapshotVars
<1>10. ASSUME NEW r \in Reloaders, CancelReload(r) PROVE TypeOK'
  BY <1>10 DEF CancelReload, TypeOK, snapshotVars
<1>11. ASSUME BeginRefresh PROVE TypeOK'
  <2>1. \A n \in Nat, c \in Contents :
          [IdleRefresh EXCEPT !.pc = "scanning", !.version = n, !.refresh = c]
            \in RefreshType
    BY DEF RefreshType
  <2>2. config.version \in Nat /\ config.refresh \in Contents
    BY DEF TypeOK, SnapshotType
  <2>3. bg' = [IdleRefresh EXCEPT !.pc = "scanning", !.version = config.version,
                                  !.refresh = config.refresh]
    BY <1>11 DEF BeginRefresh
  <2>4. bg' \in RefreshType
    BY <2>1, <2>2, <2>3, Zenon
  <2> QED BY <1>11, <2>4 DEF BeginRefresh, TypeOK, snapshotVars
<1>12. ASSUME ScanRefresh PROVE TypeOK'
  <2>1. PICK loaded \in Loadables(bg.refresh, RefreshOrder[bg.next]) :
          bg' = [bg EXCEPT !.dyn = MergeKind(bg.dyn, loaded),
                           !.next = bg.next + 1]
    BY <1>12 DEF ScanRefresh
  <2>2. bg.next \in 1..3 /\ bg.refresh \in Contents /\ bg.dyn \in ListType
    BY <1>12, Orders DEF ScanRefresh, TypeOK, RefreshType
  <2>3. MergeKind(bg.dyn, loaded) \in ListType
    BY <2>1, <2>2, LoadablesAreEnabled, MergeKindList DEF ListType
  <2>4. ASSUME NEW list \in ListType, NEW n \in 1..4
        PROVE  [bg EXCEPT !.dyn = list, !.next = n] \in RefreshType
    BY DEF TypeOK, RefreshType
  <2>5. bg.next + 1 \in 1..4
    BY <2>2
  <2>6. bg' \in RefreshType
    BY <2>1, <2>3, <2>4, <2>5
  <2> QED BY <1>12, <2>6 DEF ScanRefresh, TypeOK, snapshotVars
<1>13. ASSUME GiveUpRefresh PROVE TypeOK'
  BY <1>13 DEF GiveUpRefresh, TypeOK, snapshotVars
<1>14. ASSUME ScanAntigravity PROVE TypeOK'
  <2>1. PICK loaded \in Loadables(bg.refresh, RefreshOrder[bg.next]) :
          bg' = [bg EXCEPT !.pc = "loaded", !.dyn = MergeKind(bg.dyn, loaded)]
    BY <1>14 DEF ScanAntigravity
  <2>2. bg.refresh \in Contents /\ bg.dyn \in ListType
    BY DEF TypeOK, RefreshType
  <2>3. MergeKind(bg.dyn, loaded) \in ListType
    BY <2>1, <2>2, LoadablesAreEnabled, MergeKindList DEF ListType
  <2>4. ASSUME NEW list \in ListType
        PROVE  [bg EXCEPT !.pc = "loaded", !.dyn = list] \in RefreshType
    BY DEF TypeOK, RefreshType
  <2>5. bg' \in RefreshType
    BY <2>1, <2>3, <2>4
  <2> QED BY <1>14, <2>5 DEF ScanAntigravity, TypeOK, snapshotVars
<1>15. ASSUME PublishRefresh PROVE TypeOK'
  <2>1. bg \in RefreshType /\ config \in SnapshotType
    BY DEF TypeOK
  <2>2. config' \in SnapshotType
    <3>1. CASE config' = config
      BY <2>1, <3>1
    <3>2. CASE config' = [config EXCEPT !.version = config.version + 1,
                                        !.static = bg.refresh, !.dyn = bg.dyn]
      <4>1. ASSUME NEW s \in SnapshotType, NEW n \in Nat, NEW c \in Contents,
                   NEW list \in ListType
            PROVE  [s EXCEPT !.version = n, !.static = c, !.dyn = list]
                     \in SnapshotType
        BY DEF SnapshotType
      <4>2. config.version + 1 \in Nat /\ bg.refresh \in Contents
              /\ bg.dyn \in ListType
        BY <2>1 DEF SnapshotType, RefreshType
      <4> QED BY <2>1, <3>2, <4>1, <4>2
    <3> QED BY <1>15, <3>1, <3>2 DEF PublishRefresh
  <2> QED BY <1>15, <2>2 DEF PublishRefresh, TypeOK
<1>16. ASSUME NEW q \in Requests, CaptureRequest(q) PROVE TypeOK'
  <2>1. req' \in [Requests -> RequestType]
    BY <1>16 DEF CaptureRequest, TypeOK, RequestType, SnapshotType
  <2> QED BY <1>16, <2>1 DEF CaptureRequest, TypeOK, snapshotVars
<1>17. ASSUME NEW q \in Requests, NEW f \in Features, MarkUnfit(q, f)
       PROVE  TypeOK'
  <2>1. [kind |-> f, seen |-> req[q].seen] \in FlagType
    BY DEF FlagType, TypeOK, RequestType
  <2> QED BY <1>17, <2>1 DEF MarkUnfit, TypeOK
<1>18. ASSUME NEW q \in Requests, EndRequest(q) PROVE TypeOK'
  BY <1>18 DEF EndRequest, TypeOK, snapshotVars
<1>19. ASSUME UNCHANGED vars PROVE TypeOK'
  BY <1>19 DEF TypeOK, vars
<1> QED
  BY <1>1, <1>2, <1>3, <1>4, <1>5, <1>6, <1>7, <1>8, <1>9, <1>10, <1>11, <1>12,
     <1>13, <1>14, <1>15, <1>16, <1>17, <1>18, <1>19
  DEF Next, User, Reload, Background

\* Every variable always holds a value of its type.
THEOREM TypeCorrect == Spec => []TypeOK
BY InitTypeOK, NextTypeOK, PTL DEF Spec
-----------------------------------------------------------------------------
(***************************************************************************)
(* Reloads publish in the order of their loads.  A reload that goes on     *)
(* after its load holds the lock, so nobody has loaded since.              *)
(***************************************************************************)
LockInv == \A r \in Reloaders :
             reload[r].pc \in {"scanning", "published"} => holder = r

LoadInv ==
  /\ config.stamp <= loads
  /\ \A r \in Reloaders : reload[r].pc = "scanning" =>
       /\ config.stamp <= reload[r].data.stamp
       /\ reload[r].data.stamp <= loads

LEMMA InitLockInv == Init => LockInv /\ LoadInv
BY DEF Init, LockInv, LoadInv, IdleReload, InitialSnapshot

\* A refresh leaves the stamp of the snapshot alone.
LEMMA RefreshKeepsStamp ==
  ASSUME TypeOK, PublishRefresh
  PROVE  /\ config'.stamp = config.stamp
         /\ config'.version >= config.version
<1>1. config \in SnapshotType
  BY DEF TypeOK
<1>2. CASE config' = config
  BY <1>1, <1>2 DEF SnapshotType
<1>3. CASE config' = [config EXCEPT !.version = config.version + 1,
                                    !.static = bg.refresh, !.dyn = bg.dyn]
  BY <1>1, <1>3 DEF SnapshotType
<1> QED BY <1>2, <1>3 DEF PublishRefresh

LEMMA NextLockInv ==
  TypeOK /\ LockInv /\ LoadInv /\ [Next]_vars => LockInv' /\ LoadInv'
<1> SUFFICES ASSUME TypeOK, LockInv, LoadInv, [Next]_vars
             PROVE  LockInv' /\ LoadInv'
  OBVIOUS
<1>1. ASSUME NEW r \in Reloaders, CallReload(r) PROVE LockInv' /\ LoadInv'
  BY <1>1 DEF CallReload, IdleReload, LockInv, LoadInv, TypeOK, ReloadType
<1>2. ASSUME NEW r \in Reloaders, BeginReload(r) PROVE LockInv' /\ LoadInv'
  <2>1. holder = NoReloader /\ holder \notin Reloaders
    BY <1>2, ActorsAssumption DEF BeginReload, MayTakeLock
  <2>2. \A s \in Reloaders : reload[s].pc \notin {"scanning", "published"}
    BY <2>1 DEF LockInv
  <2>3. loads \in Nat /\ config.stamp \in Nat
    BY DEF TypeOK, SnapshotType
  <2>4. CASE disk \in Unloadable
    BY <1>2, <2>2, <2>3, <2>4 DEF BeginReload, IdleReload, LockInv, LoadInv, TypeOK
  <2>5. CASE disk \notin Unloadable
    <3>1. \A s \in Reloaders \ {r} : reload'[s] = reload[s]
      BY <1>2, <2>5 DEF BeginReload, TypeOK
    <3>2. reload[r] \in ReloadType
      BY DEF TypeOK
    <3>3. reload'[r].data.stamp = loads + 1 /\ holder' = r
      BY <1>2, <2>5, <3>2 DEF BeginReload, TypeOK, ReloadType
    <3> QED BY <1>2, <2>2, <2>3, <3>1, <3>3 DEF BeginReload, LockInv, LoadInv
  <2> QED BY <2>4, <2>5
<1>3. ASSUME NEW r \in Reloaders, ScanReload(r) PROVE LockInv' /\ LoadInv'
  <2>1. \A s \in Reloaders : /\ reload'[s].pc = reload[s].pc
                             /\ reload'[s].data.stamp = reload[s].data.stamp
    BY <1>3 DEF ScanReload, TypeOK, ReloadType, LoadType
  <2> QED BY <1>3, <2>1 DEF ScanReload, LockInv, LoadInv
<1>4. ASSUME NEW r \in Reloaders, RejectReload(r) PROVE LockInv' /\ LoadInv'
  BY <1>4 DEF RejectReload, snapshotVars, IdleReload, LockInv, LoadInv, TypeOK
<1>5. ASSUME NEW r \in Reloaders, PublishReload(r) PROVE LockInv' /\ LoadInv'
  <2>1. config'.stamp = reload[r].data.stamp
    BY <1>5 DEF PublishReload
  <2>2. \A s \in Reloaders \ {r} : reload[s].pc # "scanning"
    BY <1>5 DEF PublishReload, LockInv
  <2> QED BY <1>5, <2>1, <2>2
          DEF PublishReload, LockInv, LoadInv, TypeOK, ReloadType
<1>6. ASSUME NEW r \in Reloaders, FinishReload(r) PROVE LockInv' /\ LoadInv'
  BY <1>6 DEF FinishReload, snapshotVars, IdleReload, LockInv, LoadInv, TypeOK
<1>7. ASSUME NEW r \in Reloaders, CancelReload(r) PROVE LockInv' /\ LoadInv'
  BY <1>7 DEF CancelReload, snapshotVars, IdleReload, LockInv, LoadInv, TypeOK
<1>8. ASSUME PublishRefresh PROVE LockInv' /\ LoadInv'
  BY <1>8, RefreshKeepsStamp DEF PublishRefresh, LockInv, LoadInv
<1>9. ASSUME UNCHANGED <<config, reload, holder, loads>>
      PROVE  LockInv' /\ LoadInv'
  BY <1>9 DEF LockInv, LoadInv
<1> QED
  BY <1>1, <1>2, <1>3, <1>4, <1>5, <1>6, <1>7, <1>8, <1>9
  DEF Next, User, Reload, Background, EditConfig, EnableCred, DisableCred,
      BeginRefresh, ScanRefresh, GiveUpRefresh, ScanAntigravity, CaptureRequest,
      MarkUnfit, EndRequest, snapshotVars, vars

\* The configuration in force is always the one read last.
LEMMA StepKeepsOrder ==
  TypeOK /\ LoadInv /\ [Next]_vars => config'.stamp >= config.stamp
<1> SUFFICES ASSUME TypeOK, LoadInv, [Next]_vars
             PROVE  config'.stamp >= config.stamp
  OBVIOUS
<1>1. config.stamp \in Nat
  BY DEF TypeOK, SnapshotType
<1>2. ASSUME NEW r \in Reloaders, PublishReload(r)
      PROVE  config'.stamp >= config.stamp
  BY <1>1, <1>2 DEF PublishReload, LoadInv, TypeOK, ReloadType, LoadType
<1>3. ASSUME PublishRefresh PROVE config'.stamp >= config.stamp
  BY <1>1, <1>3, RefreshKeepsStamp
<1>4. ASSUME UNCHANGED config PROVE config'.stamp >= config.stamp
  BY <1>1, <1>4
<1> QED
  BY <1>2, <1>3, <1>4
  DEF Next, User, Reload, Background, EditConfig, EnableCred, DisableCred,
      CallReload, BeginReload, ScanReload, RejectReload, FinishReload,
      CancelReload, BeginRefresh, ScanRefresh, GiveUpRefresh, ScanAntigravity,
      CaptureRequest, MarkUnfit, EndRequest, snapshotVars, vars

\* No reload overwrites the work of one that read the file after it.
THEOREM ReloadsInOrder == Spec => ReloadsPublishInLoadOrder
<1>1. Spec => []LoadInv
  BY InitTypeOK, NextTypeOK, InitLockInv, NextLockInv, PTL DEF Spec
<1> QED BY <1>1, TypeCorrect, StepKeepsOrder, PTL DEF Spec, ReloadsPublishInLoadOrder
-----------------------------------------------------------------------------
(***************************************************************************)
(* The unfit registry.  A request of the generation in force captured the  *)
(* configuration in force, so what it marks belongs to it.                 *)
(***************************************************************************)
RequestInv == \A q \in Requests : req[q].pc = "sent" =>
                /\ req[q].gen <= generation
                /\ req[q].gen = generation => req[q].seen = config.stamp

LEMMA InitRequestInv == Init => RequestInv /\ UnfitFlagsFromCurrentConfig
BY DEF Init, RequestInv, UnfitFlagsFromCurrentConfig, IdleRequest

LEMMA NextRequestInv ==
  TypeOK /\ RequestInv /\ UnfitFlagsFromCurrentConfig /\ [Next]_vars
    => RequestInv' /\ UnfitFlagsFromCurrentConfig'
<1> SUFFICES ASSUME TypeOK, RequestInv, UnfitFlagsFromCurrentConfig, [Next]_vars
             PROVE  RequestInv' /\ UnfitFlagsFromCurrentConfig'
  OBVIOUS
<1> USE DEF RequestInv, UnfitFlagsFromCurrentConfig
<1>1. ASSUME NEW r \in Reloaders, PublishReload(r)
      PROVE  RequestInv' /\ UnfitFlagsFromCurrentConfig'
  BY <1>1 DEF PublishReload, TypeOK, RequestType
<1>2. ASSUME PublishRefresh PROVE RequestInv' /\ UnfitFlagsFromCurrentConfig'
  BY <1>2, RefreshKeepsStamp DEF PublishRefresh
<1>3. ASSUME NEW q \in Requests, CaptureRequest(q)
      PROVE  RequestInv' /\ UnfitFlagsFromCurrentConfig'
  BY <1>3 DEF CaptureRequest, snapshotVars, TypeOK
<1>4. ASSUME NEW q \in Requests, NEW f \in Features, MarkUnfit(q, f)
      PROVE  RequestInv' /\ UnfitFlagsFromCurrentConfig'
  BY <1>4 DEF MarkUnfit
<1>5. ASSUME NEW q \in Requests, EndRequest(q)
      PROVE  RequestInv' /\ UnfitFlagsFromCurrentConfig'
  BY <1>5 DEF EndRequest, IdleRequest, snapshotVars, TypeOK
<1>6. ASSUME UNCHANGED <<config, flags, generation, req>>
      PROVE  RequestInv' /\ UnfitFlagsFromCurrentConfig'
  BY <1>6
<1> QED
  BY <1>1, <1>2, <1>3, <1>4, <1>5, <1>6
  DEF Next, User, Reload, Background, EditConfig, EnableCred, DisableCred,
      CallReload, BeginReload, ScanReload, RejectReload, FinishReload,
      CancelReload, BeginRefresh, ScanRefresh, GiveUpRefresh, ScanAntigravity,
      snapshotVars, vars

\* Whatever the requests, their marks and the reloads that overtake them, the
\* registry speaks of the upstreams in force only.
THEOREM UnfitFlagsCurrent == Spec => []UnfitFlagsFromCurrentConfig
<1>1. Spec => [](RequestInv /\ UnfitFlagsFromCurrentConfig)
  BY InitTypeOK, NextTypeOK, InitRequestInv, NextRequestInv, PTL DEF Spec
<1> QED BY <1>1, PTL
-----------------------------------------------------------------------------
(***************************************************************************)
(* What a reload left out.  The list that is published and every list that *)
(* can still be published is clean of it: those of the holder of the lock, *)
(* because it only loads what is enabled, and that of a background round,  *)
(* unless a reload has outdated the version the round started from.        *)
(***************************************************************************)
Clean(list, out) == \A i \in DOMAIN list : list[i] \cap out = {}

DropInv ==
  /\ dropped \cap enabled = {}
  /\ Clean(config.dyn, dropped)
  /\ \A r \in Reloaders :
       reload[r].pc = "scanning" => Clean(reload[r].data.dyn, dropped)
  /\ bg.pc # "idle" =>
       /\ bg.version <= config.version
       /\ bg.version = config.version => Clean(bg.dyn, dropped)

LEMMA MergeKindClean ==
  ASSUME NEW list \in ListType, NEW loaded \in SUBSET Creds, NEW out,
         Clean(list, out), loaded \cap out = {}
  PROVE  Clean(MergeKind(list, loaded), out)
BY MergeKindLoaded DEF Clean

LEMMA CleanOfFewer ==
  ASSUME NEW list, NEW out, NEW fewer \in SUBSET out, Clean(list, out)
  PROVE  Clean(list, fewer)
BY DEF Clean

LEMMA InitDropInv == Init => DropInv
BY DEF Init, DropInv, Clean, InitialSnapshot, IdleReload, IdleRefresh

LEMMA NextDropInv ==
  TypeOK /\ LockInv /\ DropInv /\ [Next]_vars => DropInv'
<1> SUFFICES ASSUME TypeOK, LockInv, DropInv, [Next]_vars PROVE DropInv'
  OBVIOUS
<1>1. ASSUME NEW cred \in Creds, EnableCred(cred) PROVE DropInv'
  <2>1. dropped' \subseteq dropped
    BY <1>1 DEF EnableCred
  <2> QED BY <1>1, <2>1, CleanOfFewer DEF EnableCred, DropInv
<1>2. ASSUME NEW cred \in Creds, DisableCred(cred) PROVE DropInv'
  BY <1>2 DEF DisableCred, DropInv
<1>3. ASSUME NEW r \in Reloaders, CallReload(r) PROVE DropInv'
  BY <1>3 DEF CallReload, IdleReload, DropInv, TypeOK
<1>4. ASSUME NEW r \in Reloaders, BeginReload(r) PROVE DropInv'
  <2>1. CASE disk \in Unloadable
    BY <1>4, <2>1 DEF BeginReload, IdleReload, DropInv, TypeOK
  <2>2. CASE disk \notin Unloadable
    <3>1. \A s \in Reloaders \ {r} : reload'[s] = reload[s]
      BY <1>4, <2>2 DEF BeginReload, TypeOK
    <3>2. reload[r] \in ReloadType
      BY DEF TypeOK
    <3>3. reload'[r].data.dyn = << >>
      BY <1>4, <2>2, <3>2 DEF BeginReload, TypeOK, ReloadType
    <3>4. Clean(reload'[r].data.dyn, dropped)
      BY <3>3 DEF Clean
    <3> QED BY <1>4, <3>1, <3>4 DEF BeginReload, DropInv
  <2> QED BY <2>1, <2>2
<1>5. ASSUME NEW r \in Reloaders, ScanReload(r) PROVE DropInv'
  <2> DEFINE d == reload[r].data
  <2>1. reload[r] \in ReloadType /\ d \in LoadType
    BY DEF TypeOK, ReloadType
  <2>2. PICK loaded \in Loadables(d.content, ReloadOrder[d.next]) :
          reload' = [reload EXCEPT ![r].data.dyn = MergeKind(d.dyn, loaded),
                                   ![r].data.next = d.next + 1]
    BY <1>5 DEF ScanReload
  <2>3. Clean(d.dyn, dropped)
    BY <1>5 DEF ScanReload, DropInv
  <2>4. loaded \subseteq Creds /\ loaded \cap dropped = {}
    BY <2>1, <2>2, LoadablesAreEnabled DEF DropInv, LoadType
  <2>5. Clean(MergeKind(d.dyn, loaded), dropped)
    BY <2>1, <2>3, <2>4, MergeKindClean DEF LoadType
  <2>6. reload'[r].data.dyn = MergeKind(d.dyn, loaded)
    BY <2>1, <2>2 DEF TypeOK, ReloadType, LoadType
  <2>7. \A s \in Reloaders \ {r} : reload'[s] = reload[s]
    BY <2>2 DEF TypeOK
  <2> QED BY <1>5, <2>5, <2>6, <2>7 DEF ScanReload, DropInv
<1>6. ASSUME NEW r \in Reloaders, RejectReload(r) PROVE DropInv'
  BY <1>6 DEF RejectReload, snapshotVars, IdleReload, DropInv, TypeOK
<1>7. ASSUME NEW r \in Reloaders, PublishReload(r) PROVE DropInv'
  <2> DEFINE d == reload[r].data
             left == {cred \in Creds \ enabled :
                        \A i \in DOMAIN d.dyn : cred \notin d.dyn[i]}
  <2>1. /\ config'.version = config.version + 1 /\ config'.dyn = d.dyn
        /\ dropped' = dropped \cup left
        /\ UNCHANGED <<enabled, bg>>
    BY <1>7 DEF PublishReload
  <2>2. Clean(d.dyn, dropped)
    BY <1>7 DEF PublishReload, DropInv
  <2>3. Clean(d.dyn, dropped')
    BY <2>1, <2>2 DEF Clean
  <2>4. \A s \in Reloaders : reload'[s].pc # "scanning"
    BY <1>7 DEF PublishReload, LockInv, TypeOK, ReloadType
  <2>5. bg.pc # "idle" => bg.version < config'.version
    BY <2>1 DEF DropInv, TypeOK, RefreshType, SnapshotType
  <2>6. bg.version \in Nat /\ config'.version \in Nat
    BY <2>1 DEF TypeOK, RefreshType, SnapshotType
  <2>7. dropped' \cap enabled' = {}
    BY <2>1 DEF DropInv
  <2> HIDE DEF d, left
  <2> QED BY <2>1, <2>3, <2>4, <2>5, <2>6, <2>7 DEF DropInv
<1>8. ASSUME NEW r \in Reloaders, FinishReload(r) PROVE DropInv'
  BY <1>8 DEF FinishReload, snapshotVars, IdleReload, DropInv, TypeOK
<1>9. ASSUME NEW r \in Reloaders, CancelReload(r) PROVE DropInv'
  BY <1>9 DEF CancelReload, snapshotVars, IdleReload, DropInv, TypeOK
<1>10. ASSUME BeginRefresh PROVE DropInv'
  <2>1. bg'.version = config.version /\ bg'.dyn = << >>
    BY <1>10 DEF BeginRefresh, IdleRefresh
  <2>2. Clean(bg'.dyn, dropped) /\ config.version \in Nat
    BY <2>1 DEF Clean, TypeOK, SnapshotType
  <2> QED BY <1>10, <2>1, <2>2 DEF BeginRefresh, snapshotVars, DropInv
<1>11. ASSUME NEW loaded \in Loadables(bg.refresh, RefreshOrder[bg.next]),
              bg.pc = "scanning", bg'.version = bg.version,
              bg'.dyn = MergeKind(bg.dyn, loaded),
              UNCHANGED <<enabled, reload, snapshotVars>>
       PROVE  DropInv'
  <2>1. bg.refresh \in Contents /\ bg.dyn \in ListType
    BY DEF TypeOK, RefreshType
  <2>2. loaded \subseteq Creds /\ loaded \cap dropped = {}
    BY <2>1, LoadablesAreEnabled DEF DropInv
  <2>3. Clean(bg.dyn, dropped) => Clean(bg'.dyn, dropped)
    BY <1>11, <2>1, <2>2, MergeKindClean
  <2> QED BY <1>11, <2>3 DEF snapshotVars, DropInv
<1>12. ASSUME ScanRefresh PROVE DropInv'
  BY <1>11, <1>12 DEF ScanRefresh, TypeOK, RefreshType
<1>13. ASSUME GiveUpRefresh PROVE DropInv'
  BY <1>13 DEF GiveUpRefresh, IdleRefresh, snapshotVars, DropInv
<1>14. ASSUME ScanAntigravity PROVE DropInv'
  BY <1>11, <1>14 DEF ScanAntigravity, TypeOK, RefreshType
<1>15. ASSUME PublishRefresh PROVE DropInv'
  <2>1. bg'.pc = "idle" /\ UNCHANGED <<enabled, reload, dropped>>
    BY <1>15 DEF PublishRefresh, IdleRefresh
  <2>2. Clean(config'.dyn, dropped)
    <3>1. CASE config' = config
      BY <3>1 DEF DropInv
    <3>2. CASE /\ bg.version = config.version
               /\ config' = [config EXCEPT !.version = config.version + 1,
                                           !.static = bg.refresh, !.dyn = bg.dyn]
      BY <1>15, <3>2 DEF PublishRefresh, DropInv, TypeOK, SnapshotType
    <3> QED BY <1>15, <3>1, <3>2 DEF PublishRefresh
  <2> QED BY <2>1, <2>2 DEF DropInv
<1>16. ASSUME UNCHANGED <<enabled, config, reload, bg, dropped>> PROVE DropInv'
  BY <1>16 DEF DropInv
<1> QED
  BY <1>1, <1>2, <1>3, <1>4, <1>5, <1>6, <1>7, <1>8, <1>9, <1>10, <1>12, <1>13,
     <1>14, <1>15, <1>16
  DEF Next, User, Reload, Background, EditConfig, CaptureRequest, MarkUnfit,
      EndRequest, snapshotVars, vars

\* A credential that a reload left out because it was disabled stays out of
\* every snapshot until it is enabled.
THEOREM DroppedStays == Spec => []DroppedStayOut
<1>1. Spec => [](TypeOK /\ LockInv)
  BY InitTypeOK, NextTypeOK, InitLockInv, NextLockInv, PTL DEF Spec
<1>2. Spec => []DropInv
  BY <1>1, InitDropInv, NextDropInv, PTL DEF Spec
<1>3. DropInv => DroppedStayOut
  BY DEF DropInv, DroppedStayOut, Clean
<1> QED BY <1>2, <1>3, PTL
-----------------------------------------------------------------------------
(***************************************************************************)
(* The snapshot is one whole configuration.  A reload brings all parts of  *)
(* it from one file; a background round that the version lets through      *)
(* started from the directories that are still in force.                   *)
(***************************************************************************)
WholeInv ==
  /\ config.runtime = config.refresh
  /\ config.static = config.refresh
  /\ config.dyn \in Lists(config.refresh)
  /\ \A r \in Reloaders : reload[r].pc = "scanning" =>
       reload[r].data.dyn \in Lists(reload[r].data.content)
  /\ bg.pc # "idle" =>
       /\ bg.dyn \in Lists(bg.refresh)
       /\ bg.version = config.version => bg.refresh = config.refresh

LEMMA InitWholeInv == Init => WholeInv
BY StartupListsType
DEF Init, WholeInv, InitialSnapshot, IdleReload, IdleRefresh

LEMMA MergeKindLists ==
  ASSUME NEW c \in Contents, NEW k, NEW list \in Lists(c),
         NEW loaded \in Loadables(c, k)
  PROVE  MergeKind(list, loaded) \in Lists(c)
<1> DEFINE S == (SUBSET CredsOf[c]) \ {{}}
<1>1. loaded # {} => loaded \in S
  BY LoadablesAreEnabled
<1> HIDE DEF S
<1>2. MergeKind(list, loaded) \in Seq(S)
  BY <1>1, MergeKindList DEF Lists, S
<1> QED BY <1>2 DEF Lists, S

LEMMA EmptyList == \A c : << >> \in Lists(c)
BY DEF Lists

\* What a publication of the background refresh does to the parts.
LEMMA RefreshParts ==
  ASSUME TypeOK, WholeInv, PublishRefresh
  PROVE  /\ config'.runtime = config.runtime
         /\ config'.refresh = config.refresh
         /\ config'.static = config.static
         /\ config'.dyn \in Lists(config.refresh)
<1>1. config \in SnapshotType /\ bg.pc # "idle"
  BY DEF TypeOK, PublishRefresh
<1>2. CASE config' = config
  BY <1>2 DEF WholeInv
<1>3. CASE /\ bg.version = config.version
           /\ config' = [config EXCEPT !.version = config.version + 1,
                                       !.static = bg.refresh, !.dyn = bg.dyn]
  BY <1>1, <1>3 DEF SnapshotType, WholeInv
<1> QED BY <1>2, <1>3 DEF PublishRefresh

LEMMA NextWholeInv ==
  TypeOK /\ DropInv /\ WholeInv /\ [Next]_vars => WholeInv'
<1> SUFFICES ASSUME TypeOK, DropInv, WholeInv, [Next]_vars PROVE WholeInv'
  OBVIOUS
<1>1. ASSUME NEW r \in Reloaders, CallReload(r) PROVE WholeInv'
  BY <1>1 DEF CallReload, IdleReload, WholeInv, TypeOK
<1>2. ASSUME NEW r \in Reloaders, BeginReload(r) PROVE WholeInv'
  <2>1. CASE disk \in Unloadable
    BY <1>2, <2>1 DEF BeginReload, IdleReload, WholeInv, TypeOK
  <2>2. CASE disk \notin Unloadable
    <3>1. \A s \in Reloaders \ {r} : reload'[s] = reload[s]
      BY <1>2, <2>2 DEF BeginReload, TypeOK
    <3>2. reload[r] \in ReloadType
      BY DEF TypeOK
    <3>3. reload'[r].data.dyn = << >>
      BY <1>2, <2>2, <3>2 DEF BeginReload, TypeOK, ReloadType
    <3>4. reload'[r].data.dyn \in Lists(reload'[r].data.content)
      BY <3>3, EmptyList
    <3> QED BY <1>2, <3>1, <3>4 DEF BeginReload, WholeInv
  <2> QED BY <2>1, <2>2
<1>3. ASSUME NEW r \in Reloaders, ScanReload(r) PROVE WholeInv'
  <2> DEFINE d == reload[r].data
  <2>1. reload[r] \in ReloadType /\ d \in LoadType /\ d.content \in Contents
    BY DEF TypeOK, ReloadType, LoadType
  <2>2. PICK loaded \in Loadables(d.content, ReloadOrder[d.next]) :
          reload' = [reload EXCEPT ![r].data.dyn = MergeKind(d.dyn, loaded),
                                   ![r].data.next = d.next + 1]
    BY <1>3 DEF ScanReload
  <2>3. d.dyn \in Lists(d.content)
    BY <1>3 DEF ScanReload, WholeInv
  <2>4. MergeKind(d.dyn, loaded) \in Lists(d.content)
    BY <2>1, <2>2, <2>3, MergeKindLists
  <2>5. /\ reload'[r].data.dyn = MergeKind(d.dyn, loaded)
        /\ reload'[r].data.content = d.content
    BY <2>1, <2>2 DEF TypeOK, ReloadType, LoadType
  <2>6. \A s \in Reloaders \ {r} : reload'[s] = reload[s]
    BY <2>2 DEF TypeOK
  <2> QED BY <1>3, <2>4, <2>5, <2>6 DEF ScanReload, WholeInv
<1>4. ASSUME NEW r \in Reloaders, RejectReload(r) PROVE WholeInv'
  BY <1>4 DEF RejectReload, snapshotVars, IdleReload, WholeInv, TypeOK
<1>5. ASSUME NEW r \in Reloaders, PublishReload(r) PROVE WholeInv'
  <2>1. /\ config'.runtime = reload[r].data.content
        /\ config'.static = reload[r].data.content
        /\ config'.refresh = reload[r].data.content
        /\ config'.dyn = reload[r].data.dyn
        /\ config'.version = config.version + 1
        /\ UNCHANGED bg
    BY <1>5 DEF PublishReload
  <2>2. config'.dyn \in Lists(config'.refresh)
    BY <1>5, <2>1 DEF PublishReload, WholeInv
  <2>3. bg.pc # "idle" => bg.version # config'.version
    BY <2>1 DEF DropInv, TypeOK, RefreshType, SnapshotType
  <2>4. \A s \in Reloaders : reload'[s].pc = "scanning" =>
          reload[s].pc = "scanning" /\ reload'[s] = reload[s]
    BY <1>5 DEF PublishReload, TypeOK, ReloadType
  <2> QED BY <2>1, <2>2, <2>3, <2>4 DEF WholeInv
<1>6. ASSUME NEW r \in Reloaders, FinishReload(r) PROVE WholeInv'
  BY <1>6 DEF FinishReload, snapshotVars, IdleReload, WholeInv, TypeOK
<1>7. ASSUME NEW r \in Reloaders, CancelReload(r) PROVE WholeInv'
  BY <1>7 DEF CancelReload, snapshotVars, IdleReload, WholeInv, TypeOK
<1>8. ASSUME BeginRefresh PROVE WholeInv'
  <2>1. bg'.refresh = config.refresh /\ bg'.dyn = << >>
    BY <1>8 DEF BeginRefresh, IdleRefresh
  <2> QED BY <1>8, <2>1, EmptyList DEF BeginRefresh, snapshotVars, WholeInv
<1>9. ASSUME NEW loaded \in Loadables(bg.refresh, RefreshOrder[bg.next]),
             bg.pc = "scanning", bg'.version = bg.version,
             bg'.refresh = bg.refresh, bg'.dyn = MergeKind(bg.dyn, loaded),
             UNCHANGED <<reload, snapshotVars>>
      PROVE  WholeInv'
  <2>1. bg.refresh \in Contents /\ bg.dyn \in Lists(bg.refresh)
    BY <1>9 DEF TypeOK, RefreshType, WholeInv
  <2>2. bg'.dyn \in Lists(bg'.refresh)
    BY <1>9, <2>1, MergeKindLists
  <2> QED BY <1>9, <2>2 DEF snapshotVars, WholeInv
<1>10. ASSUME ScanRefresh PROVE WholeInv'
  BY <1>9, <1>10 DEF ScanRefresh, TypeOK, RefreshType
<1>11. ASSUME GiveUpRefresh PROVE WholeInv'
  BY <1>11 DEF GiveUpRefresh, IdleRefresh, snapshotVars, WholeInv
<1>12. ASSUME ScanAntigravity PROVE WholeInv'
  BY <1>9, <1>12 DEF ScanAntigravity, TypeOK, RefreshType
<1>13. ASSUME PublishRefresh PROVE WholeInv'
  BY <1>13, RefreshParts DEF PublishRefresh, IdleRefresh, WholeInv
<1>14. ASSUME UNCHANGED <<config, reload, bg>> PROVE WholeInv'
  BY <1>14 DEF WholeInv
<1> QED
  BY <1>1, <1>2, <1>3, <1>4, <1>5, <1>6, <1>7, <1>8, <1>10, <1>11, <1>12, <1>13,
     <1>14
  DEF Next, User, Reload, Background, EditConfig, EnableCred, DisableCred,
      CaptureRequest, MarkUnfit, EndRequest, snapshotVars, vars

\* The part of the snapshot that PublishedConfig speaks of.
Effective == [runtime |-> config.runtime, static |-> config.static,
              refresh |-> config.refresh, dyn |-> config.dyn]

LEMMA InitRefines == TypeOK /\ WholeInv => PC!Init
BY DEF TypeOK, SnapshotType, WholeInv, PC!Init, PC!Whole, PC!ListsOf, Lists

\* A reload is one Replace, a publication of the refresh one Refresh, and every
\* other step changes nothing that is in force.
LEMMA NextRefines ==
  TypeOK /\ WholeInv /\ WholeInv' /\ [Next]_vars
    => PC!Next \/ UNCHANGED Effective
<1> SUFFICES ASSUME TypeOK, WholeInv, WholeInv', [Next]_vars
             PROVE  PC!Next \/ UNCHANGED Effective
  OBVIOUS
<1>1. ASSUME NEW r \in Reloaders, PublishReload(r) PROVE PC!Next
  <2>1. reload[r].data.content \in Contents
    BY DEF TypeOK, ReloadType, LoadType
  <2>2. config'.refresh = reload[r].data.content
    BY <1>1 DEF PublishReload
  <2>3. PC!Replace
    BY <2>1, <2>2 DEF WholeInv, PC!Replace, PC!Whole, PC!ListsOf, Lists
  <2> QED BY <2>3 DEF PC!Next
<1>2. ASSUME PublishRefresh PROVE PC!Next
  <2>1. PC!Refresh
    BY <1>2, RefreshParts DEF PC!Refresh, PC!ListsOf, Lists
  <2> QED BY <2>1 DEF PC!Next
<1>3. ASSUME UNCHANGED config PROVE UNCHANGED Effective
  BY <1>3 DEF Effective
<1> QED
  BY <1>1, <1>2, <1>3
  DEF Next, User, Reload, Background, EditConfig, EnableCred, DisableCred,
      CallReload, BeginReload, ScanReload, RejectReload, FinishReload,
      CancelReload, BeginRefresh, ScanRefresh, GiveUpRefresh, ScanAntigravity,
      CaptureRequest, MarkUnfit, EndRequest, snapshotVars, vars

\* The proxy implements what PublishedConfig promises: a request never finds a
\* mixture of two files, or a credential from a directory no longer named.
THEOREM SnapshotIsWhole == Spec => ImplementsPublishedConfig
<1>1. Spec => [](TypeOK /\ DropInv)
  BY InitTypeOK, NextTypeOK, InitLockInv, NextLockInv, InitDropInv, NextDropInv,
     PTL DEF Spec
<1>2. Spec => []WholeInv
  BY <1>1, InitWholeInv, NextWholeInv, PTL DEF Spec
<1>3. TypeOK /\ WholeInv /\ WholeInv' /\ [Next]_vars => [PC!Next]_Effective
  BY NextRefines
<1> QED
  BY <1>1, <1>2, <1>3, InitRefines, PTL
  DEF Spec, ImplementsPublishedConfig, PC!Spec, Effective
=============================================================================
