-------------------------- MODULE MCConfigSnapshot --------------------------
(***************************************************************************)
(* A proxy with one Antigravity and one Claude account, two callers of     *)
(* reload, one of them over HTTP, and one request in flight.  The files    *)
(* the user can write: two that load and differ in the directories they    *)
(* name, one that does not load, and one without a proxy, which is refused *)
(* after the scans if there are accounts.                                  *)
(***************************************************************************)
EXTENDS ConfigSnapshot

CONSTANTS wide, narrow, broken, direct, ag1, cl1, watcher, http, q1,
          effort

MCContents == {wide, narrow, broken, direct}
MCUnloadable == {broken}
MCInvalid == {}
MCNoProxy == {direct}
MCStartContent == wide
MCCreds == {ag1, cl1}
MCKindOf == [cred \in MCCreds |-> IF cred = ag1 THEN "antigravity" ELSE "claude"]
MCCredsOf == [c \in MCContents |-> IF c = narrow THEN {ag1} ELSE MCCreds]
MCReloaders == {watcher, http}
MCHttpReloaders == {http}
MCRequests == {q1}
MCFeatures == {effort}
=============================================================================
