--------------------------- MODULE PublishedConfig ---------------------------
(***************************************************************************)
(* What the proxy promises of its effective configuration: a request that  *)
(* takes the snapshot always finds one whole configuration in it.  The     *)
(* runtime settings, the static providers and the inputs of the background *)
(* refresh come from one and the same loaded file, and every dynamic       *)
(* provider from a credential directory which that file names.  A reload   *)
(* replaces all four together; the background refresh replaces the dynamic *)
(* providers only, by what it loaded from the directories in force.        *)
(***************************************************************************)
EXTENDS Naturals, Sequences

CONSTANTS Contents,   \* what the configuration file can hold
          Creds,      \* the OAuth credential files
          CredsOf     \* the credentials in the directories a content names

VARIABLE effective    \* the configuration in force

\* The dynamic providers a scan of the directories of c can build: one entry
\* for each kind of credential that yielded any, in the order of the scan.
ListsOf(c) == Seq((SUBSET CredsOf[c]) \ {{}})

Whole(c, list) == [runtime |-> c, static |-> c, refresh |-> c, dyn |-> list]

Init == \E c \in Contents : /\ effective = Whole(c, effective.dyn)
                            /\ effective.dyn \in ListsOf(c)

\* A successful reload puts another content, and what it scanned, in force.
Replace == \E c \in Contents : /\ effective' = Whole(c, effective'.dyn)
                               /\ effective'.dyn \in ListsOf(c)

\* A background refresh exchanges the dynamic providers.
Refresh == /\ effective' = [effective EXCEPT !.dyn = effective'.dyn]
           /\ effective'.dyn \in ListsOf(effective.refresh)

Next == Replace \/ Refresh

Spec == Init /\ [][Next]_effective
=============================================================================
