------------------------ MODULE MCCredentialRefresh ------------------------
(***************************************************************************)
(* Two requests that share an account; one request and one scan.  Three    *)
(* tokens: the one in the file at the start, its successor, and the        *)
(* successor of that or the one of a login.                                *)
(***************************************************************************)
EXTENDS CredentialRefresh

CONSTANTS c1, c2

MCCallers == {c1, c2}

MCScenes == {[kind |-> "claude", scans |-> {}],
             [kind |-> "codex", scans |-> {c2}],
             [kind |-> "antigravity", scans |-> {c2}]}
MCRace == {[kind |-> "claude", scans |-> {c2}]}
=============================================================================
