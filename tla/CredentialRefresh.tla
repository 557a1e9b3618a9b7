-------------------------- MODULE CredentialRefresh --------------------------
(***************************************************************************)
(* One OAuth credential file and everybody who refreshes it.  Requests go  *)
(* through ensure_credential_fresh: look at the file, take the lock of the *)
(* refresh token found there, look again, exchange the refresh token at    *)
(* the token endpoint, save.  A request whose access token the upstream    *)
(* rejected calls it once more and names that token.  The locks live in a  *)
(* table that is pruned of locks nobody refers to.  Scans (startup,        *)
(* reload, background refresh) exchange and save with no lock.  A login    *)
(* replaces the file, a client may go away at any await.                   *)
(*                                                                         *)
(* Tokens are numbered in the order of issue: an exchange or a login       *)
(* issues an access token and, when the endpoint rotates, the refresh      *)
(* token of the same number.  A credential is one of each.                 *)
(*                                                                         *)
(* The kinds of account share this control flow and differ in two          *)
(* places: Codex repeats every failed exchange but one that names a reused *)
(* token, the others a 5xx only; Antigravity also looks for the project of *)
(* a credential that has none, between the exchange and the save.          *)
(***************************************************************************)
EXTENDS Naturals, FiniteSets

CONSTANTS Callers,  \* calls that refresh the credential
          Scenes,   \* kinds of account, and which calls are scans
          Retries,  \* attempts at the token endpoint (REFRESH_MAX_RETRIES)
          MaxTokens \* bound on the tokens issued

ASSUME CallersAssumption == IsFiniteSet(Callers)

ASSUME SceneAssumption ==
  Scenes \subseteq [kind : {"claude", "xai", "codex", "antigravity"},
                    scans : SUBSET Callers]

ASSUME BoundsAssumption == Retries \in Nat \ {0} /\ MaxTokens \in Nat \ {0}

VARIABLES
  file,     \* the credential file
  valid,    \* the refresh tokens the endpoint still accepts
  expired,  \* the access tokens that have expired, or will within the skew
  issued,   \* the tokens issued so far
  table,    \* REFRESH_LOCKS: which lock a refresh token has, 0 for none
  caller,   \* the state of each call
  replaced, \* refresh tokens whose successor has been saved
  scene     \* what kind of credential it is, and which calls are scans

vars == <<file, valid, expired, issued, table, caller, replaced, scene>>

Scans == scene.scans
Requests == Callers \ Scans

\* Any failed exchange is repeated; a project may be missing.
RetriesAll == scene.kind = "codex"
Discovers  == scene.kind = "antigravity"

Tokens == 1..MaxTokens
None == 0

Credentials == [rt : Tokens, at : Tokens]

Idle == [pc |-> "idle", rejected |-> None, key |-> None, lock |-> None,
         cred |-> [rt |-> 1, at |-> 1], got |-> [rt |-> 1, at |-> 1],
         tries |-> 0, began |-> None, result |-> None]

Goes(c, pc) == caller' = [caller EXCEPT ![c].pc = pc]

\* A call that ends drops its guard and its reference to the lock; it returns
\* a credential, or an error that ends its request.
Returned(c, cred) == [Idle EXCEPT !.pc = "done", !.result = cred.at,
                                  !.rejected = caller[c].rejected]
Return(c, cred) == caller' = [caller EXCEPT ![c] = Returned(c, cred)]
Fail(c) == caller' = [caller EXCEPT ![c] = Idle]

InCall(c) == caller[c].pc \in {"peek", "key", "get", "wait", "locked",
                               "posting", "answered"}
Holds(c) == /\ caller[c].pc \in {"locked", "posting", "answered"}
            /\ caller[c].lock # None
Refers(c, lock) == caller[c].lock = lock

Init ==
  /\ file = [rt |-> 1, at |-> 1]
  /\ valid = {1}
  /\ expired = {}
  /\ issued = 1
  /\ table = [t \in Tokens |-> None]
  /\ caller = [c \in Callers |-> Idle]
  /\ replaced = {}
  /\ scene \in Scenes
-----------------------------------------------------------------------------
(***************************************************************************)
(* ensure_credential_fresh                                                 *)
(***************************************************************************)
\* Mutant: fresh is good enough.
usableFresh(cred, rejected) == cred.at \notin expired

usable(cred, rejected) == cred.at \notin expired /\ cred.at # rejected

\* A request begins; the first call names no rejected token.
Begin(c) ==
  /\ caller[c].pc = "idle"
  /\ caller' = [caller EXCEPT ![c] = [Idle EXCEPT !.pc = "peek",
                                                  !.began = file.at]]
  /\ UNCHANGED <<file, valid, expired, issued, table, replaced>>

\* The upstream answers 401; only the first answer makes the request call again.
Reject(c) ==
  /\ c \in Requests
  /\ caller[c].pc = "done"
  /\ caller[c].rejected = None
  /\ caller' = [caller EXCEPT ![c] = [Idle EXCEPT
                                        !.pc = "peek",
                                        !.rejected = caller[c].result,
                                        !.began = file.at]]
  /\ UNCHANGED <<file, valid, expired, issued, table, replaced>>

Finish(c) ==
  /\ caller[c].pc = "done"
  /\ caller' = [caller EXCEPT ![c] = Idle]
  /\ UNCHANGED <<file, valid, expired, issued, table, replaced>>

Peek(c) ==
  /\ c \in Requests
  /\ caller[c].pc = "peek"
  /\ \/ usable(file, caller[c].rejected) /\ Return(c, file)
     \/ (Discovers \/ ~usable(file, caller[c].rejected)) /\ Goes(c, "key")
  /\ UNCHANGED <<file, valid, expired, issued, table, replaced>>

ReadKey(c) ==
  /\ caller[c].pc = "key"
  /\ caller' = [caller EXCEPT ![c].pc = "get", ![c].key = file.rt]
  /\ UNCHANGED <<file, valid, expired, issued, table, replaced>>

\* Mutant: only a lock that is held counts as in use, one waited for does not.
RetainedIfHeld(lock) == \E c \in Callers : Holds(c) /\ Refers(c, lock)

\* Mutant: nothing is pruned.
RetainedAlways(lock) == TRUE

\* A lock stays in the table while anybody but the table refers to it.
Retained(lock) == \E c \in Callers : Refers(c, lock)

\* Locks are told apart as long as anything refers to them.
Locks == 1..(MaxTokens + Cardinality(Callers))
NewLock == CHOOSE lock \in Locks : /\ \A c \in Callers : ~Refers(c, lock)
                                   /\ \A t \in Tokens : table[t] # lock

acquire_refresh_lock(c) ==
  LET key  == caller[c].key
      kept == [t \in Tokens |-> IF Retained(table[t]) THEN table[t] ELSE None]
      lock == IF kept[key] = None THEN NewLock ELSE kept[key] IN
  /\ caller[c].pc = "get"
  /\ table' = [kept EXCEPT ![key] = lock]
  /\ caller' = [caller EXCEPT ![c].pc = "wait", ![c].lock = lock]
  /\ UNCHANGED <<file, valid, expired, issued, replaced>>

TakeLock(c) ==
  /\ caller[c].pc = "wait"
  /\ \A d \in Callers : ~(Holds(d) /\ Refers(d, caller[c].lock))
  /\ Goes(c, "locked")
  /\ UNCHANGED <<file, valid, expired, issued, table, replaced>>

\* Mutant: the credential read before the wait is exchanged.
DoubleCheckSkipped(c) ==
  /\ caller[c].pc = "locked"
  /\ caller' = [caller EXCEPT ![c].pc = "posting",
                              ![c].cred.rt = caller[c].key]
  /\ UNCHANGED <<file, valid, expired, issued, table, replaced>>

\* The file is read again under the lock.
DoubleCheck(c) ==
  /\ caller[c].pc = "locked"
  /\ caller' = [caller EXCEPT
       ![c] = IF usable(file, caller[c].rejected)
              THEN Returned(c, file)
              ELSE [caller[c] EXCEPT !.pc = "posting", !.cred = file]]
  /\ UNCHANGED <<file, valid, expired, issued, table, replaced>>

\* A usable credential without a project: what was read is held while the
\* project is looked for, and saved with it.
Discover(c) ==
  /\ Discovers
  /\ caller[c].pc = "locked"
  /\ usable(file, caller[c].rejected)
  /\ caller' = [caller EXCEPT ![c].pc = "answered", ![c].cred = file,
                              ![c].got = file]
  /\ UNCHANGED <<file, valid, expired, issued, table, replaced>>

\* A loader has no lock: it reads the file once, and exchanges if need be.
ScanFile(c) ==
  /\ c \in Scans
  /\ caller[c].pc = "peek"
  /\ caller' = [caller EXCEPT
       ![c] = IF usable(file, None)
              THEN Returned(c, file)
              ELSE [caller[c] EXCEPT !.pc = "posting", !.cred = file]]
  /\ UNCHANGED <<file, valid, expired, issued, table, replaced>>
-----------------------------------------------------------------------------
(***************************************************************************)
(* The exchange at the token endpoint.                                     *)
(***************************************************************************)
\* The endpoint issues an access token; when it rotates, the refresh token it
\* was given is void from now on.
Issue(c, rotate) ==
  LET new == issued + 1 IN
  /\ caller[c].pc = "posting"
  /\ caller[c].cred.rt \in valid
  /\ new <= MaxTokens
  /\ issued' = new
  /\ valid' = IF rotate THEN (valid \ {caller[c].cred.rt}) \cup {new} ELSE valid

Grant(c) ==
  /\ \E rotate \in BOOLEAN :
       /\ Issue(c, rotate)
       /\ caller' = [caller EXCEPT
            ![c].pc = "answered",
            ![c].got = [rt |-> IF rotate THEN issued + 1
                               ELSE caller[c].cred.rt,
                        at |-> issued + 1]]
  /\ UNCHANGED <<file, expired, table, replaced>>

\* An attempt has failed and may be repeated, until there were enough.
RepeatOrFail(c) ==
  IF caller[c].tries + 1 < Retries
  THEN caller' = [caller EXCEPT ![c].tries = @ + 1]
  ELSE Fail(c)

\* The answer is lost on its way.  The endpoint may have exchanged the token,
\* which is why all kinds but Codex do not repeat such an attempt.
LoseAnswer(c) ==
  /\ \E rotate \in BOOLEAN : Issue(c, rotate)
  /\ IF RetriesAll THEN RepeatOrFail(c) ELSE Fail(c)
  /\ UNCHANGED <<file, expired, table, replaced>>

\* The endpoint refuses, or the request does not reach it.
Refuse(c) ==
  /\ caller[c].pc = "posting"
  /\ Fail(c) \/ (RetriesAll /\ RepeatOrFail(c))
  /\ UNCHANGED <<file, valid, expired, issued, table, replaced>>

\* Mutant: attempts without end.
ServerErrorForever(c) ==
  /\ caller[c].pc = "posting"
  /\ caller' = [caller EXCEPT ![c].tries = (@ + 1) % Retries]
  /\ UNCHANGED <<file, valid, expired, issued, table, replaced>>

\* A 5xx answer: nothing was exchanged, the attempt may be repeated.
ServerError(c) ==
  /\ caller[c].pc = "posting"
  /\ RepeatOrFail(c)
  /\ UNCHANGED <<file, valid, expired, issued, table, replaced>>

\* The whole credential is written, over whatever is there now.
Written(c) ==
  /\ file' = caller[c].got
  /\ replaced' = IF caller[c].got.rt # caller[c].cred.rt
                 THEN replaced \cup {caller[c].cred.rt} ELSE replaced

save_to(c) ==
  /\ caller[c].pc = "answered"
  /\ Written(c)
  /\ Return(c, caller[c].got)
  /\ UNCHANGED <<valid, expired, issued, table>>

\* No project was found and nothing exchanged: the file is left alone.
KeepFile(c) ==
  /\ caller[c].pc = "answered"
  /\ Discovers
  /\ caller[c].got = caller[c].cred
  /\ Return(c, caller[c].got)
  /\ UNCHANGED <<file, valid, expired, issued, table, replaced>>

\* A loader looks for a missing project after it has saved what the exchange
\* yielded, or failed to, or found the token usable; it then saves once more.
ScanDiscovers(c) ==
  /\ Discovers
  /\ c \in Scans
  /\ \/ /\ caller[c].pc = "peek"
        /\ usable(file, None)
        /\ caller' = [caller EXCEPT ![c].pc = "answered", ![c].cred = file,
                                    ![c].got = file]
        /\ UNCHANGED <<file, replaced>>
     \/ /\ caller[c].pc = "answered"
        /\ caller[c].got # caller[c].cred
        /\ caller' = [caller EXCEPT ![c].cred = caller[c].got]
        /\ Written(c) \/ UNCHANGED <<file, replaced>>
  /\ UNCHANGED <<valid, expired, issued, table>>

SaveFails(c) ==
  /\ caller[c].pc = "answered"
  /\ Fail(c)
  /\ UNCHANGED <<file, valid, expired, issued, table, replaced>>

\* The client disconnects: the handler is dropped at an await, with its guard,
\* its reference and what it has not saved.
Cancel(c) ==
  /\ c \in Requests
  /\ \/ caller[c].pc \in {"get", "wait", "posting"}
     \/ Discovers /\ caller[c].pc = "answered"
  /\ \/ UNCHANGED <<valid, issued>>
     \/ \E rotate \in BOOLEAN : Issue(c, rotate)
  /\ Fail(c)
  /\ UNCHANGED <<file, expired, table, replaced>>
-----------------------------------------------------------------------------
(***************************************************************************)
(* The world.                                                              *)
(***************************************************************************)
\* Tokens live for hours longer than the skew, calls last a minute: the token
\* in the file does not expire before the calls that began when another one
\* was there have ended.
Expire ==
  /\ file.at \notin expired
  /\ \A c \in Callers : InCall(c) => caller[c].began = file.at
  /\ expired' = expired \cup {file.at}
  /\ UNCHANGED <<file, valid, issued, table, caller, replaced>>

\* A login command writes a new grant.
Login ==
  LET new == issued + 1 IN
  /\ new <= MaxTokens
  /\ issued' = new
  /\ valid' = valid \cup {new}
  /\ file' = [rt |-> new, at |-> new]
  /\ UNCHANGED <<expired, table, caller, replaced>>

Exchange(c) == \/ Grant(c)
               \/ LoseAnswer(c)
               \/ Refuse(c)
               \/ ServerError(c)

Call(c) ==
  /\ \/ Peek(c)
     \/ ReadKey(c)
     \/ acquire_refresh_lock(c)
     \/ DoubleCheck(c)
     \/ Discover(c)
     \/ ScanFile(c)
     \/ Exchange(c)
     \/ save_to(c)
     \/ KeepFile(c)
     \/ ScanDiscovers(c)
     \/ SaveFails(c)
  /\ UNCHANGED scene

GetLock(c) == TakeLock(c) /\ UNCHANGED scene

Next ==
  \/ \E c \in Callers : Call(c) \/ GetLock(c)
  \/ /\ \/ \E c \in Callers : Begin(c) \/ Reject(c) \/ Finish(c) \/ Cancel(c)
        \/ Expire
        \/ Login
     /\ UNCHANGED scene

\* Calls go on, the endpoint answers or times out after 30 s, and the lock is
\* a fair one: whoever waits gets it if it becomes free again and again.
Fairness == \A c \in Callers : WF_vars(Call(c)) /\ SF_vars(GetLock(c))

Spec == Init /\ [][Next]_vars /\ Fairness
-----------------------------------------------------------------------------
\* Every variable holds a value the program can give it.
TypeOK ==
  /\ file \in Credentials
  /\ valid \subseteq Tokens
  /\ expired \subseteq Tokens
  /\ issued \in Tokens
  /\ table \in [Tokens -> Locks \cup {None}]
  /\ caller \in [Callers -> [
       pc : {"idle", "peek", "key", "get", "wait", "locked", "posting",
             "answered", "done"},
       rejected : Tokens \cup {None}, key : Tokens \cup {None}, lock : Locks \cup {None},
       cred : Credentials, got : Credentials, tries : 0..(Retries - 1),
       began : Tokens \cup {None}, result : Tokens \cup {None}]]
  /\ replaced \subseteq Tokens
  /\ scene \in Scenes

Apart(calls) ==
  \A c, d \in calls : /\ caller[c].pc = "posting"
                      /\ caller[d].pc = "posting"
                      /\ c # d
                      => caller[c].cred.rt # caller[d].cred.rt

\* Two requests never have the same refresh token at the endpoint: a second use
\* of a rotated token would be refused, or void the grant.  (A call that looks
\* for a project may put back a credential that a login has replaced, so that
\* two locks lead to one refresh token.)
SingleFlight == ~Discovers => Apart(Requests)

\* Where no scan runs, a request that waited for the lock does not present the
\* refresh token that the holder has meanwhile replaced.  (Here too Antigravity
\* is left out: who looks for a project may put back what was replaced.)
ReplacedNotPresented ==
  ~Discovers /\ Scans = {} =>
    \A c \in Requests : caller[c].pc = "posting" =>
                         caller[c].cred.rt \notin replaced

\* What a call returns after a 401 is never the token that was rejected.
RejectedNotReturned ==
  \A c \in Callers : caller[c].pc = "done" => caller[c].result # caller[c].rejected

\* Tokens rotate, but the table of locks does not grow with them.
TableBounded ==
  Cardinality({t \in Tokens : table[t] # None}) <= Cardinality(Requests)

\* Every call comes to an end, with a credential or an error, also behind calls
\* that fail or are dropped while they hold the lock.
CallsEnd ==
  \A c \in Callers : InCall(c) ~> ~InCall(c)
-----------------------------------------------------------------------------
\* What the code says of the lock: refreshes of a credential are serialised.
RefreshesSerialised == Apart(Callers)
=============================================================================
