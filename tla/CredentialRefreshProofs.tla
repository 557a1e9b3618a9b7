----------------------- MODULE CredentialRefreshProofs -----------------------
(***************************************************************************)
(* Proofs about the refresh of an OAuth credential: for any number of      *)
(* requests and scans, any kinds of account, any number of tokens and      *)
(* attempts.                                                               *)
(***************************************************************************)
EXTENDS CredentialRefresh, FiniteSetTheorems, TLAPS

CallStates == {"idle", "peek", "key", "get", "wait", "locked", "posting",
               "answered", "done"}

CallType == [pc : CallStates,
             rejected : Tokens \cup {None}, key : Tokens \cup {None},
             lock : Locks \cup {None}, cred : Credentials, got : Credentials,
             tries : 0..(Retries - 1), began : Tokens \cup {None},
             result : Tokens \cup {None}]
-----------------------------------------------------------------------------
(***************************************************************************)
(* The inductive invariant.                                                *)
(***************************************************************************)
\* Only requests look for a key and a lock; a lock that is referred to is the
\* one its key has in the table, and a scan names no rejected token.
Shaped(c, call) ==
  /\ call.pc \in {"key", "get", "wait", "locked"} => c \in Requests
  /\ call.pc = "get" => call.key # None /\ call.lock = None
  /\ call.lock # None
       => /\ c \in Requests
          /\ call.pc \in {"wait", "locked", "posting", "answered"}
          /\ call.key # None
  /\ c \in Requests /\ call.pc \in {"wait", "locked", "posting", "answered"}
       => call.lock # None
  /\ c \in Scans => call.rejected = None

CallsShaped == \A c \in Callers : Shaped(c, caller[c])

\* A lock is the lock of one refresh token, for all who refer to it, and one
\* call holds it.
LocksListed ==
  \A c \in Callers :
    caller[c].lock # None => table[caller[c].key] = caller[c].lock

LocksApart ==
  \A t, u \in Tokens : table[t] = table[u] /\ table[t] # None => t = u

Mutex ==
  \A c, d \in Callers :
    Holds(c) /\ Holds(d) /\ caller[c].lock = caller[d].lock => c = d

LockInv == CallsShaped /\ LocksListed /\ LocksApart /\ Mutex /\ TableBounded

\* The numbers a call knows but for those of an answer it has not saved.
NumbersOf(call) ==
  {call.rejected, call.key, call.began, call.result, call.cred.rt}

\* No number is in use that was not issued.
NumbersIssued ==
  /\ file.at <= issued /\ file.rt <= issued
  /\ \A t \in expired \cup replaced : t <= issued
  /\ \A c \in Callers :
       \A n \in NumbersOf(caller[c]) \cup {caller[c].got.rt, caller[c].got.at} :
         n <= issued

\* Neither what a call is about to save nor what it returns is what its request
\* was rejected with.
Accepted(call) ==
  /\ call.pc = "answered" => call.got.at # call.rejected
  /\ call.pc = "done" => call.result # call.rejected

TokenInv == NumbersIssued /\ \A c \in Callers : Accepted(caller[c])

\* A number that somebody but the call it was issued to may know.
Seen(n) ==
  \/ n \in {None, 1, file.at, file.rt} \cup expired \cup replaced
  \/ \E c \in Callers : n \in NumbersOf(caller[c])

\* What an exchange yielded is new until it is saved.
AnswersNew ==
  \A c \in Callers :
    caller[c].pc = "answered" =>
      /\ ~Seen(caller[c].got.at)
      /\ caller[c].got.rt \in {caller[c].cred.rt, caller[c].got.at}
      /\ \A d \in Callers \ {c} :
           caller[d].pc = "answered" => caller[d].got.at # caller[c].got.at

\* A request that has read its key and finds another credential in the file
\* finds a usable one; so it exchanges the refresh token whose lock it holds.
KeyCurrent(c, call) ==
  /\ call.pc \in {"get", "wait", "locked"} =>
       /\ call.began = file.at => call.key = file.rt
       /\ call.key # file.rt => usable(file, call.rejected)
  /\ c \in Requests /\ call.pc \in {"posting", "answered"}
       => call.cred.rt = call.key

KeysCurrent == \A c \in Callers : KeyCurrent(c, caller[c])

FlightInv == ~Discovers => AnswersNew /\ KeysCurrent

\* Neither the file nor a call has a refresh token whose successor is saved.
NoneReplaced ==
  /\ file.rt \notin replaced
  /\ \A c \in Callers : caller[c].pc \in {"posting", "answered"}
                          => caller[c].cred.rt \notin replaced

ReplacedInv == ~Discovers /\ Scans = {} => NoneReplaced

RefreshInv == TypeOK /\ LockInv /\ TokenInv /\ FlightInv /\ ReplacedInv
-----------------------------------------------------------------------------
(***************************************************************************)
(* Types.                                                                  *)
(***************************************************************************)
\* The calls are numbered and there are locks for all.
LEMMA Sizes ==
  /\ IsFiniteSet(Callers)
  /\ Cardinality(Callers) \in Nat
  /\ MaxTokens \in Nat \ {0}
  /\ Retries \in Nat \ {0}
  /\ None \notin Tokens /\ None \notin Locks
  /\ 1 \in Tokens /\ Tokens \subseteq Nat /\ Locks \subseteq Nat
  /\ [rt |-> 1, at |-> 1] \in Credentials
BY CallersAssumption, BoundsAssumption, FS_CardinalityType
   DEF None, Tokens, Locks, Credentials

LEMMA IdleType == Idle \in CallType
BY Sizes DEF Idle, CallType, CallStates

LEMMA ReturnedType ==
  ASSUME TypeOK, NEW c \in Callers, NEW cred \in Credentials
  PROVE  Returned(c, cred) \in CallType
BY IdleType DEF Returned, CallType, CallStates, TypeOK, Credentials, Idle

LEMMA CallerType ==
  ASSUME TypeOK
  PROVE  /\ caller \in [Callers -> CallType]
         /\ \A c \in Callers : caller[c] \in CallType
BY DEF TypeOK, CallType, CallStates

\* There is a lock that nobody refers to and that is in no place of the table,
\* as long as some call refers to none.
LEMMA LockLeft ==
  ASSUME TypeOK, NEW c \in Callers, caller[c].lock = None
  PROVE  /\ NewLock \in Locks
         /\ \A d \in Callers : ~Refers(d, NewLock)
         /\ \A t \in Tokens : table[t] # NewLock
<1> DEFINE referred == {caller[d].lock : d \in Callers \ {c}}
           listed == {table[t] : t \in Tokens}
           used == referred \cup listed
<1>1. IsFiniteSet(Callers \ {c}) /\ Cardinality(Callers \ {c}) = Cardinality(Callers) - 1
  BY Sizes, FS_RemoveElement
<1>2. IsFiniteSet(Tokens) /\ Cardinality(Tokens) = MaxTokens
  BY Sizes, FS_Interval DEF Tokens
<1>3. IsFiniteSet(Locks) /\ Cardinality(Locks) = MaxTokens + Cardinality(Callers)
  BY Sizes, FS_Interval DEF Locks
<1>4. IsFiniteSet(referred) /\ Cardinality(referred) <= Cardinality(Callers) - 1
  <2> DEFINE f == [d \in Callers \ {c} |-> caller[d].lock]
  <2>1. f \in Surjection(Callers \ {c}, referred)
    BY DEF Surjection
  <2>2. QED
    BY <1>1, <2>1, FS_Surjection
<1>5. IsFiniteSet(listed) /\ Cardinality(listed) <= MaxTokens
  <2> DEFINE f == [t \in Tokens |-> table[t]]
  <2>1. f \in Surjection(Tokens, listed)
    BY DEF Surjection
  <2>2. QED
    BY <1>2, <2>1, FS_Surjection
<1>6. IsFiniteSet(used) /\ Cardinality(used) < MaxTokens + Cardinality(Callers)
  <2>1. /\ IsFiniteSet(used)
        /\ Cardinality(used) = Cardinality(referred) + Cardinality(listed)
                                 - Cardinality(referred \cap listed)
    BY <1>4, <1>5, FS_Union
  <2>2. Cardinality(referred \cap listed) \in Nat
    BY <1>4, FS_Intersection, FS_CardinalityType
  <2>3. Cardinality(referred) \in Nat /\ Cardinality(listed) \in Nat
    BY <1>4, <1>5, FS_CardinalityType
  <2>4. QED
    BY <1>4, <1>5, <2>1, <2>2, <2>3, Sizes
<1>7. \E lock \in Locks : lock \notin used
  <2> SUFFICES ASSUME Locks \subseteq used PROVE FALSE
    OBVIOUS
  <2>1. Cardinality(Locks) <= Cardinality(used)
    BY <1>6, FS_Subset
  <2>2. Cardinality(used) \in Nat
    BY <1>6, FS_CardinalityType
  <2>3. QED
    BY <1>3, <1>6, <2>1, <2>2, Sizes
<1>8. PICK lock \in Locks : lock \notin used
  BY <1>7
<1>9. \A d \in Callers : ~Refers(d, lock)
  BY <1>8, Sizes DEF Refers
<1>10. \A t \in Tokens : table[t] # lock
  BY <1>8
<1>11. QED
  BY <1>9, <1>10 DEF NewLock

LEMMA InitTypeOK == Init => TypeOK
<1> SUFFICES ASSUME Init PROVE TypeOK
  OBVIOUS
<1>1. /\ file \in Credentials
      /\ valid \subseteq Tokens /\ expired \subseteq Tokens /\ replaced \subseteq Tokens
      /\ issued \in Tokens /\ scene \in Scenes
      /\ table \in [Tokens -> Locks \cup {None}]
  BY Sizes DEF Init
<1>2. caller \in [Callers -> CallType]
  BY IdleType DEF Init
<1>3. QED
  BY <1>1, <1>2 DEF TypeOK, CallType, CallStates

\* A step gives one call another state, of the type of a call.
Moves(c, call) == caller' = [caller EXCEPT ![c] = call]

LEMMA MovesType ==
  ASSUME TypeOK, NEW c \in Callers, NEW call \in CallType, Moves(c, call)
  PROVE  /\ caller' \in [Callers -> CallType]
         /\ caller'[c] = call
         /\ \A d \in Callers \ {c} : caller'[d] = caller[d]
BY CallerType DEF Moves

\* Issue gives out the next number.
LEMMA IssueType ==
  ASSUME TypeOK, NEW c \in Callers, NEW rotate \in BOOLEAN, Issue(c, rotate)
  PROVE  /\ issued' = issued + 1
         /\ issued' \in Tokens
         /\ valid' \subseteq Tokens
         /\ caller[c].pc = "posting"
<1>1. issued + 1 \in Tokens
  BY Sizes DEF TypeOK, Issue, Tokens
<1>2. QED
  BY <1>1 DEF TypeOK, Issue
-----------------------------------------------------------------------------
(***************************************************************************)
(* Most steps are plain: one call goes on or ends, the file stays as it    *)
(* is, and nothing becomes known that was not.                             *)
(***************************************************************************)
\* A call goes on with the lock it has, or takes it, or lets it go.
LockStep(c, call) ==
  /\ call \in CallType
  /\ Moves(c, call)
  /\ UNCHANGED <<table, scene>>
  /\ Shaped(c, call)
  /\ call.lock # None => call.lock = caller[c].lock /\ call.key = caller[c].key
  /\ call.lock # None /\ call.pc # "wait"
       => Holds(c) \/ \A d \in Callers : ~(Holds(d) /\ Refers(d, call.lock))

\* A call that learns nothing new.
TokenStep(c, call) ==
  /\ call \in CallType
  /\ Moves(c, call)
  /\ UNCHANGED <<file, expired, replaced, scene>>
  /\ issued <= issued' /\ issued' \in Tokens /\ valid' \subseteq Tokens
  /\ ~Discovers => \A n \in NumbersOf(call) : Seen(n)
  /\ \A n \in NumbersOf(call) \cup {call.got.rt, call.got.at} : n <= issued
  /\ Accepted(call)
  /\ ~Discovers => call.pc # "answered" /\ KeyCurrent(c, call)
  /\ ~Discovers /\ Scans = {} /\ call.pc = "posting" => call.cred.rt \notin replaced

PlainStep(c, call) == LockStep(c, call) /\ TokenStep(c, call)

LEMMA PlainLocks ==
  ASSUME RefreshInv, NEW c \in Callers, NEW call, LockStep(c, call)
  PROVE  LockInv'
<1>1. /\ TypeOK /\ LockInv
      /\ call \in CallType /\ Moves(c, call)
      /\ UNCHANGED <<table, scene>>
  BY DEF RefreshInv, LockStep
<1>2. /\ caller' \in [Callers -> CallType]
      /\ caller'[c] = call
      /\ \A d \in Callers \ {c} : caller'[d] = caller[d]
  BY <1>1, MovesType
<1>4. CallsShaped'
  BY <1>1, <1>2 DEF LockInv, CallsShaped, Shaped, LockStep, Requests, Scans
<1>5. LocksListed'
  BY <1>1, <1>2 DEF LockInv, LocksListed, LockStep
<1>6. LocksApart' /\ TableBounded'
  BY <1>1 DEF LockInv, LocksApart, TableBounded, Requests, Scans
<1>7. Mutex'
  <2> SUFFICES ASSUME NEW d \in Callers, NEW e \in Callers,
                      Holds(d)', Holds(e)', caller'[d].lock = caller'[e].lock
               PROVE  d = e
    BY DEF Mutex
  <2>1. ASSUME NEW x \in Callers \ {c}, Holds(x)', Holds(c)',
               caller'[x].lock = caller'[c].lock
        PROVE  FALSE
    <3>1. Holds(x) /\ caller[x].lock = call.lock
      BY <1>2, <2>1 DEF Holds
    <3>2. call.lock # None /\ call.pc # "wait"
      BY <1>2, <2>1 DEF Holds
    <3>3. call.lock = caller[c].lock
      BY <3>2 DEF LockStep
    <3>4. ~Holds(c)
      BY <1>1, <3>1, <3>3 DEF LockInv, Mutex
    <3>5. QED
      BY <3>1, <3>2, <3>4 DEF LockStep, Refers
  <2>2. CASE d # c /\ e # c
    BY <1>1, <1>2, <2>2 DEF LockInv, Mutex, Holds
  <2>3. QED
    BY <2>1, <2>2
<1>8. QED
  BY <1>4, <1>5, <1>6, <1>7 DEF LockInv

\* Nothing new is seen when nobody learns anything new.
LEMMA PlainSeen ==
  ASSUME RefreshInv, NEW c \in Callers, NEW call, TokenStep(c, call),
         ~Discovers, NEW n, Seen(n)'
  PROVE  Seen(n)
<1>1. /\ caller'[c] = call
      /\ \A d \in Callers \ {c} : caller'[d] = caller[d]
      /\ \A m \in NumbersOf(call) : Seen(m)
      /\ UNCHANGED <<file, expired, replaced, scene>>
  BY MovesType DEF RefreshInv, TokenStep
<1>2. CASE n \in {None, 1, file.at, file.rt} \cup expired \cup replaced
  BY <1>2 DEF Seen
<1>3. ASSUME NEW d \in Callers, n \in NumbersOf(caller'[d])
      PROVE  Seen(n)
  <2>1. CASE d = c
    BY <1>1, <1>3, <2>1
  <2>2. CASE d # c
    BY <1>1, <1>3, <2>2 DEF Seen
  <2>3. QED
    BY <2>1, <2>2
<1>4. QED
  BY <1>1, <1>2, <1>3 DEF Seen, NumbersOf

LEMMA NumbersNat ==
  ASSUME NEW call \in CallType,
         NEW n \in NumbersOf(call) \cup {call.got.rt, call.got.at}
  PROVE  n \in Nat
<1>1. {call.rejected, call.key, call.began, call.result} \subseteq Nat
  <2>1. {call.rejected, call.key, call.began, call.result} \subseteq Tokens \cup {None}
    BY DEF CallType
  <2>2. Tokens \cup {None} \subseteq Nat
    BY Sizes DEF None
  <2>3. QED
    BY <2>1, <2>2
<1>2. {call.cred.rt, call.got.rt, call.got.at} \subseteq Nat
  <2>1. call.cred \in Credentials /\ call.got \in Credentials
    BY DEF CallType
  <2>2. QED
    BY <2>1, Sizes DEF Credentials
<1>3. QED
  BY <1>1, <1>2 DEF NumbersOf

LEMMA PlainTokens ==
  ASSUME RefreshInv, NEW c \in Callers, NEW call, TokenStep(c, call)
  PROVE  TokenInv' /\ FlightInv' /\ ReplacedInv'
<1>1. /\ caller' \in [Callers -> CallType]
      /\ caller'[c] = call
      /\ \A d \in Callers \ {c} : caller'[d] = caller[d]
      /\ UNCHANGED <<file, expired, replaced, scene>>
      /\ issued <= issued' /\ issued \in Nat /\ issued' \in Nat
  BY MovesType, Sizes DEF RefreshInv, TokenStep, TypeOK
<1>2. TokenInv'
  <2>1. /\ file.at \in Nat /\ file.rt \in Nat
        /\ expired \subseteq Nat /\ replaced \subseteq Nat
    BY Sizes DEF RefreshInv, TypeOK, Credentials
  <2>2. ASSUME NEW d \in Callers,
               NEW n \in NumbersOf(caller'[d]) \cup {caller'[d].got.rt, caller'[d].got.at}
        PROVE  n <= issued'
    <3>1. caller'[d] \in CallType
      BY <1>1
    <3>2. n \in Nat
      BY <2>2, <3>1, NumbersNat
    <3>3. n <= issued
      BY <1>1, <2>2 DEF RefreshInv, TokenInv, NumbersIssued, TokenStep
    <3>4. QED
      BY <1>1, <3>2, <3>3
  <2>3. NumbersIssued'
    <3>1. /\ file.at <= issued' /\ file.rt <= issued'
          /\ \A t \in expired \cup replaced : t <= issued'
      BY <1>1, <2>1 DEF RefreshInv, TokenInv, NumbersIssued
    <3>2. QED
      BY <1>1, <2>2, <3>1 DEF NumbersIssued, NumbersOf
  <2>4. \A d \in Callers : Accepted(caller'[d])
    BY <1>1 DEF RefreshInv, TokenInv, TokenStep
  <2>5. QED
    BY <2>3, <2>4 DEF TokenInv, Accepted
<1>3. FlightInv'
  <2> SUFFICES ASSUME ~Discovers' PROVE AnswersNew' /\ KeysCurrent'
    BY DEF FlightInv
  <2>1. ~Discovers /\ AnswersNew /\ KeysCurrent
    BY <1>1 DEF Discovers, RefreshInv, FlightInv
  <2>2. ASSUME NEW d \in Callers, caller'[d].pc = "answered"
        PROVE  d # c /\ caller'[d] = caller[d]
    BY <1>1, <2>1, <2>2 DEF TokenStep
  <2>3. AnswersNew'
    BY <2>1, <2>2, PlainSeen DEF AnswersNew
  <2>4. KeysCurrent'
    BY <1>1, <2>1 DEF KeysCurrent, KeyCurrent, usable, TokenStep, Requests, Scans
  <2>5. QED
    BY <2>3, <2>4
<1>4. ReplacedInv'
  BY <1>1 DEF ReplacedInv, RefreshInv, NoneReplaced, TokenStep, Discovers, Scans
<1>5. QED
  BY <1>2, <1>3, <1>4

LEMMA PlainKeepsInv ==
  ASSUME RefreshInv, NEW c \in Callers, NEW call, PlainStep(c, call)
  PROVE  RefreshInv'
<1>1. LockInv' /\ TokenInv' /\ FlightInv' /\ ReplacedInv'
  BY PlainLocks, PlainTokens DEF PlainStep
<1>2. caller' \in [Callers -> CallType]
  BY MovesType DEF RefreshInv, PlainStep, LockStep
<1>3. TypeOK'
  BY <1>2 DEF RefreshInv, TypeOK, CallType, CallStates, PlainStep, LockStep, TokenStep
<1>4. QED
  BY <1>1, <1>3 DEF RefreshInv

\* What somebody has seen was issued.
LEMMA SeenIssued ==
  ASSUME RefreshInv, NEW n, Seen(n)
  PROVE  n <= issued
<1>1. 1 <= issued /\ None <= issued
  BY Sizes DEF RefreshInv, TypeOK, Tokens, None
<1>2. QED
  BY <1>1 DEF RefreshInv, TokenInv, NumbersIssued, Seen

\* A call that ends or begins holds nothing.
Fresh(call) ==
  /\ call.pc \in {"idle", "peek", "done"}
  /\ call.key = None /\ call.lock = None
  /\ call.cred = [rt |-> 1, at |-> 1] /\ call.got = [rt |-> 1, at |-> 1]

StandsStill == UNCHANGED <<file, expired, table, replaced, scene>>

IssuedGrows == issued <= issued' /\ issued' \in Tokens /\ valid' \subseteq Tokens

LEMMA FreshIsPlain ==
  ASSUME RefreshInv, NEW c \in Callers, NEW call \in CallType, Moves(c, call),
         StandsStill, IssuedGrows, Fresh(call),
         \A n \in {call.rejected, call.began, call.result} :
           n <= issued /\ (~Discovers => Seen(n)),
         c \in Scans => call.rejected = None,
         call.pc = "done" => call.result # call.rejected
  PROVE  PlainStep(c, call)
<1>1. ~Discovers => \A n \in NumbersOf(call) : Seen(n)
  BY DEF NumbersOf, Fresh, Seen
<1>2. 1 <= issued /\ None <= issued
  BY SeenIssued DEF Seen
<1>3. \A n \in NumbersOf(call) \cup {call.got.rt, call.got.at} : n <= issued
  BY <1>2 DEF Fresh, NumbersOf
<1>4. Shaped(c, call) /\ Accepted(call) /\ KeyCurrent(c, call)
  BY DEF Fresh, Shaped, Accepted, KeyCurrent
<1>5. QED
  BY <1>1, <1>3, <1>4 DEF PlainStep, LockStep, TokenStep, Fresh, StandsStill, IssuedGrows

LEMMA NothingIssued ==
  ASSUME RefreshInv, UNCHANGED <<valid, issued>>
  PROVE  IssuedGrows
BY Sizes DEF RefreshInv, TypeOK, IssuedGrows

LEMMA IssuedByCall ==
  ASSUME RefreshInv, NEW c \in Callers, NEW rotate \in BOOLEAN, Issue(c, rotate)
  PROVE  IssuedGrows
<1>1. TypeOK /\ issued \in Nat
  BY Sizes DEF RefreshInv, TypeOK
<1>2. QED
  BY <1>1, IssueType DEF IssuedGrows

\* What a call knows has been seen.
LEMMA OwnSeen ==
  ASSUME NEW c \in Callers
  PROVE  \A n \in NumbersOf(caller[c]) \cup {None, 1, file.at, file.rt} : Seen(n)
BY DEF Seen

LEMMA FailIsPlain ==
  ASSUME RefreshInv, NEW c \in Callers, Fail(c), StandsStill, IssuedGrows
  PROVE  RefreshInv'
<1>1. Moves(c, Idle) /\ Fresh(Idle) /\ Idle \in CallType
  BY IdleType DEF Fail, Moves, Fresh, Idle
<1>2. \A n \in {Idle.rejected, Idle.began, Idle.result} : Seen(n)
  BY DEF Idle, Seen
<1>3. PlainStep(c, Idle)
  BY <1>1, <1>2, SeenIssued, FreshIsPlain DEF Idle
<1>4. QED
  BY <1>3, PlainKeepsInv

\* A call that returns a credential that was not rejected.
LEMMA ReturnIsPlain ==
  ASSUME RefreshInv, NEW c \in Callers, NEW cred \in Credentials,
         Moves(c, Returned(c, cred)), StandsStill, IssuedGrows,
         cred.at <= issued, ~Discovers => Seen(cred.at),
         cred.at # caller[c].rejected
  PROVE  RefreshInv'
<1> DEFINE call == Returned(c, cred)
<1>1. call \in CallType
  BY ReturnedType DEF RefreshInv
<1>2. /\ Fresh(call) /\ call.pc = "done"
      /\ call.rejected = caller[c].rejected /\ call.result = cred.at
      /\ call.began = None
  BY DEF Returned, Idle, Fresh
<1>3. \A n \in {call.rejected, call.began, call.result} :
        n <= issued /\ (~Discovers => Seen(n))
  BY <1>2, OwnSeen, SeenIssued DEF NumbersOf
<1>4. c \in Scans => call.rejected = None
  BY <1>2 DEF RefreshInv, LockInv, CallsShaped, Shaped
<1> HIDE DEF call
<1>5. PlainStep(c, call)
  BY <1>1, <1>2, <1>3, <1>4, FreshIsPlain DEF call
<1>6. QED
  BY <1>5, PlainKeepsInv
-----------------------------------------------------------------------------
(***************************************************************************)
(* The plain actions.                                                      *)
(***************************************************************************)
LEMMA BeginKeepsInv ==
  ASSUME RefreshInv, NEW c \in Callers, Begin(c), UNCHANGED scene
  PROVE  RefreshInv'
<1> DEFINE call == [Idle EXCEPT !.pc = "peek", !.began = file.at]
<1>1. Moves(c, call) /\ StandsStill /\ IssuedGrows
  BY NothingIssued DEF Begin, Moves, StandsStill
<1>2. call \in CallType
  BY IdleType DEF RefreshInv, TypeOK, Credentials, Idle, CallType, CallStates
<1>3. Fresh(call) /\ call.rejected = None /\ call.result = None /\ call.began = file.at
      /\ call.pc = "peek"
  BY DEF Fresh, Idle
<1> HIDE DEF call
<1>4. PlainStep(c, call)
  BY <1>1, <1>2, <1>3, OwnSeen, SeenIssued, FreshIsPlain
<1>5. QED
  BY <1>4, PlainKeepsInv

LEMMA RejectKeepsInv ==
  ASSUME RefreshInv, NEW c \in Callers, Reject(c), UNCHANGED scene
  PROVE  RefreshInv'
<1> DEFINE call == [Idle EXCEPT !.pc = "peek", !.rejected = caller[c].result,
                                !.began = file.at]
<1>1. Moves(c, call) /\ StandsStill /\ IssuedGrows /\ c \notin Scans
  BY NothingIssued DEF Reject, Moves, StandsStill, Requests
<1>2. call \in CallType
  <2>1. caller[c].result \in Tokens \cup {None}
    BY CallerType DEF RefreshInv, CallType
  <2>2. QED
    BY <2>1, IdleType DEF RefreshInv, TypeOK, Credentials, Idle, CallType, CallStates
<1>3. Fresh(call) /\ call.rejected = caller[c].result /\ call.result = None
      /\ call.began = file.at /\ call.pc = "peek"
  BY DEF Fresh, Idle
<1> HIDE DEF call
<1>4. Seen(caller[c].result) /\ Seen(None) /\ Seen(file.at)
  BY OwnSeen DEF NumbersOf
<1>5. PlainStep(c, call)
  BY <1>1, <1>2, <1>3, <1>4, SeenIssued, FreshIsPlain
<1>6. QED
  BY <1>5, PlainKeepsInv

LEMMA FinishKeepsInv ==
  ASSUME RefreshInv, NEW c \in Callers, Finish(c), UNCHANGED scene
  PROVE  RefreshInv'
BY FailIsPlain, NothingIssued DEF Finish, Fail, StandsStill

LEMMA CancelKeepsInv ==
  ASSUME RefreshInv, NEW c \in Callers, Cancel(c), UNCHANGED scene
  PROVE  RefreshInv'
<1>1. IssuedGrows
  BY NothingIssued, IssuedByCall DEF Cancel
<1>2. QED
  BY <1>1, FailIsPlain DEF Cancel, StandsStill

LEMMA SaveFailsKeepsInv ==
  ASSUME RefreshInv, NEW c \in Callers, SaveFails(c), UNCHANGED scene
  PROVE  RefreshInv'
BY FailIsPlain, NothingIssued DEF SaveFails, StandsStill

\* A call that is between two awaits goes on in the same place of the lock.
LEMMA PeekKeepsInv ==
  ASSUME RefreshInv, NEW c \in Callers, Peek(c), UNCHANGED scene
  PROVE  RefreshInv'
<1>1. StandsStill /\ IssuedGrows
  BY NothingIssued DEF Peek, StandsStill
<1>2. CASE usable(file, caller[c].rejected) /\ Return(c, file)
  <2>1. file \in Credentials /\ Seen(file.at)
    BY OwnSeen DEF RefreshInv, TypeOK
  <2>2. Moves(c, Returned(c, file)) /\ file.at # caller[c].rejected
    BY <1>2 DEF Return, Moves, usable
  <2>3. QED
    BY <1>1, <2>1, <2>2, SeenIssued, ReturnIsPlain
<1>3. CASE Goes(c, "key")
  <2> DEFINE call == [caller[c] EXCEPT !.pc = "key"]
  <2>1. caller[c] \in CallType /\ Shaped(c, caller[c]) /\ caller[c].pc = "peek" /\ c \in Requests
    BY CallerType DEF RefreshInv, LockInv, CallsShaped, Peek
  <2>2. call \in CallType /\ Moves(c, call)
    BY <1>3, <2>1 DEF CallType, CallStates, Goes, Moves
  <2>3. call.pc = "key" /\ NumbersOf(call) = NumbersOf(caller[c])
        /\ call.got = caller[c].got /\ call.lock = caller[c].lock
        /\ call.key = caller[c].key /\ call.rejected = caller[c].rejected
    BY <2>1 DEF CallType, NumbersOf
  <2> HIDE DEF call
  <2>4. Shaped(c, call) /\ call.lock = None
    BY <2>1, <2>3 DEF Shaped, Requests
  <2>5. Accepted(call) /\ KeyCurrent(c, call)
    BY <2>3 DEF Accepted, KeyCurrent
  <2>6. /\ \A n \in NumbersOf(call) : Seen(n)
        /\ \A n \in NumbersOf(call) \cup {call.got.rt, call.got.at} : n <= issued
    BY <2>3, OwnSeen DEF RefreshInv, TokenInv, NumbersIssued
  <2>7. PlainStep(c, call)
    BY <1>1, <2>2, <2>3, <2>4, <2>5, <2>6 DEF PlainStep, LockStep, TokenStep, StandsStill, IssuedGrows
  <2>8. QED
    BY <2>7, PlainKeepsInv
<1>4. QED
  BY <1>2, <1>3 DEF Peek

LEMMA ReadKeyKeepsInv ==
  ASSUME RefreshInv, NEW c \in Callers, ReadKey(c), UNCHANGED scene
  PROVE  RefreshInv'
<1>1. StandsStill /\ IssuedGrows
  BY NothingIssued DEF ReadKey, StandsStill
<1> DEFINE call == [caller[c] EXCEPT !.pc = "get", !.key = file.rt]
<1>2. /\ caller[c] \in CallType /\ Shaped(c, caller[c]) /\ caller[c].pc = "key"
      /\ file.rt \in Tokens
  BY CallerType DEF RefreshInv, LockInv, CallsShaped, ReadKey, TypeOK, Credentials
<1>3. call \in CallType
  BY <1>2 DEF CallType, CallStates
<1>4. Moves(c, call)
  BY CallerType DEF RefreshInv, ReadKey, Moves, CallType
<1>5. /\ call.pc = "get" /\ call.key = file.rt
      /\ NumbersOf(call) \subseteq NumbersOf(caller[c]) \cup {file.rt}
      /\ call.got = caller[c].got /\ call.lock = caller[c].lock
      /\ call.rejected = caller[c].rejected
  BY <1>2 DEF CallType, NumbersOf
<1> HIDE DEF call
<1>6. Shaped(c, call) /\ call.lock = None
  BY <1>2, <1>5, Sizes DEF Shaped, Requests
<1>7. Accepted(call) /\ KeyCurrent(c, call)
  BY <1>5 DEF Accepted, KeyCurrent
<1>8. \A n \in NumbersOf(call) : Seen(n)
  BY <1>5, OwnSeen
<1>9. \A n \in NumbersOf(call) \cup {call.got.rt, call.got.at} : n <= issued
  BY <1>5, <1>8, SeenIssued DEF RefreshInv, TokenInv, NumbersIssued
<1>10. PlainStep(c, call)
  BY <1>1, <1>3, <1>4, <1>5, <1>6, <1>7, <1>8, <1>9
     DEF PlainStep, LockStep, TokenStep, StandsStill, IssuedGrows
<1>11. QED
  BY <1>10, PlainKeepsInv

LEMMA TakeLockKeepsInv ==
  ASSUME RefreshInv, NEW c \in Callers, TakeLock(c), UNCHANGED scene
  PROVE  RefreshInv'
<1>1. StandsStill /\ IssuedGrows
  BY NothingIssued DEF TakeLock, StandsStill
<1> DEFINE call == [caller[c] EXCEPT !.pc = "locked"]
<1>2. /\ caller[c] \in CallType /\ Shaped(c, caller[c]) /\ caller[c].pc = "wait"
      /\ ~Discovers => KeyCurrent(c, caller[c])
      /\ \A d \in Callers : ~(Holds(d) /\ Refers(d, caller[c].lock))
  BY CallerType DEF RefreshInv, LockInv, CallsShaped, TakeLock, FlightInv, KeysCurrent
<1>3. call \in CallType /\ Moves(c, call)
  BY <1>2 DEF CallType, CallStates, TakeLock, Goes, Moves
<1>5. /\ call.pc = "locked" /\ NumbersOf(call) = NumbersOf(caller[c])
      /\ call.got = caller[c].got /\ call.lock = caller[c].lock
      /\ call.key = caller[c].key /\ call.began = caller[c].began
      /\ call.rejected = caller[c].rejected
  BY <1>2 DEF CallType, NumbersOf
<1> HIDE DEF call
<1>6. Shaped(c, call)
  BY <1>2, <1>5 DEF Shaped
<1>7. Accepted(call) /\ (~Discovers => KeyCurrent(c, call))
  BY <1>2, <1>5 DEF Accepted, KeyCurrent
<1>8. /\ \A n \in NumbersOf(call) : Seen(n)
      /\ \A n \in NumbersOf(call) \cup {call.got.rt, call.got.at} : n <= issued
  BY <1>5, OwnSeen DEF RefreshInv, TokenInv, NumbersIssued
<1>10. PlainStep(c, call)
  BY <1>1, <1>2, <1>3, <1>5, <1>6, <1>7, <1>8 DEF PlainStep, LockStep, TokenStep, StandsStill, IssuedGrows
<1>11. QED
  BY <1>10, PlainKeepsInv

LEMMA DoubleCheckKeepsInv ==
  ASSUME RefreshInv, NEW c \in Callers, DoubleCheck(c), UNCHANGED scene
  PROVE  RefreshInv'
<1>1. StandsStill /\ IssuedGrows
  BY NothingIssued DEF DoubleCheck, StandsStill
<1>2. /\ caller[c] \in CallType /\ Shaped(c, caller[c]) /\ caller[c].pc = "locked"
      /\ ~Discovers => KeyCurrent(c, caller[c])
      /\ file \in Credentials
  BY CallerType DEF RefreshInv, LockInv, CallsShaped, DoubleCheck, FlightInv,
                    KeysCurrent, TypeOK
<1>3. CASE usable(file, caller[c].rejected)
  <2>1. Seen(file.at) /\ file.at # caller[c].rejected
    BY <1>3, OwnSeen DEF usable
  <2>2. Moves(c, Returned(c, file))
    BY <1>3 DEF DoubleCheck, Moves
  <2>3. QED
    BY <1>1, <1>2, <2>1, <2>2, SeenIssued, ReturnIsPlain
<1>4. CASE ~usable(file, caller[c].rejected)
  <2> DEFINE call == [caller[c] EXCEPT !.pc = "posting", !.cred = file]
  <2>1. call \in CallType /\ Moves(c, call)
    BY <1>2, <1>4 DEF CallType, CallStates, DoubleCheck, Moves
  <2>2. /\ call.pc = "posting" /\ call.cred = file
        /\ NumbersOf(call) \subseteq NumbersOf(caller[c]) \cup {file.rt}
        /\ call.got = caller[c].got /\ call.lock = caller[c].lock
        /\ call.key = caller[c].key /\ call.rejected = caller[c].rejected
    BY <1>2 DEF CallType, NumbersOf
  <2> HIDE DEF call
  <2>3. Shaped(c, call) /\ Accepted(call) /\ Holds(c)
    BY <1>2, <2>2 DEF Shaped, Accepted, Holds
  <2>4. ~Discovers => KeyCurrent(c, call)
    BY <1>2, <1>4, <2>2 DEF KeyCurrent
  <2>5. ~Discovers /\ Scans = {} => call.cred.rt \notin replaced
    BY <2>2 DEF RefreshInv, ReplacedInv, NoneReplaced
  <2>6. \A n \in NumbersOf(call) : Seen(n)
    BY <2>2, OwnSeen
  <2>7. \A n \in NumbersOf(call) \cup {call.got.rt, call.got.at} : n <= issued
    BY <2>2, <2>6, SeenIssued DEF RefreshInv, TokenInv, NumbersIssued
  <2>8. PlainStep(c, call)
    BY <1>1, <2>1, <2>2, <2>3, <2>4, <2>5, <2>6, <2>7
       DEF PlainStep, LockStep, TokenStep, StandsStill, IssuedGrows
  <2>9. QED
    BY <2>8, PlainKeepsInv
<1>5. QED
  BY <1>3, <1>4

LEMMA DiscoverKeepsInv ==
  ASSUME RefreshInv, NEW c \in Callers, Discover(c), UNCHANGED scene
  PROVE  RefreshInv'
<1>1. StandsStill /\ IssuedGrows
  BY NothingIssued DEF Discover, StandsStill
<1> DEFINE call == [caller[c] EXCEPT !.pc = "answered", !.cred = file, !.got = file]
<1>2. /\ caller[c] \in CallType /\ Shaped(c, caller[c]) /\ caller[c].pc = "locked"
      /\ Discovers /\ file \in Credentials /\ file.at # caller[c].rejected
  BY CallerType DEF RefreshInv, LockInv, CallsShaped, Discover, TypeOK, usable
<1>3. call \in CallType /\ Moves(c, call)
  BY <1>2 DEF CallType, CallStates, Discover, Moves
<1>4. /\ call.pc = "answered" /\ call.cred = file /\ call.got = file
      /\ NumbersOf(call) \subseteq NumbersOf(caller[c]) \cup {file.rt}
      /\ call.lock = caller[c].lock
      /\ call.key = caller[c].key /\ call.rejected = caller[c].rejected
  BY <1>2 DEF CallType, NumbersOf
<1> HIDE DEF call
<1>5. Shaped(c, call) /\ Accepted(call) /\ Holds(c)
  BY <1>2, <1>4 DEF Shaped, Accepted, Holds
<1>6. \A n \in NumbersOf(call) \cup {call.got.rt, call.got.at} : n <= issued
  BY <1>4, OwnSeen, SeenIssued
<1>7. PlainStep(c, call)
  BY <1>1, <1>2, <1>3, <1>4, <1>5, <1>6 DEF PlainStep, LockStep, TokenStep, StandsStill, IssuedGrows
<1>8. QED
  BY <1>7, PlainKeepsInv

LEMMA ScanFileKeepsInv ==
  ASSUME RefreshInv, NEW c \in Callers, ScanFile(c), UNCHANGED scene
  PROVE  RefreshInv'
<1>1. StandsStill /\ IssuedGrows
  BY NothingIssued DEF ScanFile, StandsStill
<1>2. /\ caller[c] \in CallType /\ Shaped(c, caller[c]) /\ caller[c].pc = "peek"
      /\ c \in Scans /\ caller[c].rejected = None
      /\ file \in Credentials
  BY CallerType DEF RefreshInv, LockInv, CallsShaped, ScanFile, Shaped, TypeOK
<1>3. CASE usable(file, None)
  <2>1. Seen(file.at) /\ file.at # caller[c].rejected
    BY <1>2, <1>3, OwnSeen DEF usable
  <2>2. Moves(c, Returned(c, file))
    BY <1>3 DEF ScanFile, Moves
  <2>3. QED
    BY <1>1, <1>2, <2>1, <2>2, SeenIssued, ReturnIsPlain
<1>4. CASE ~usable(file, None)
  <2> DEFINE call == [caller[c] EXCEPT !.pc = "posting", !.cred = file]
  <2>1. call \in CallType /\ Moves(c, call)
    BY <1>2, <1>4 DEF CallType, CallStates, ScanFile, Moves
  <2>2. /\ call.pc = "posting" /\ call.cred = file
        /\ NumbersOf(call) \subseteq NumbersOf(caller[c]) \cup {file.rt}
        /\ call.got = caller[c].got /\ call.lock = caller[c].lock
        /\ call.key = caller[c].key /\ call.rejected = caller[c].rejected
    BY <1>2 DEF CallType, NumbersOf
  <2> HIDE DEF call
  <2>3. Shaped(c, call) /\ Accepted(call) /\ KeyCurrent(c, call) /\ call.lock = None
    BY <1>2, <2>2 DEF Shaped, Accepted, KeyCurrent, Requests
  <2>6. \A n \in NumbersOf(call) : Seen(n)
    BY <2>2, OwnSeen
  <2>7. \A n \in NumbersOf(call) \cup {call.got.rt, call.got.at} : n <= issued
    BY <2>2, <2>6, SeenIssued DEF RefreshInv, TokenInv, NumbersIssued
  <2>8. PlainStep(c, call)
    BY <1>1, <1>2, <2>1, <2>2, <2>3, <2>6, <2>7
       DEF PlainStep, LockStep, TokenStep, StandsStill, IssuedGrows
  <2>9. QED
    BY <2>8, PlainKeepsInv
<1>5. QED
  BY <1>3, <1>4

LEMMA KeepFileKeepsInv ==
  ASSUME RefreshInv, NEW c \in Callers, KeepFile(c), UNCHANGED scene
  PROVE  RefreshInv'
<1>1. StandsStill /\ IssuedGrows /\ Discovers
  BY NothingIssued DEF KeepFile, StandsStill
<1>2. caller[c].got \in Credentials /\ Moves(c, Returned(c, caller[c].got))
  BY CallerType DEF RefreshInv, CallType, KeepFile, Return, Moves
<1>3. caller[c].got.at # caller[c].rejected /\ caller[c].got.at <= issued
  BY DEF RefreshInv, TokenInv, Accepted, NumbersIssued, KeepFile
<1>4. QED
  BY <1>1, <1>2, <1>3, ReturnIsPlain

\* An attempt that is repeated leaves the call as it was.
LEMMA RepeatKeepsInv ==
  ASSUME RefreshInv, NEW c \in Callers, caller[c].pc = "posting", RepeatOrFail(c),
         StandsStill, IssuedGrows
  PROVE  RefreshInv'
<1>1. CASE Fail(c)
  BY <1>1, FailIsPlain
<1>2. CASE /\ caller[c].tries + 1 < Retries
           /\ caller' = [caller EXCEPT ![c].tries = @ + 1]
  <2> DEFINE call == [caller[c] EXCEPT !.tries = @ + 1]
  <2>1. /\ caller[c] \in CallType /\ Shaped(c, caller[c])
        /\ ~Discovers => KeyCurrent(c, caller[c])
    BY CallerType DEF RefreshInv, LockInv, CallsShaped, FlightInv, KeysCurrent
  <2>2. call \in CallType /\ Moves(c, call)
    BY <1>2, <2>1, Sizes DEF CallType, CallStates, Moves
  <2>3. /\ call.pc = "posting" /\ call.cred = caller[c].cred
        /\ NumbersOf(call) = NumbersOf(caller[c])
        /\ call.got = caller[c].got /\ call.lock = caller[c].lock
        /\ call.key = caller[c].key /\ call.rejected = caller[c].rejected
    BY <2>1 DEF CallType, NumbersOf
  <2> HIDE DEF call
  <2>4. Shaped(c, call) /\ Accepted(call) /\ (call.lock # None => Holds(c))
    BY <2>1, <2>3 DEF Shaped, Accepted, Holds
  <2>5. ~Discovers => KeyCurrent(c, call)
    BY <2>1, <2>3 DEF KeyCurrent
  <2>6. ~Discovers /\ Scans = {} => call.cred.rt \notin replaced
    BY <2>3 DEF RefreshInv, ReplacedInv, NoneReplaced
  <2>7. /\ \A n \in NumbersOf(call) : Seen(n)
        /\ \A n \in NumbersOf(call) \cup {call.got.rt, call.got.at} : n <= issued
    BY <2>3, OwnSeen DEF RefreshInv, TokenInv, NumbersIssued
  <2>8. PlainStep(c, call)
    BY <2>2, <2>3, <2>4, <2>5, <2>6, <2>7 DEF PlainStep, LockStep, TokenStep, StandsStill, IssuedGrows
  <2>9. QED
    BY <2>8, PlainKeepsInv
<1>3. QED
  BY <1>1, <1>2 DEF RepeatOrFail

LEMMA LoseAnswerKeepsInv ==
  ASSUME RefreshInv, NEW c \in Callers, LoseAnswer(c), UNCHANGED scene
  PROVE  RefreshInv'
<1>1. StandsStill /\ IssuedGrows /\ caller[c].pc = "posting"
  BY IssuedByCall DEF LoseAnswer, StandsStill, Issue
<1>2. RepeatOrFail(c) \/ Fail(c)
  BY DEF LoseAnswer
<1>3. QED
  BY <1>1, <1>2, RepeatKeepsInv, FailIsPlain

LEMMA RefuseKeepsInv ==
  ASSUME RefreshInv, NEW c \in Callers, Refuse(c), UNCHANGED scene
  PROVE  RefreshInv'
<1>1. StandsStill /\ IssuedGrows /\ caller[c].pc = "posting"
  BY NothingIssued DEF Refuse, StandsStill
<1>2. RepeatOrFail(c) \/ Fail(c)
  BY DEF Refuse
<1>3. QED
  BY <1>1, <1>2, RepeatKeepsInv, FailIsPlain

LEMMA ServerErrorKeepsInv ==
  ASSUME RefreshInv, NEW c \in Callers, ServerError(c), UNCHANGED scene
  PROVE  RefreshInv'
<1>1. StandsStill /\ IssuedGrows /\ caller[c].pc = "posting" /\ RepeatOrFail(c)
  BY NothingIssued DEF ServerError, StandsStill
<1>2. QED
  BY <1>1, RepeatKeepsInv
-----------------------------------------------------------------------------
(***************************************************************************)
(* A call refers to the lock of its key; the table forgets the locks that  *)
(* nobody refers to.                                                       *)
(***************************************************************************)
LEMMA AcquireLocks ==
  ASSUME RefreshInv, NEW c \in Callers, acquire_refresh_lock(c), UNCHANGED scene
  PROVE  /\ LockInv'
         /\ table' \in [Tokens -> Locks \cup {None}]
         /\ \E lock \in Locks :
              Moves(c, [caller[c] EXCEPT !.pc = "wait", !.lock = lock])
<1> DEFINE key == caller[c].key
           kept == [t \in Tokens |-> IF Retained(table[t]) THEN table[t] ELSE None]
           lock == IF kept[key] = None THEN NewLock ELSE kept[key]
           call == [caller[c] EXCEPT !.pc = "wait", !.lock = lock]
<1>1. /\ TypeOK /\ CallsShaped /\ LocksListed /\ LocksApart /\ Mutex
      /\ table \in [Tokens -> Locks \cup {None}]
      /\ caller[c] \in CallType /\ caller[c].pc = "get"
  BY CallerType DEF RefreshInv, LockInv, TypeOK, acquire_refresh_lock
<1>2. /\ key \in Tokens /\ key # None /\ caller[c].lock = None
      /\ c \in Requests
  BY <1>1, Sizes DEF CallsShaped, Shaped, CallType
<1>3. /\ kept \in [Tokens -> Locks \cup {None}]
      /\ \A t \in Tokens : kept[t] # None => kept[t] = table[t] /\ Retained(table[t])
      /\ \A t \in Tokens : Retained(table[t]) => kept[t] = table[t]
  BY <1>1
<1>4. /\ NewLock \in Locks /\ \A d \in Callers : ~Refers(d, NewLock)
      /\ \A t \in Tokens : table[t] # NewLock
  BY <1>1, <1>2, LockLeft
<1>5. /\ table' = [kept EXCEPT ![key] = lock]
      /\ caller' = [caller EXCEPT ![c].pc = "wait", ![c].lock = lock]
  BY DEF acquire_refresh_lock
<1> HIDE DEF kept, key
<1>6. lock \in Locks /\ lock # None
  BY <1>2, <1>3, <1>4, Sizes
<1>7. \/ lock = table[key]
      \/ /\ \A d \in Callers : ~Refers(d, lock)
         /\ \A t \in Tokens : table[t] # lock
  BY <1>2, <1>3, <1>4
<1>8. kept[key] # None => lock = table[key]
  BY <1>2, <1>3
<1> HIDE DEF lock
<1>9. call \in CallType /\ Moves(c, call)
  BY <1>1, <1>5, <1>6 DEF CallType, CallStates, Moves
<1>10. /\ call.pc = "wait" /\ call.lock = lock /\ call.key = key
       /\ call.rejected = caller[c].rejected
  BY <1>1 DEF CallType, key
<1> HIDE DEF call
<1>11. /\ caller'[c] = call
       /\ \A d \in Callers \ {c} : caller'[d] = caller[d]
  BY <1>1, <1>9, MovesType
<1>12. /\ table' \in [Tokens -> Locks \cup {None}]
       /\ table'[key] = lock
       /\ \A t \in Tokens \ {key} : table'[t] = kept[t]
  BY <1>2, <1>3, <1>5, <1>6
<1>13. CallsShaped'
  BY <1>1, <1>2, <1>6, <1>10, <1>11 DEF CallsShaped, Shaped, Requests, Scans
<1>14. LocksListed'
  <2> SUFFICES ASSUME NEW d \in Callers, caller'[d].lock # None
               PROVE  table'[caller'[d].key] = caller'[d].lock
    BY DEF LocksListed
  <2>1. CASE d = c
    BY <1>10, <1>11, <1>12, <2>1
  <2>2. CASE d # c
    <3>1. caller'[d] = caller[d] /\ caller[d] \in CallType
      BY <1>1, <1>11, <2>2, CallerType
    <3>2. caller[d].key \in Tokens /\ table[caller[d].key] = caller[d].lock
      BY <1>1, <3>1 DEF LocksListed, CallsShaped, Shaped, CallType
    <3>3. Retained(table[caller[d].key])
      BY <3>2 DEF Retained, Refers
    <3>4. kept[caller[d].key] = caller[d].lock
      BY <1>3, <3>2, <3>3
    <3>5. caller[d].key = key => lock = caller[d].lock
      BY <1>8, <3>1, <3>2, <3>4
    <3>6. QED
      BY <1>12, <3>1, <3>2, <3>4, <3>5
  <2>3. QED
    BY <2>1, <2>2
<1>15. LocksApart'
  <2>1. ASSUME NEW t \in Tokens \ {key}, table'[t] # None
        PROVE  table'[t] = table[t] /\ table'[t] # lock
    <3>1. table'[t] = table[t] /\ table[t] # None
      BY <1>3, <1>12, <2>1
    <3>2. QED
      BY <1>1, <1>2, <1>7, <3>1 DEF LocksApart
  <2>2. QED
    BY <1>1, <1>2, <1>6, <1>12, <2>1 DEF LocksApart
<1>16. Mutex'
  BY <1>1, <1>10, <1>11 DEF Mutex, Holds
<1>17. TableBounded'
  <2> DEFINE listed == {t \in Tokens : table'[t] # None}
             keyOf == [d \in Requests |-> caller'[d].key]
             keys == {caller'[d].key : d \in Requests}
  <2>1. ASSUME NEW t \in Tokens, table'[t] # None
        PROVE  \E d \in Requests : caller'[d].key = t
    <3>1. CASE t = key
      BY <1>2, <1>10, <1>11, <3>1 DEF Requests
    <3>2. CASE t # key
      <4>1. table'[t] = table[t] /\ Retained(table[t])
        BY <1>3, <1>12, <2>1, <3>2
      <4>2. PICK d \in Callers : caller[d].lock = table[t]
        BY <4>1 DEF Retained, Refers
      <4>3. d # c /\ d \in Requests /\ caller[d].key \in Tokens
        BY <1>1, <1>2, <2>1, <4>1, <4>2, CallerType DEF CallsShaped, Shaped, CallType
      <4>4. table[caller[d].key] = table[t]
        BY <1>1, <2>1, <4>1, <4>2 DEF LocksListed
      <4>5. caller[d].key = t
        BY <1>1, <2>1, <4>1, <4>3, <4>4 DEF LocksApart
      <4>6. QED
        BY <1>11, <4>3, <4>5
    <3>3. QED
      BY <3>1, <3>2
  <2>2. listed \subseteq keys
    BY <2>1
  <2>3. IsFiniteSet(Requests)
    BY Sizes, FS_Subset DEF Requests
  <2>4. keyOf \in Surjection(Requests, keys)
    BY DEF Surjection
  <2>5. IsFiniteSet(keys) /\ Cardinality(keys) <= Cardinality(Requests)
    BY <2>3, <2>4, FS_Surjection
  <2>6. IsFiniteSet(listed) /\ Cardinality(listed) <= Cardinality(keys)
    BY <2>2, <2>5, FS_Subset
  <2>7. /\ Cardinality(listed) \in Nat /\ Cardinality(keys) \in Nat
        /\ Cardinality(Requests) \in Nat
    BY <2>3, <2>5, <2>6, FS_CardinalityType
  <2>8. Cardinality(listed) <= Cardinality(Requests)
    BY <2>5, <2>6, <2>7
  <2>9. QED
    BY <2>8 DEF TableBounded, Requests, Scans
<1>18. QED
  BY <1>6, <1>9, <1>12, <1>13, <1>14, <1>15, <1>16, <1>17 DEF LockInv, call

LEMMA AcquireKeepsInv ==
  ASSUME RefreshInv, NEW c \in Callers, acquire_refresh_lock(c), UNCHANGED scene
  PROVE  RefreshInv'
<1>1. UNCHANGED <<file, valid, expired, issued, replaced, scene>> /\ IssuedGrows
  BY NothingIssued DEF acquire_refresh_lock
<1>2. PICK lock \in Locks : Moves(c, [caller[c] EXCEPT !.pc = "wait", !.lock = lock])
  BY AcquireLocks
<1> DEFINE call == [caller[c] EXCEPT !.pc = "wait", !.lock = lock]
<1>3. /\ caller[c] \in CallType /\ caller[c].pc = "get"
      /\ ~Discovers => KeyCurrent(c, caller[c])
  BY CallerType DEF RefreshInv, FlightInv, KeysCurrent, acquire_refresh_lock
<1>4. call \in CallType /\ Moves(c, call)
  BY <1>2, <1>3 DEF CallType, CallStates
<1>5. /\ call.pc = "wait" /\ NumbersOf(call) = NumbersOf(caller[c])
      /\ call.got = caller[c].got /\ call.key = caller[c].key
      /\ call.began = caller[c].began /\ call.rejected = caller[c].rejected
  BY <1>3 DEF CallType, NumbersOf
<1> HIDE DEF call
<1>6. Accepted(call) /\ (~Discovers => KeyCurrent(c, call))
  BY <1>3, <1>5 DEF Accepted, KeyCurrent
<1>7. /\ \A n \in NumbersOf(call) : Seen(n)
      /\ \A n \in NumbersOf(call) \cup {call.got.rt, call.got.at} : n <= issued
  BY <1>5, OwnSeen DEF RefreshInv, TokenInv, NumbersIssued
<1>8. TokenStep(c, call)
  BY <1>1, <1>4, <1>5, <1>6, <1>7 DEF TokenStep, IssuedGrows
<1>9. TokenInv' /\ FlightInv' /\ ReplacedInv'
  BY <1>8, PlainTokens
<1>10. TypeOK'
  <2>1. caller' \in [Callers -> CallType]
    BY <1>4, MovesType DEF RefreshInv
  <2>2. QED
    BY <1>1, <2>1, AcquireLocks DEF RefreshInv, TypeOK, CallType, CallStates
<1>11. QED
  BY <1>9, <1>10, AcquireLocks DEF RefreshInv
-----------------------------------------------------------------------------
(***************************************************************************)
(* Steps after which a new number is in use.                               *)
(***************************************************************************)
\* The next number has been seen by nobody.
LEMMA NextUnseen ==
  ASSUME RefreshInv
  PROVE  /\ issued \in Nat
         /\ ~Seen(issued + 1)
         /\ \A c \in Callers : caller[c].got.at # issued + 1
<1>1. issued \in Nat /\ ~(issued + 1 <= issued)
  BY Sizes DEF RefreshInv, TypeOK
<1>2. ~Seen(issued + 1)
  BY <1>1, SeenIssued
<1>3. \A c \in Callers : caller[c].got.at # issued + 1
  BY <1>1 DEF RefreshInv, TokenInv, NumbersIssued
<1>4. QED
  BY <1>1, <1>2, <1>3

\* What was issued stays issued.
LEMMA StaysIssued ==
  ASSUME RefreshInv, issued' = issued + 1
  PROVE  /\ file.at <= issued' /\ file.rt <= issued'
         /\ \A t \in expired \cup replaced : t <= issued'
         /\ \A c \in Callers :
              \A n \in NumbersOf(caller[c]) \cup {caller[c].got.rt, caller[c].got.at} :
                n <= issued'
<1>1. /\ file.at \in Nat /\ file.rt \in Nat /\ issued \in Nat
      /\ expired \subseteq Nat /\ replaced \subseteq Nat
  BY Sizes DEF RefreshInv, TypeOK, Credentials
<1>2. \A n \in Nat : n <= issued => n <= issued'
  BY <1>1
<1>3. ASSUME NEW c \in Callers,
             NEW n \in NumbersOf(caller[c]) \cup {caller[c].got.rt, caller[c].got.at}
      PROVE  n \in Nat
  BY <1>3, CallerType, NumbersNat DEF RefreshInv
<1>4. QED
  BY <1>1, <1>2, <1>3 DEF RefreshInv, TokenInv, NumbersIssued

LEMMA GrantKeepsInv ==
  ASSUME RefreshInv, NEW c \in Callers, Grant(c), UNCHANGED scene
  PROVE  RefreshInv'
<1>1. PICK rotate \in BOOLEAN :
        /\ Issue(c, rotate)
        /\ caller' = [caller EXCEPT
             ![c].pc = "answered",
             ![c].got = [rt |-> IF rotate THEN issued + 1 ELSE caller[c].cred.rt,
                         at |-> issued + 1]]
  BY DEF Grant
<1> DEFINE got == [rt |-> IF rotate THEN issued + 1 ELSE caller[c].cred.rt,
                   at |-> issued + 1]
           call == [caller[c] EXCEPT !.pc = "answered", !.got = got]
<1>2. /\ UNCHANGED <<file, expired, table, replaced, scene>>
      /\ issued' = issued + 1 /\ issued' \in Tokens /\ valid' \subseteq Tokens
      /\ caller[c].pc = "posting"
  BY <1>1, IssueType DEF RefreshInv, Grant
<1>3. /\ caller[c] \in CallType /\ Shaped(c, caller[c])
      /\ caller[c].cred.rt \in Tokens
      /\ ~Discovers => KeyCurrent(c, caller[c])
  BY CallerType DEF RefreshInv, LockInv, CallsShaped, FlightInv, KeysCurrent, CallType,
                    Credentials
<1>4. /\ got \in Credentials /\ got.at = issued + 1
      /\ got.rt \in {caller[c].cred.rt, got.at}
  BY <1>2, <1>3 DEF Credentials
<1>5. caller' = [caller EXCEPT ![c].pc = "answered", ![c].got = got]
  BY <1>1
<1> HIDE DEF got
<1>6. call \in CallType /\ Moves(c, call)
  BY <1>3, <1>4, <1>5 DEF CallType, CallStates, Moves
<1>7. /\ call.pc = "answered" /\ call.got = got /\ call.cred = caller[c].cred
      /\ NumbersOf(call) = NumbersOf(caller[c])
      /\ call.lock = caller[c].lock /\ call.key = caller[c].key
      /\ call.rejected = caller[c].rejected
  BY <1>3 DEF CallType, NumbersOf
<1> HIDE DEF call
<1>8. /\ caller' \in [Callers -> CallType] /\ caller'[c] = call
      /\ \A d \in Callers \ {c} : caller'[d] = caller[d]
  BY <1>6, MovesType DEF RefreshInv
<1>9. LockInv'
  <2>1. Shaped(c, call) /\ (call.lock # None => Holds(c))
    BY <1>2, <1>3, <1>7 DEF Shaped, Holds
  <2>2. LockStep(c, call)
    BY <1>2, <1>6, <1>7, <2>1 DEF LockStep
  <2>3. QED
    BY <2>2, PlainLocks
<1>10. TypeOK'
  BY <1>2, <1>8 DEF RefreshInv, TypeOK, CallType, CallStates
<1>11. /\ issued \in Nat /\ ~Seen(got.at)
       /\ \A d \in Callers : caller[d].got.at # got.at
  BY <1>4, NextUnseen
<1>12. TokenInv'
  <2>1. \A n \in {got.rt, got.at} : n <= issued'
    BY <1>2, <1>4, <1>11, StaysIssued DEF NumbersOf
  <2>2. ASSUME NEW d \in Callers,
               NEW n \in NumbersOf(caller'[d]) \cup {caller'[d].got.rt, caller'[d].got.at}
        PROVE  n <= issued'
    <3>1. CASE d = c
      BY <1>2, <1>7, <1>8, <2>1, <2>2, <3>1, StaysIssued
    <3>2. CASE d # c
      BY <1>2, <1>8, <2>2, <3>2, StaysIssued
    <3>3. QED
      BY <3>1, <3>2
  <2>3. NumbersIssued'
    <3>1. /\ file.at <= issued' /\ file.rt <= issued'
          /\ \A t \in expired \cup replaced : t <= issued'
      BY <1>2, StaysIssued
    <3>2. QED
      BY <1>2, <2>2, <3>1 DEF NumbersIssued, NumbersOf
  <2>4. Accepted(call)
    <3>1. Seen(caller[c].rejected)
      BY OwnSeen DEF NumbersOf
    <3>2. QED
      BY <1>7, <1>11, <3>1 DEF Accepted
  <2>5. \A d \in Callers : Accepted(caller'[d])
    BY <1>8, <2>4 DEF RefreshInv, TokenInv
  <2>6. QED
    BY <2>3, <2>5 DEF TokenInv, Accepted
<1>13. ASSUME NEW n, Seen(n)' PROVE Seen(n)
  <2>1. CASE n \in {None, 1, file.at, file.rt} \cup expired \cup replaced
    BY <2>1 DEF Seen
  <2>2. ASSUME NEW d \in Callers, n \in NumbersOf(caller'[d])
        PROVE  Seen(n)
    BY <1>7, <1>8, <2>2 DEF Seen
  <2>3. QED
    BY <1>2, <1>13, <2>1, <2>2 DEF Seen, NumbersOf
<1>14. FlightInv'
  <2> SUFFICES ASSUME ~Discovers' PROVE AnswersNew' /\ KeysCurrent'
    BY DEF FlightInv
  <2>1. ~Discovers /\ AnswersNew /\ KeysCurrent
    BY <1>2 DEF Discovers, RefreshInv, FlightInv
  <2>2. AnswersNew'
    <3>1. ASSUME NEW d \in Callers, caller'[d].pc = "answered"
          PROVE  /\ ~Seen(caller'[d].got.at)
                 /\ caller'[d].got.rt \in {caller'[d].cred.rt, caller'[d].got.at}
                 /\ \A e \in Callers \ {d} :
                      caller'[e].pc = "answered" => caller'[e].got.at # caller'[d].got.at
      <4>1. CASE d = c
        BY <1>4, <1>7, <1>8, <1>11, <4>1
      <4>2. CASE d # c
        BY <1>7, <1>8, <1>11, <2>1, <3>1, <4>2 DEF AnswersNew
      <4>3. QED
        BY <4>1, <4>2
    <3>2. QED
      BY <1>13, <3>1 DEF AnswersNew
  <2>3. KeyCurrent(c, call)
    BY <1>2, <1>3, <1>7, <2>1 DEF KeyCurrent
  <2>4. KeysCurrent'
    BY <1>2, <1>8, <2>1, <2>3 DEF KeysCurrent, KeyCurrent, usable, Requests, Scans
  <2>5. QED
    BY <2>2, <2>4
<1>15. ReplacedInv'
  BY <1>2, <1>7, <1>8 DEF ReplacedInv, RefreshInv, NoneReplaced, Discovers, Scans
<1>16. QED
  BY <1>9, <1>10, <1>12, <1>14, <1>15 DEF RefreshInv

LEMMA SaveKeepsInv ==
  ASSUME RefreshInv, NEW c \in Callers, save_to(c), UNCHANGED scene
  PROVE  RefreshInv'
<1> DEFINE got == caller[c].got
           cred == caller[c].cred
           call == Returned(c, got)
<1>1. /\ file' = got
      /\ replaced' = IF got.rt # cred.rt THEN replaced \cup {cred.rt} ELSE replaced
      /\ UNCHANGED <<valid, expired, issued, table, scene>>
      /\ caller[c].pc = "answered" /\ Moves(c, call)
  BY DEF save_to, Written, Return, Moves
<1>2. /\ caller[c] \in CallType /\ Shaped(c, caller[c]) /\ Accepted(caller[c])
      /\ ~Discovers => KeyCurrent(c, caller[c])
  BY CallerType DEF RefreshInv, LockInv, CallsShaped, TokenInv, FlightInv, KeysCurrent
<1>3. /\ got \in Credentials /\ cred \in Credentials
      /\ got.at \in Tokens /\ got.rt \in Tokens /\ cred.rt \in Tokens
  BY <1>2 DEF CallType, Credentials
<1>4. call \in CallType
  BY <1>3, ReturnedType DEF RefreshInv
<1>5. /\ call.pc = "done" /\ call.lock = None /\ call.key = None
      /\ call.rejected = caller[c].rejected /\ call.result = got.at
      /\ call.began = None /\ call.cred = [rt |-> 1, at |-> 1]
      /\ call.got = [rt |-> 1, at |-> 1]
  BY DEF Returned, Idle
<1>6. Seen(caller[c].rejected) /\ Seen(cred.rt) /\ Seen(None) /\ Seen(1)
  BY OwnSeen DEF NumbersOf
<1>7. got.at <= issued /\ got.rt <= issued
  BY DEF RefreshInv, TokenInv, NumbersIssued
<1> HIDE DEF call, got, cred
<1>8. /\ caller' \in [Callers -> CallType] /\ caller'[c] = call
      /\ \A d \in Callers \ {c} : caller'[d] = caller[d]
  BY <1>1, <1>4, MovesType DEF RefreshInv
<1>9. LockInv'
  <2>1. Shaped(c, call)
    BY <1>2, <1>5 DEF Shaped
  <2>2. LockStep(c, call)
    BY <1>1, <1>4, <1>5, <2>1 DEF LockStep
  <2>3. QED
    BY <2>2, PlainLocks
<1>10. TypeOK'
  BY <1>1, <1>3, <1>8 DEF RefreshInv, TypeOK, CallType, CallStates
<1>11. NumbersOf(call) = {caller[c].rejected, None, got.at, 1}
  BY <1>5 DEF NumbersOf
<1>12. TokenInv'
  <2>1. \A n \in NumbersOf(call) \cup {call.got.rt, call.got.at} : n <= issued
    BY <1>5, <1>6, <1>7, <1>11, SeenIssued
  <2>2. cred.rt <= issued
    BY <1>6, SeenIssued
  <2>3. NumbersIssued'
    <3>1. /\ file'.at <= issued /\ file'.rt <= issued
          /\ \A t \in expired \cup replaced' : t <= issued
      BY <1>1, <1>7, <2>2 DEF RefreshInv, TokenInv, NumbersIssued
    <3>2. ASSUME NEW d \in Callers
          PROVE  \A n \in NumbersOf(caller'[d]) \cup {caller'[d].got.rt, caller'[d].got.at} :
                   n <= issued
      <4>1. CASE d = c
        BY <1>8, <2>1, <4>1
      <4>2. CASE d # c
        BY <1>8, <4>2 DEF RefreshInv, TokenInv, NumbersIssued
      <4>3. QED
        BY <4>1, <4>2
    <3>3. QED
      BY <1>1, <3>1, <3>2 DEF NumbersIssued, NumbersOf
  <2>4. Accepted(call)
    BY <1>1, <1>2, <1>5 DEF Accepted, got
  <2>5. \A d \in Callers : Accepted(caller'[d])
    BY <1>8, <2>4 DEF RefreshInv, TokenInv
  <2>6. QED
    BY <2>3, <2>5 DEF TokenInv, Accepted
<1>13. ~Discovers =>
         /\ AnswersNew /\ KeysCurrent
         /\ ~Seen(got.at) /\ got.rt \in {cred.rt, got.at}
         /\ \A d \in Callers \ {c} :
              caller[d].pc = "answered" => caller[d].got.at # got.at
  BY <1>1 DEF RefreshInv, FlightInv, AnswersNew, got, cred
<1>14. ASSUME ~Discovers, NEW n, Seen(n)' PROVE Seen(n) \/ n = got.at
  <2>1. CASE n \in {None, 1, file'.at, file'.rt} \cup expired \cup replaced'
    BY <1>1, <1>6, <1>13, <1>14, <2>1 DEF Seen
  <2>2. ASSUME NEW d \in Callers, n \in NumbersOf(caller'[d])
        PROVE  Seen(n) \/ n = got.at
    <3>1. CASE d = c
      BY <1>6, <1>8, <1>11, <2>2, <3>1
    <3>2. CASE d # c
      BY <1>8, <2>2, <3>2 DEF Seen
    <3>3. QED
      BY <3>1, <3>2
  <2>3. QED
    BY <1>1, <1>14, <2>1, <2>2 DEF Seen, NumbersOf
<1>15. FlightInv'
  <2> SUFFICES ASSUME ~Discovers' PROVE AnswersNew' /\ KeysCurrent'
    BY DEF FlightInv
  <2>1. ~Discovers
    BY <1>1 DEF Discovers
  <2>2. ASSUME NEW d \in Callers, caller'[d].pc = "answered"
        PROVE  d # c /\ caller'[d] = caller[d]
    BY <1>5, <1>8, <2>2
  <2>3. AnswersNew'
    <3>1. ASSUME NEW d \in Callers, caller'[d].pc = "answered"
          PROVE  /\ ~Seen(caller'[d].got.at) /\ caller'[d].got.at # got.at
                 /\ caller'[d].got.rt \in {caller'[d].cred.rt, caller'[d].got.at}
                 /\ \A e \in Callers \ {d} :
                      caller'[e].pc = "answered" => caller'[e].got.at # caller'[d].got.at
      <4>1. d # c /\ caller'[d] = caller[d]
        BY <2>2, <3>1
      <4>2. /\ ~Seen(caller[d].got.at) /\ caller[d].got.at # got.at
            /\ caller[d].got.rt \in {caller[d].cred.rt, caller[d].got.at}
        BY <1>13, <2>1, <3>1, <4>1 DEF AnswersNew
      <4>3. \A e \in Callers \ {d} :
              caller'[e].pc = "answered" => caller'[e].got.at # caller[d].got.at
        BY <1>13, <2>1, <2>2, <3>1, <4>1 DEF AnswersNew
      <4>4. QED
        BY <4>1, <4>2, <4>3
    <3>2. QED
      BY <1>14, <2>1, <3>1 DEF AnswersNew
  <2>4. ASSUME NEW d \in Callers \ {c}
        PROVE  /\ caller[d].began # got.at
               /\ got.at \notin expired /\ got.at # caller[d].rejected
    <3>1. Seen(caller[d].began) /\ Seen(caller[d].rejected)
      BY OwnSeen DEF NumbersOf
    <3>2. \A n \in expired : Seen(n)
      BY DEF Seen
    <3>3. QED
      BY <1>13, <2>1, <3>1, <3>2
  <2>5. KeysCurrent'
    BY <1>1, <1>5, <1>8, <1>13, <2>1, <2>4
       DEF KeysCurrent, KeyCurrent, usable, Requests, Scans
  <2>6. QED
    BY <2>3, <2>5
<1>16. ReplacedInv'
  <2> SUFFICES ASSUME ~Discovers', Scans' = {} PROVE NoneReplaced'
    BY DEF ReplacedInv
  <2>1. ~Discovers /\ Scans = {} /\ NoneReplaced
    BY <1>1 DEF Discovers, Scans, RefreshInv, ReplacedInv
  <2>2. cred.rt \notin replaced
    BY <1>1, <2>1 DEF NoneReplaced, cred
  <2>3. file'.rt \notin replaced'
    <3>1. CASE got.rt = cred.rt
      BY <1>1, <2>2, <3>1
    <3>2. CASE got.rt # cred.rt
      <4>1. got.rt = got.at /\ ~Seen(got.rt)
        BY <1>13, <2>1, <3>2
      <4>2. \A n \in replaced : Seen(n)
        BY DEF Seen
      <4>3. QED
        BY <1>1, <1>6, <4>1, <4>2
    <3>3. QED
      BY <3>1, <3>2
  <2>4. ASSUME NEW d \in Callers \ {c}, caller[d].pc \in {"posting", "answered"}
        PROVE  caller[d].cred.rt \notin replaced'
    <3>1. caller[d].cred.rt \notin replaced
      BY <2>1, <2>4 DEF NoneReplaced
    <3>2. ASSUME caller[d].cred.rt = cred.rt PROVE FALSE
      <4>1. c \in Requests /\ d \in Requests
        BY <2>1, <2>4 DEF Requests
      <4>2. caller[c].key = caller[d].key
        BY <1>1, <1>13, <2>1, <2>4, <3>2, <4>1 DEF KeysCurrent, KeyCurrent, cred
      <4>3. caller[c].lock # None /\ caller[d].lock # None
        BY <1>1, <2>4, <4>1 DEF RefreshInv, LockInv, CallsShaped, Shaped
      <4>4. caller[c].lock = caller[d].lock
        BY <4>2, <4>3 DEF RefreshInv, LockInv, LocksListed
      <4>5. Holds(c) /\ Holds(d)
        BY <1>1, <2>4, <4>3 DEF Holds
      <4>6. QED
        BY <2>4, <4>4, <4>5 DEF RefreshInv, LockInv, Mutex
    <3>3. QED
      BY <1>1, <3>1, <3>2
  <2>5. QED
    BY <1>5, <1>8, <2>3, <2>4 DEF NoneReplaced
<1>17. QED
  BY <1>9, <1>10, <1>12, <1>15, <1>16 DEF RefreshInv

LEMMA ScanDiscoversKeepsInv ==
  ASSUME RefreshInv, NEW c \in Callers, ScanDiscovers(c), UNCHANGED scene
  PROVE  RefreshInv'
<1> DEFINE got  == caller[c].got
           call == caller'[c]
<1>1. /\ caller[c] \in CallType /\ Shaped(c, caller[c]) /\ Accepted(caller[c])
      /\ Discovers /\ c \in Scans /\ caller[c].rejected = None /\ caller[c].lock = None
      /\ file \in Credentials /\ got \in Credentials
      /\ UNCHANGED <<valid, expired, issued, table, scene>>
  <2>1. /\ caller[c] \in CallType /\ Shaped(c, caller[c]) /\ Accepted(caller[c])
        /\ Discovers /\ c \in Scans /\ file \in Credentials
        /\ UNCHANGED <<valid, expired, issued, table, scene>>
    BY CallerType DEF RefreshInv, LockInv, CallsShaped, TokenInv, ScanDiscovers, TypeOK
  <2>2. caller[c].rejected = None /\ caller[c].lock = None
    BY <2>1 DEF Shaped, Requests
  <2>3. QED
    BY <2>1, <2>2 DEF CallType
<1>2. /\ Moves(c, call) /\ call \in CallType
      /\ call.pc = "answered" /\ call.got = call.cred
      /\ call.rejected = None /\ call.lock = None /\ call.key = caller[c].key
      /\ call.began = caller[c].began /\ call.result = caller[c].result
      /\ \/ call.got = file /\ file.at # None
         \/ call.got = got /\ caller[c].pc = "answered"
  <2>1. CASE /\ usable(file, None)
             /\ caller' = [caller EXCEPT ![c].pc = "answered", ![c].cred = file,
                                        ![c].got = file]
    <3> DEFINE next == [caller[c] EXCEPT !.pc = "answered", !.cred = file, !.got = file]
    <3>1. call = next /\ Moves(c, next)
      BY <2>1, CallerType DEF RefreshInv, Moves
    <3>2. /\ next \in CallType /\ next.pc = "answered" /\ next.got = file /\ next.cred = file
          /\ next.rejected = None /\ next.lock = None /\ next.key = caller[c].key
          /\ next.began = caller[c].began /\ next.result = caller[c].result
      BY <1>1 DEF CallType, CallStates
    <3>3. file.at # None
      BY <2>1 DEF usable
    <3> HIDE DEF next
    <3>4. QED
      BY <3>1, <3>2, <3>3
  <2>2. CASE /\ caller[c].pc = "answered"
             /\ caller' = [caller EXCEPT ![c].cred = caller[c].got]
    <3> DEFINE next == [caller[c] EXCEPT !.cred = got]
    <3>1. call = next /\ Moves(c, next)
      BY <2>2, CallerType DEF RefreshInv, Moves
    <3>2. QED
      BY <1>1, <2>2, <3>1 DEF CallType, CallStates
  <2>3. QED
    BY <2>1, <2>2 DEF ScanDiscovers
<1>3. /\ file' \in {file, got}
      /\ replaced' \in {replaced, replaced \cup {caller[c].cred.rt}}
  BY DEF ScanDiscovers, Written
<1> HIDE DEF call, got
<1>4. /\ caller' \in [Callers -> CallType] /\ caller'[c] = call
      /\ \A d \in Callers \ {c} : caller'[d] = caller[d]
  BY <1>2, MovesType DEF RefreshInv
<1>5. LockInv'
  <2>1. Shaped(c, call)
    BY <1>1, <1>2 DEF Shaped, Requests
  <2>2. LockStep(c, call)
    BY <1>1, <1>2, <2>1 DEF LockStep
  <2>3. QED
    BY <2>2, PlainLocks
<1>6. TypeOK'
  <2>1. file' \in Credentials /\ replaced' \subseteq Tokens
    BY <1>1, <1>3 DEF RefreshInv, TypeOK, CallType, Credentials
  <2>2. QED
    BY <1>1, <1>4, <2>1 DEF RefreshInv, TypeOK, CallType, CallStates
<1>7. TokenInv'
  <2>1. /\ \A n \in NumbersOf(caller[c]) \cup {got.rt, got.at} : n <= issued
        /\ file.at <= issued /\ file.rt <= issued
    BY DEF RefreshInv, TokenInv, NumbersIssued, got
  <2>2. \A n \in NumbersOf(call) \cup {call.got.rt, call.got.at} : n <= issued
    BY <1>1, <1>2, <2>1 DEF NumbersOf
  <2>3. NumbersIssued'
    <3>1. /\ file'.at <= issued /\ file'.rt <= issued
          /\ \A t \in expired \cup replaced' : t <= issued
      BY <1>3, <2>1 DEF RefreshInv, TokenInv, NumbersIssued, NumbersOf
    <3>2. ASSUME NEW d \in Callers
          PROVE  \A n \in NumbersOf(caller'[d]) \cup {caller'[d].got.rt, caller'[d].got.at} :
                   n <= issued
      <4>1. CASE d = c
        BY <1>4, <2>2, <4>1
      <4>2. CASE d # c
        BY <1>4, <4>2 DEF RefreshInv, TokenInv, NumbersIssued
      <4>3. QED
        BY <4>1, <4>2
    <3>3. QED
      BY <1>1, <3>1, <3>2 DEF NumbersIssued, NumbersOf
  <2>4. Accepted(call)
    BY <1>1, <1>2 DEF Accepted, got
  <2>5. \A d \in Callers : Accepted(caller'[d])
    BY <1>4, <2>4 DEF RefreshInv, TokenInv
  <2>6. QED
    BY <2>3, <2>5 DEF TokenInv, Accepted
<1>8. FlightInv' /\ ReplacedInv'
  BY <1>1 DEF FlightInv, ReplacedInv, Discovers
<1>9. QED
  BY <1>5, <1>6, <1>7, <1>8 DEF RefreshInv

LEMMA WorldKeepsLocks ==
  ASSUME RefreshInv, UNCHANGED <<caller, table, scene>>
  PROVE  LockInv'
BY DEF RefreshInv, LockInv, CallsShaped, Shaped, LocksListed, LocksApart, Mutex, Holds,
       TableBounded, Requests, Scans

\* Nobody is between the read of the key and the exchange when another access
\* token than the one it began with expires.
LEMMA ExpireKeepsInv ==
  ASSUME RefreshInv, Expire, UNCHANGED scene
  PROVE  RefreshInv'
<1>1. /\ UNCHANGED <<file, valid, issued, table, caller, replaced, scene>>
      /\ expired' = expired \cup {file.at}
      /\ \A c \in Callers : InCall(c) => caller[c].began = file.at
  BY DEF Expire
<1>2. LockInv'
  BY <1>1, WorldKeepsLocks
<1>3. TypeOK'
  BY <1>1 DEF RefreshInv, TypeOK, Credentials
<1>4. TokenInv'
  BY <1>1 DEF RefreshInv, TokenInv, NumbersIssued, NumbersOf, Accepted
<1>5. ASSUME NEW n, Seen(n)' PROVE Seen(n)
  BY <1>1, <1>5 DEF Seen, NumbersOf
<1>6. FlightInv'
  <2> SUFFICES ASSUME ~Discovers' PROVE AnswersNew' /\ KeysCurrent'
    BY DEF FlightInv
  <2>1. ~Discovers /\ AnswersNew /\ KeysCurrent
    BY <1>1 DEF Discovers, RefreshInv, FlightInv
  <2>2. AnswersNew'
    BY <1>1, <1>5, <2>1 DEF AnswersNew
  <2>3. \A c \in Callers : caller[c].pc \in {"get", "wait", "locked"}
                             => caller[c].key = file.rt
    BY <1>1, <2>1 DEF KeysCurrent, KeyCurrent, InCall
  <2>4. KeysCurrent'
    BY <1>1, <2>1, <2>3 DEF KeysCurrent, KeyCurrent, Requests, Scans
  <2>5. QED
    BY <2>2, <2>4
<1>7. ReplacedInv'
  BY <1>1 DEF ReplacedInv, RefreshInv, NoneReplaced, Discovers, Scans
<1>8. QED
  BY <1>2, <1>3, <1>4, <1>6, <1>7 DEF RefreshInv

LEMMA LoginKeepsInv ==
  ASSUME RefreshInv, Login, UNCHANGED scene
  PROVE  RefreshInv'
<1> DEFINE new == issued + 1
<1>1. /\ UNCHANGED <<expired, table, caller, replaced, scene>>
      /\ issued' = new /\ new <= MaxTokens /\ file' = [rt |-> new, at |-> new]
      /\ valid' = valid \cup {new}
  BY DEF Login
<1>2. LockInv'
  BY <1>1, WorldKeepsLocks
<1>3. new \in Tokens /\ new \in Nat
  BY <1>1, Sizes DEF RefreshInv, TypeOK, Tokens
<1>4. ~Seen(new) /\ \A c \in Callers : caller[c].got.at # new
  BY NextUnseen
<1>5. issued' = issued + 1 /\ file'.at = new /\ file'.rt = new
  BY <1>1
<1> HIDE DEF new
<1>6. TypeOK'
  BY <1>1, <1>3 DEF RefreshInv, TypeOK, Credentials
<1>7. TokenInv'
  <2>1. NumbersIssued'
    <3>1. file'.at <= issued' /\ file'.rt <= issued'
      BY <1>1, <1>3, <1>5
    <3>2. QED
      BY <1>1, <1>5, <3>1, StaysIssued DEF NumbersIssued, NumbersOf
  <2>2. QED
    BY <1>1, <2>1 DEF RefreshInv, TokenInv, Accepted
<1>8. ASSUME NEW n, Seen(n)' PROVE Seen(n) \/ n = new
  BY <1>1, <1>5, <1>8 DEF Seen, NumbersOf
<1>9. FlightInv'
  <2> SUFFICES ASSUME ~Discovers' PROVE AnswersNew' /\ KeysCurrent'
    BY DEF FlightInv
  <2>1. ~Discovers /\ AnswersNew /\ KeysCurrent
    BY <1>1 DEF Discovers, RefreshInv, FlightInv
  <2>2. AnswersNew'
    BY <1>1, <1>4, <1>8, <2>1 DEF AnswersNew
  <2>3. ASSUME NEW c \in Callers
        PROVE  /\ caller[c].began # new
               /\ new \notin expired /\ new # caller[c].rejected
    <3>1. Seen(caller[c].began) /\ Seen(caller[c].rejected)
      BY OwnSeen DEF NumbersOf
    <3>2. \A n \in expired : Seen(n)
      BY DEF Seen
    <3>3. QED
      BY <1>4, <3>1, <3>2
  <2>4. KeysCurrent'
    BY <1>1, <1>5, <2>1, <2>3 DEF KeysCurrent, KeyCurrent, usable, Requests, Scans
  <2>5. QED
    BY <2>2, <2>4
<1>10. ReplacedInv'
  <2>1. new \notin replaced
    BY <1>4 DEF Seen
  <2>2. QED
    BY <1>1, <1>5, <2>1 DEF ReplacedInv, RefreshInv, NoneReplaced, Discovers, Scans
<1>11. QED
  BY <1>2, <1>6, <1>7, <1>9, <1>10 DEF RefreshInv
-----------------------------------------------------------------------------
(***************************************************************************)
(* The invariant, and what it says of requests and of the table.           *)
(***************************************************************************)
LEMMA InitInv == Init => RefreshInv
<1> SUFFICES ASSUME Init PROVE RefreshInv
  OBVIOUS
<1>1. TypeOK
  BY InitTypeOK
<1>2. /\ file = [rt |-> 1, at |-> 1] /\ expired = {} /\ replaced = {} /\ issued = 1
      /\ table = [t \in Tokens |-> None]
      /\ \A c \in Callers : caller[c] = Idle
  BY DEF Init
<1>3. /\ Idle.pc = "idle" /\ Idle.lock = None /\ Idle.rejected = None
      /\ NumbersOf(Idle) = {None, 1} /\ Idle.got = [rt |-> 1, at |-> 1]
  BY DEF Idle, NumbersOf
<1>4. TableBounded
  <2>1. {t \in Tokens : table[t] # None} = {}
    BY <1>2
  <2>2. IsFiniteSet(Requests)
    BY Sizes, FS_Subset DEF Requests
  <2>3. Cardinality(Requests) \in Nat
    BY <2>2, FS_CardinalityType
  <2>4. QED
    BY <2>1, <2>3, FS_EmptySet DEF TableBounded
<1>5. LockInv
  <2>1. CallsShaped
    BY <1>2, <1>3 DEF CallsShaped, Shaped
  <2>2. LocksListed /\ LocksApart /\ Mutex
    BY <1>2, <1>3 DEF LocksListed, LocksApart, Mutex, Holds
  <2>3. QED
    BY <1>4, <2>1, <2>2 DEF LockInv
<1>6. TokenInv
  <2>1. \A c \in Callers : Accepted(caller[c])
    BY <1>2, <1>3 DEF Accepted
  <2>2. NumbersIssued
    BY <1>2, <1>3 DEF NumbersIssued, None
  <2>3. QED
    BY <2>1, <2>2 DEF TokenInv
<1>7. FlightInv
  BY <1>2, <1>3 DEF FlightInv, AnswersNew, KeysCurrent, KeyCurrent
<1>8. ReplacedInv
  BY <1>2, <1>3 DEF ReplacedInv, NoneReplaced
<1>9. QED
  BY <1>1, <1>5, <1>6, <1>7, <1>8 DEF RefreshInv

LEMMA NextKeepsInv ==
  ASSUME RefreshInv, [Next]_vars
  PROVE  RefreshInv'
<1>1. ASSUME NEW c \in Callers, Call(c) PROVE RefreshInv'
  <2>1. UNCHANGED scene
    BY <1>1 DEF Call
  <2>2. CASE Peek(c) \/ ReadKey(c) \/ acquire_refresh_lock(c)
    BY <2>1, <2>2, PeekKeepsInv, ReadKeyKeepsInv, AcquireKeepsInv
  <2>3. CASE DoubleCheck(c) \/ Discover(c) \/ ScanFile(c)
    BY <2>1, <2>3, DoubleCheckKeepsInv, DiscoverKeepsInv, ScanFileKeepsInv
  <2>4. CASE Exchange(c)
    BY <2>1, <2>4, GrantKeepsInv, LoseAnswerKeepsInv, RefuseKeepsInv, ServerErrorKeepsInv
       DEF Exchange
  <2>5. CASE save_to(c) \/ KeepFile(c) \/ ScanDiscovers(c) \/ SaveFails(c)
    BY <2>1, <2>5, SaveKeepsInv, KeepFileKeepsInv, ScanDiscoversKeepsInv, SaveFailsKeepsInv
  <2>6. QED
    BY <1>1, <2>2, <2>3, <2>4, <2>5 DEF Call
<1>2. ASSUME NEW c \in Callers, GetLock(c) PROVE RefreshInv'
  BY <1>2, TakeLockKeepsInv DEF GetLock
<1>3. ASSUME NEW c \in Callers, UNCHANGED scene,
             Begin(c) \/ Reject(c) \/ Finish(c) \/ Cancel(c)
      PROVE  RefreshInv'
  BY <1>3, BeginKeepsInv, RejectKeepsInv, FinishKeepsInv, CancelKeepsInv
<1>4. CASE (Expire \/ Login) /\ UNCHANGED scene
  BY <1>4, ExpireKeepsInv, LoginKeepsInv
<1>5. CASE UNCHANGED vars
  <2>1. UNCHANGED <<file, valid, expired, issued, table, caller, replaced, scene>>
    BY <1>5 DEF vars
  <2>2. TypeOK' /\ LockInv'
    BY <2>1, WorldKeepsLocks DEF RefreshInv, TypeOK
  <2>3. TokenInv' /\ ReplacedInv'
    BY <2>1 DEF RefreshInv, TokenInv, NumbersIssued, NumbersOf, Accepted, ReplacedInv,
                NoneReplaced, Discovers, Scans
  <2>4. \A n : Seen(n)' => Seen(n)
    BY <2>1 DEF Seen, NumbersOf
  <2>5. AnswersNew => AnswersNew'
    BY <2>1, <2>4 DEF AnswersNew
  <2>6. KeysCurrent => KeysCurrent'
    BY <2>1 DEF KeysCurrent, KeyCurrent, usable, Requests, Scans
  <2>7. FlightInv'
    BY <2>1, <2>5, <2>6 DEF RefreshInv, FlightInv, Discovers
  <2>8. QED
    BY <2>2, <2>3, <2>7 DEF RefreshInv
<1>6. QED
  BY <1>1, <1>2, <1>3, <1>4, <1>5 DEF Next

\* RefreshInv holds in every state of every number of requests and scans.
THEOREM RefreshInvariant == Spec => []RefreshInv
<1>1. Init => RefreshInv
  BY InitInv
<1>2. RefreshInv /\ [Next]_vars => RefreshInv'
  BY NextKeepsInv
<1>3. QED
  BY <1>1, <1>2, PTL DEF Spec

\* Every variable keeps its type: the locks told apart are enough, the attempts
\* stay below REFRESH_MAX_RETRIES.
THEOREM TypesHold == Spec => []TypeOK
<1>1. RefreshInv => TypeOK
  BY DEF RefreshInv
<1>2. QED
  BY <1>1, RefreshInvariant, PTL

\* Two requests that post the same refresh token have the same key, so the same
\* lock, and both hold it.
LEMMA InvIsSingleFlight ==
  ASSUME RefreshInv
  PROVE  SingleFlight
<1> SUFFICES ASSUME ~Discovers, NEW c \in Requests, NEW d \in Requests,
                    caller[c].pc = "posting", caller[d].pc = "posting", c # d,
                    caller[c].cred.rt = caller[d].cred.rt
             PROVE  FALSE
  BY DEF SingleFlight, Apart
<1>1. c \in Callers /\ d \in Callers
  BY DEF Requests
<1>2. caller[c].key = caller[d].key
  BY <1>1 DEF RefreshInv, FlightInv, KeysCurrent, KeyCurrent
<1>3. caller[c].lock # None /\ caller[d].lock # None
  BY <1>1 DEF RefreshInv, LockInv, CallsShaped, Shaped
<1>4. caller[c].lock = caller[d].lock
  BY <1>1, <1>2, <1>3 DEF RefreshInv, LockInv, LocksListed
<1>5. Holds(c) /\ Holds(d)
  BY <1>3 DEF Holds
<1>6. QED
  BY <1>1, <1>4, <1>5 DEF RefreshInv, LockInv, Mutex

\* Of any number of requests of one account, unless it is one of Antigravity, no
\* two have the same refresh token at the endpoint, whatever the scans, the
\* logins and the clients that go away do.
THEOREM OneExchangeAtATime == Spec => []SingleFlight
<1>1. RefreshInv => SingleFlight
  BY InvIsSingleFlight
<1>2. QED
  BY <1>1, RefreshInvariant, PTL

\* Where no scan runs, and but for accounts of Antigravity, a request never
\* presents a refresh token whose successor has been saved.
THEOREM ReplacedStaysAway == Spec => []ReplacedNotPresented
<1>1. RefreshInv => ReplacedNotPresented
  BY DEF RefreshInv, ReplacedInv, NoneReplaced, ReplacedNotPresented, Requests
<1>2. QED
  BY <1>1, RefreshInvariant, PTL

\* No call returns the access token the upstream has just rejected.
THEOREM RejectedStaysAway == Spec => []RejectedNotReturned
<1>1. RefreshInv => RejectedNotReturned
  BY DEF RefreshInv, TokenInv, Accepted, RejectedNotReturned
<1>2. QED
  BY <1>1, RefreshInvariant, PTL

\* REFRESH_LOCKS never has more entries than there are requests, however many
\* refresh tokens have been rotated.
THEOREM TableStaysSmall == Spec => []TableBounded
<1>1. RefreshInv => TableBounded
  BY DEF RefreshInv, LockInv
<1>2. QED
  BY <1>1, RefreshInvariant, PTL
=============================================================================
