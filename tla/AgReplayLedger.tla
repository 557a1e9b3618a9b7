--------------------------- MODULE AgReplayLedger ---------------------------
(***************************************************************************)
(* The ledger of thought signatures of Antigravity sessions.  A request    *)
(* loads the chain of its session when it is prepared and, perhaps minutes *)
(* later, commits the chain its response yielded, or deletes the ledger    *)
(* entry because the upstream refused a signature in it.  Requests of one  *)
(* session overlap (a retry, a second window), entries expire and are      *)
(* evicted in between.  Commits are conditional: on the revision that was  *)
(* loaded still being there, or on the new chain continuing the present    *)
(* one on the same branch.                                                 *)
(*                                                                         *)
(* A chain is the sequence of the turns' signatures, each a member of      *)
(* Items.  Every operation runs under the mutex of the cache and is one    *)
(* step.  A loaded snapshot always found an entry, since a miss reserves a *)
(* tombstone; the eviction epoch is only looked at for snapshots that did  *)
(* not, and is left out with them.                                         *)
(***************************************************************************)
EXTENDS Naturals, SequencesExt, FiniteSets

CONSTANTS Keys,         \* sessions
          Requests,     \* requests in flight
          Items,        \* signatures
          MaxLength,    \* bound on the length of a chain
          Capacity,     \* entries the ledger holds
          EvictBatch,   \* entries evicted at a time (EVICT_BATCH_SIZE)
          MaxRevision   \* bound on the writes

ASSUME SizesAssumption ==
  /\ MaxLength \in Nat
  /\ Capacity \in Nat \ {0}
  /\ EvictBatch \in 1..Capacity
  /\ MaxRevision \in Nat

VARIABLES
  entries,        \* the entries, Absent where there is none
  order,          \* the keys present, the one stored or read longest ago first
  expired,        \* those whose time to live is over
  next_revision,
  next_branch,
  request         \* the requests and the snapshots they hold

vars == <<entries, order, expired, next_revision, next_branch, request>>

Chains == UNION {[1..n -> Items] : n \in 0..MaxLength}

Absent == [present |-> FALSE, items |-> << >>, revision |-> 0, branch |-> 0]
Entry(items, revision, branch) ==
  [present |-> TRUE, items |-> items, revision |-> revision, branch |-> branch]

\* A tombstone has no items; a chain that is stored has some.
Live(k) == entries[k].items # << >>

items_prefix(prefix, items) ==
  /\ Len(prefix) <= Len(items)
  /\ \A i \in 1..Len(prefix) : prefix[i] = items[i]

KeysIn(keys) == {keys[i] : i \in DOMAIN keys}

Idle(k) == [pc |-> "idle", key |-> k, snapshot |-> Absent, overtaken |-> FALSE]

Init ==
  /\ entries = [k \in Keys |-> Absent]
  /\ order = << >>
  /\ expired = {}
  /\ next_revision = 0
  /\ next_branch = 0
  /\ request \in [Requests -> {Idle(k) : k \in Keys}]
-----------------------------------------------------------------------------
(***************************************************************************)
(* The state under the mutex.                                              *)
(***************************************************************************)
bump_revision == next_revision + 1
new_branch == next_branch + 1

\* k becomes the youngest key.
Youngest(k, keys) == Append(RemoveFirst(keys, k), k)

evict_oldest(keys) == SubSeq(keys, EvictBatch + 1, Len(keys))

\* The ledger holds the keys kept, k with a new entry.
Hold(kept, k, entry) ==
  /\ entries' = [j \in Keys |-> IF j \notin KeysIn(kept) THEN Absent
                                ELSE IF j = k THEN entry ELSE entries[j]]
  /\ order' = kept
  /\ expired' = (expired \ {k}) \cap KeysIn(kept)
  /\ next_revision' = bump_revision

\* A write evicts once the ledger is over its capacity.
put(k, items, branch) ==
  LET keys == Youngest(k, order) IN
  Hold(IF Len(keys) > Capacity THEN evict_oldest(keys) ELSE keys, k,
       Entry(items, bump_revision, branch))

\* Mutant: a tombstone stays on the branch of what it replaces.
put_tombstoneOnBranch(k) ==
  /\ put(k, << >>, entries[k].branch)
  /\ UNCHANGED next_branch

\* A deletion leaves a tombstone on a branch of its own.
put_tombstone(k) ==
  /\ put(k, << >>, new_branch)
  /\ next_branch' = new_branch

\* A miss reserves a tombstone, for which there is room before it is stored.
reserve_absent(k, keys) ==
  LET kept == IF Len(keys) >= Capacity THEN evict_oldest(keys) ELSE keys IN
  /\ Hold(Append(kept, k), k, Entry(<< >>, bump_revision, new_branch))
  /\ next_branch' = new_branch

matches_snapshot(k, snapshot) ==
  entries[k].present /\ entries[k].revision = snapshot.revision

\* Mutant: any chain on the branch is taken for a continuation.
is_descendantOnBranch(k, snapshot, chain) ==
  Live(k) /\ entries[k].branch = snapshot.branch /\ chain # << >>

is_descendant(k, snapshot, chain) ==
  /\ Live(k)
  /\ entries[k].branch = snapshot.branch
  /\ items_prefix(entries[k].items, chain)
-----------------------------------------------------------------------------
(***************************************************************************)
(* Requests.                                                               *)
(***************************************************************************)
\* A miss, or a hit on an entry that is over its time, reserves a tombstone; a
\* hit makes the entry young again.
load(r) ==
  LET k == request[r].key
      others == RemoveFirst(order, k) IN
  /\ request[r].pc = "idle"
  /\ next_revision < MaxRevision
  /\ IF entries[k].present /\ k \notin expired
     THEN /\ order' = Append(others, k)
          /\ UNCHANGED <<entries, expired, next_revision, next_branch>>
     ELSE reserve_absent(k, others)
  /\ request' = [request EXCEPT ![r].pc = "loaded",
                                ![r].snapshot = entries'[k]]

\* A deletion overtakes everybody who holds a snapshot of the key.
Overtake(k) ==
  [q \in Requests |-> IF request[q].key = k /\ request[q].pc = "loaded"
                      THEN [request[q] EXCEPT !.overtaken = TRUE]
                      ELSE request[q]]

\* The replay broke the pairing of calls and responses: the entry is deleted
\* and the request goes out as it came in, with its old snapshot.
RollBack(r) ==
  LET k == request[r].key IN
  /\ request[r].pc = "loaded"
  /\ matches_snapshot(k, request[r].snapshot)
  /\ request[r].snapshot.items # << >>
  /\ put_tombstone(k)
  /\ request' = Overtake(k)

\* The upstream refuses a signature, or the response yields a chain that is
\* empty or too large: the entry is deleted if it is the one that was loaded.
invalidate_if_unchanged(r) ==
  LET k == request[r].key IN
  /\ request[r].pc = "loaded"
  /\ IF matches_snapshot(k, request[r].snapshot)
     THEN /\ put_tombstone(k)
          /\ request' = [Overtake(k) EXCEPT ![r] = Idle(k)]
     ELSE /\ request' = [request EXCEPT ![r] = Idle(k)]
          /\ UNCHANGED <<entries, order, expired, next_revision, next_branch>>

\* Mutant: a chain that starts anew stays on the branch of the old one.
replace_if_unchangedOneBranch(r, chain) ==
  LET k == request[r].key
      snapshot == request[r].snapshot
      allowed == \/ matches_snapshot(k, snapshot)
                 \/ is_descendant(k, snapshot, chain) IN
  /\ request[r].pc = "loaded"
  /\ chain # << >>
  /\ IF allowed
     THEN put(k, chain, snapshot.branch)
     ELSE UNCHANGED <<entries, order, expired, next_revision>>
  /\ UNCHANGED next_branch
  /\ request' = [request EXCEPT ![r] = Idle(k)]

\* The response is complete and yields a chain.
replace_if_unchanged(r, chain) ==
  LET k == request[r].key
      snapshot == request[r].snapshot
      matches == matches_snapshot(k, snapshot) IN
  /\ request[r].pc = "loaded"
  /\ chain # << >>
  /\ \/ /\ matches
        /\ ~items_prefix(snapshot.items, chain)
        /\ put(k, chain, new_branch)
        /\ next_branch' = new_branch
     \/ /\ \/ matches /\ items_prefix(snapshot.items, chain)
           \/ ~matches /\ is_descendant(k, snapshot, chain)
        /\ put(k, chain, snapshot.branch)
        /\ UNCHANGED next_branch
     \/ /\ ~matches
        /\ ~is_descendant(k, snapshot, chain)
        /\ UNCHANGED <<entries, order, expired, next_revision, next_branch>>
  /\ request' = [request EXCEPT ![r] = Idle(k)]

\* The response ends early, or fails for another reason: nothing is stored.
Abandon(r) ==
  /\ request[r].pc = "loaded"
  /\ request' = [request EXCEPT ![r] = Idle(request[r].key)]
  /\ UNCHANGED <<entries, order, expired, next_revision, next_branch>>
-----------------------------------------------------------------------------
\* The oldest entry that has not expired does.
Expire ==
  /\ \E i \in DOMAIN order :
       /\ order[i] \notin expired
       /\ \A j \in 1..(i - 1) : order[j] \in expired
       /\ expired' = expired \cup {order[i]}
  /\ UNCHANGED <<entries, order, next_revision, next_branch, request>>

\* The task that cleans up every ten minutes: those whose time is over are the
\* oldest.
purge_expired ==
  /\ expired # {}
  /\ entries' = [k \in Keys |-> IF k \in expired THEN Absent ELSE entries[k]]
  /\ order' = SubSeq(order, Cardinality(expired) + 1, Len(order))
  /\ expired' = {}
  /\ UNCHANGED <<next_revision, next_branch, request>>

Next ==
  \/ \E r \in Requests : load(r)
  \/ \E r \in Requests : RollBack(r)
  \/ \E r \in Requests : invalidate_if_unchanged(r)
  \/ \E r \in Requests, chain \in Chains : replace_if_unchanged(r, chain)
  \/ \E r \in Requests : Abandon(r)
  \/ Expire
  \/ purge_expired

Spec == Init /\ [][Next]_vars
-----------------------------------------------------------------------------
EntryType == [present : BOOLEAN, items : Chains, revision : Nat, branch : Nat]

\* Every variable holds a value the program can give it, and the entries
\* present are those in the order of age.
TypeOK ==
  /\ entries \in [Keys -> EntryType]
  /\ order \in Seq(Keys)
  /\ expired \subseteq KeysIn(order)
  /\ next_revision \in Nat
  /\ next_branch \in Nat
  /\ request \in [Requests -> [pc : {"idle", "loaded"}, key : Keys,
                               snapshot : EntryType, overtaken : BOOLEAN]]
  /\ \A k \in Keys : entries[k].present <=> k \in KeysIn(order)

Holding(r, k) == request[r].pc = "loaded" /\ request[r].key = k

\* The ledger never holds more entries than it has room for, tombstones that
\* misses reserve included.
LedgerBounded == Cardinality({k \in Keys : entries[k].present}) <= Capacity

\* A revision stands for one chain: what a request finds unchanged is what it
\* loaded, also after evictions and misses in between.
SameRevisionSameChain ==
  \A r \in Requests, k \in Keys :
    Holding(r, k) /\ matches_snapshot(k, request[r].snapshot)
      => entries[k].items = request[r].snapshot.items

\* On a branch chains only grow: whoever loaded a chain of the branch finds it
\* at the beginning of the chain that is there now.
BranchOnlyGrows ==
  \A r \in Requests, k \in Keys :
    Holding(r, k) /\ Live(k) /\ entries[k].branch = request[r].snapshot.branch
      => items_prefix(request[r].snapshot.items, entries[k].items)

\* A chain that was deleted because the upstream refused it is not brought back
\* by a request that had loaded it before the deletion.
DeletedNotRestored ==
  [][\A r \in Requests :
       /\ request[r].pc = "loaded" /\ request[r].overtaken
       /\ request'[r].pc = "idle"
       => entries'[request[r].key].items = entries[request[r].key].items]_vars

\* Two overlapping requests do not overwrite each other's turns: a chain makes
\* room only for a continuation of it, for what a request that had loaded it
\* makes of it, or for a deletion, eviction or expiry.
NoTurnLost ==
  [][\A k \in Keys :
       Live(k) /\ entries'[k].items # << >> /\ entries'[k].items # entries[k].items
         => \/ items_prefix(entries[k].items, entries'[k].items)
            \/ \E r \in Requests : /\ Holding(r, k)
                                   /\ request'[r].pc = "idle"
                                   /\ request[r].snapshot.items = entries[k].items]_vars

\* What overlapping requests may rely on: the ledger stays within its bounds
\* whoever misses, a revision stands for one chain, and a branch only grows.
LedgerSound == LedgerBounded /\ SameRevisionSameChain /\ BranchOnlyGrows
=============================================================================
