# A TLA+ model of ccextra

ccextra is a local proxy between Claude Code and other model providers: it takes
Anthropic Messages requests, converts them to what the chosen upstream speaks
(Chat Completions, Responses, Gemini, Antigravity, or Anthropic itself), relays
the streamed answer back as Anthropic events, and looks after the OAuth accounts
it uses. This directory holds its model: TLA+ modules, the TLC runs that check
them on small instances, and proofs for TLAPS. `PROJECT.json` lists the parts,
the runs, the mutants, the source lines behind every definition, the hazards and
the theorems.

    tlc -workers 2 -config MCConfigSnapshot.cfg MCConfigSnapshot
    tlapm ConfigSnapshotProofs.tla

Paths below are relative to `crates/`; `server/` is `ccextra-server/src/`,
`cli/` is `ccextra-cli/src/`, `core/` is `ccextra-core/src/`.

## 1. The system

| Part | State | Operations | Talks to |
|---|---|---|---|
| Configuration snapshot (`server/http/mod.rs`, `server/http/handlers/reload.rs`) | `config` under an RwLock (providers, runtime settings, refresh inputs, version), `reload_lock`, `unfit`, the authentication cache | `reload_now`, `publish_refreshed_providers`, `snapshot_and_unfit_generation` | watcher, HTTP handlers, background task, every request |
| Start-up and background refresh (`cli/main.rs`) | none of its own beyond the round under way | `load_refreshed_providers` every three hours, `run_antigravity_injection` at start | snapshot, provider loaders |
| Watcher (`cli/config_watch.rs`) | last committed fingerprint, channel of notifications | notify, debounce, `decide_reload`, reload, commit | file system, `reload_now` |
| Configuration file (`cli/config.rs`) | the file | `Config::load`, `persist_secret` | watcher, reload |
| Unfit registry (`server/http/unfit.rs`) | refused features per upstream, a generation | `mark_if_generation`, `clear`, `adapt_body` | requests, reload |
| OAuth credentials (`server/{claude,codex,xai,antigravity}/`, `server/oauth_common.rs`) | one JSON file per account, the table of refresh locks, file locks | `ensure_credential_fresh`, `refresh_if_needed`, `save_to`, loaders, logins | token endpoints, requests, scans |
| Message relay (`server/http/handlers/messages.rs`) | one request's attempts | prepare, send, retry, adapt, convert, finish | all of the above and the converters |
| Stream converters (`server/sse/`) | one stream's open block, tool calls, usage | one step per upstream frame, a flush at the end | relay |
| Server caches (`server/sse/*_cache.rs`, `server/sse/ttl_lru.rs`, `server/http/session_tokens.rs`, `server/http/auth.rs`) | bounded, expiring tables | load, store, conditional replacement, purge | prepare and finish of a request |
| Routing (`core/route.rs`) | none | `resolve_route`, `validate_providers` | reload, requests |
| Cache stabilisation, drift, doom loops, sessions (`core/cache_stabilization/`, `core/doom_loop.rs`, `core/session.rs`) | bounded history per session | observe, compare | prepare |
| Body conversion (`core/convert/`) | none | Anthropic to upstream and back | prepare, converters |

What is hard here, and what makes each part correct:

* **Snapshot.** Reloads, background rounds and requests overlap for seconds or
  minutes, scans hold no lock, HTTP clients disconnect. A request must find one
  whole configuration; reloads must win in the order they read the file; nothing
  captured before a reload may undo it; a refused or abandoned reload must free
  the lock.
* **Watcher.** The reload it starts writes the file it watches. It must not go round
  in circles after its own write-back, nor take somebody else's write for it.
* **Credentials.** Refresh tokens rotate, so a token may be exchanged once only.
  Requests wait for each other behind a lock keyed by the token that changes under
  them; the upstream may reject a token that looks fresh; answers get lost.
* **Replay ledger.** Requests of one session overlap and their commits come back
  minutes later, to entries evicted, deleted or forked in between.
* **Streams.** Upstream frames arrive in orders nobody wrote a test for; the
  Anthropic client accepts only blocks that open, close and end once and in order.
* **Relay.** Several retries for different causes are nested in one request, and
  requests of one account share its connections, its token and what its upstream
  has refused.
* **Conversions.** The client sends its whole history again with every question,
  so a conversion is right only if it is right on every history a client can come
  to: calls answered late or in another order, reminders in between, signatures
  of other providers. And it is cheap only if a longer history converts to a
  continuation of what the shorter one did, byte for byte, because the upstream's
  prompt cache goes by prefixes.
* **Session memories.** What an upstream wants back and the client does not keep
  (signatures, ids, encrypted reasoning, thinking) is put into later requests by
  the place it came from, while the client drops, rewinds and reorders.

The list with lines is under `hazards` in `PROJECT.json`.

## 2. Modules

| Module | Models | Composes |
|---|---|---|
| `PublishedConfig` | what the proxy promises of its effective configuration (abstract) | |
| `ConfigSnapshot` | reloads, background refresh, requests, unfit registry, user | implements `PublishedConfig` |
| `ConfigSnapshotProofs` | its theorems | extends `ConfigSnapshot` |
| `ConfigWatch` | watcher, file, write-back, `POST /reload` | |
| `ConfigWatchProofs`, `CredentialRefreshProofs`, `AgReplayLedgerProofs`, `MessageRelayProofs` | the theorems of these | each extends its specification |
| `CredentialRefresh` | one credential file, the lock table, requests, scans, endpoint, logins | |
| `AgReplayLedger` | the conditional ledger of Antigravity signatures | |
| `AnthropicStream` | what a client of the Messages API may be shown (abstract) | |
| `RelayedStream` | what the stream conversions share: frames, the client, the queue between them | |
| `ChatRelay`, `ResponsesRelay`, `GeminiRelay` | one upstream protocol each, to Anthropic events | extend `RelayedStream` |
| `ResponseStreams` | one response of whichever protocol | composes the three, implements `AnthropicStream` |
| `ResponseStreamsProofs` | that it does | extends `ResponseStreams` and `FoldLemmas` |
| `MessageRelay` | requests on their way to one provider: URLs, what it has refused and how a request is adapted to that, repetitions, the end | |
| `Conversation` | a history, and what the conversions share | |
| `ChatRequest`, `ResponsesRequest`, `GeminiRequest` | the messages of the three upstream bodies | extend `Conversation` |
| `Signature` | whose a signature is, and to whom it may go | |
| `RequestConversion` | a client with its history, and the conversions it is sent through | composes the four above |
| `RequestOptions`, `SystemPrompt`, `ToolSchema` | the other parts of a request | |
| `Normalization` | what is done so that the next request has the same bytes | |
| `RequestBody` | a client that writes one of those parts, or writes one again | composes the four above |
| `ClientRequest` | a whole request | composes `RequestConversion` and `RequestBody` |
| `AntigravityReplay` | the signatures and call ids of a Gemini conversation | |
| `ReasoningReplay` | the reasoning of Responses conversations | |
| `KimiReplay` | the thinking of Kimi conversations, in a table whose entries expire or make room | |
| `DriftDetector` | what breaks the upstream's prompt cache | |
| `SessionMemory` | what is remembered of a session | composes the four above |
| `SessionMemoryProofs` | the theorems of two of them: thinking and drift | extends `SessionMemory` and `FoldLemmas` |
| `FoldLemmas` | lemmas about numbers and about folds over them | |
| `MC*` | constants for TLC | one per specification that is run |

Definitions have the names of the functions they model where TLA+ allows it.
Operators whose comment begins with *Mutant* or *Fault* are plausible bugs: each is put in
the place of the definition it sits above, and the property it is listed with
then has to fail. They are no part of any specification.

### ConfigSnapshot

`config` is `AppState::config`; a content of the configuration file stands for
everything the file determines, so that a mixture of two files is visible as
three fields that differ (`runtime`, `static`, `refresh`). `dyn` is the list of
OAuth providers by kind in merge order. `stamp` counts the reads of the file and
is the ghost that orders reloads; `dropped` is a ghost that remembers which
disabled accounts a reload has left out.

| Action | Code |
|---|---|
| `CallReload`, `BeginReload` | `reload_now` up to the load: the lock is a fair tokio mutex, the load reads the file under it |
| `ScanReload` | one loader of the reload closure, in the order `ReloadOrder` (main.rs:322) |
| `RejectReload`, `PublishReload`, `FinishReload` | validation, the exchange under the write lock with the registry cleared, the return |
| `CancelReload` | axum drops the handler of a client that is gone, at an await |
| `BeginRefresh`, `ScanRefresh`, `ScanAntigravity`, `GiveUpRefresh` | `load_refreshed_providers`; Antigravity comes last (main.rs:604) and its absence ends the round |
| `PublishRefresh` | `publish_refreshed_providers`: discarded when the version moved on |
| `CaptureRequest`, `MarkUnfit`, `EndRequest` | a message handler: snapshot and generation under one read lock, a mark that is dropped when the generation moved on |
| `EditConfig`, `EnableCred`, `DisableCred` | the user |

A loader may fail to load any credential (a failed exchange is skipped), so a
scan yields any subset of the enabled ones. `PublishRefresh` may publish an equal
list as well: what it compares includes tokens and models, which lists of
credentials do not show.

### ConfigWatch

`disk` is the content of the two watched files together with the form of the
secret. A fingerprint is the files themselves (`hash_one` without collisions).
`notices` are notifications between the operating system and the channel,
`queued` is whether the channel holds any: the watcher looks at nothing else
about them. `job` is the reload under way; the scans are the time between
`Load` and `EndReload`. `others` is a ghost: somebody but the watcher wrote since it
last loaded. A refused reload commits nothing (`next_last_hash_after_reload`), so the
notification of what it wrote back starts another; that one finds the secret hashed
already. `NoReloadForOwnWriteBack` says both: no reload of its own doing after one
that was published, no write-back of its own doing at all.

### CredentialRefresh

One credential file and every caller. Tokens are numbers in the order of issue.
`Peek`, `ReadKey`, `acquire_refresh_lock`, `TakeLock`, `DoubleCheck` are the
steps of `ensure_credential_fresh` between which other tasks run; `Grant`,
`LoseAnswer`, `Refuse`, `ServerError` are the endpoint; `save_to`, `KeepFile`,
`SaveFails`, `Cancel` the ways out. `ScanDiscovers` is the loader of Antigravity, which
saves what it exchanged, then looks for a missing project and saves again, a failed
save being a warning. The four kinds of account share it and differ
in two points: `RetriesAll` (Codex repeats all failures but the refusal of a
reused token) and `Discovers` (Antigravity looks for a project between exchange
and save); `scene`, constant through a behaviour, is the kind of the account and
which callers are scans. `Expire` carries the one assumption about time: tokens live longer than the skew
plus the calls in flight. `replaced` is a ghost.

### AgReplayLedger

The state under the cache's mutex, one action for each operation and for each
way a request uses it: `load` (with its reservation), `RollBack` (a replay that
breaks the body), `invalidate_if_unchanged`, `replace_if_unchanged`, `Abandon`,
`Expire`, `purge_expired`. `overtaken` is a ghost: a deletion happened after this
request loaded.

### The response streams

A conversion is a state machine (`ChatRelay`, `ResponsesRelay` and the Gemini
context of the code): it takes one upstream event, changes its state and returns
the frames for the client. `relay` is its state together with `out`, the frames
not yielded yet; `Receive` takes one event, `Yield` shows one frame, and the next
event is read when all are shown (`Reads`), as in the loops of `chat.rs:866`,
`responses/mod.rs:69` and `gemini.rs:219`. `client` is the message as the client
has it: the blocks with what they showed, the stop reason, the phase.

`upstream` is the other end and its record of what it sent: what was said, what
was thought, the arguments of each call, which calls have names. Text, thinking
and arguments come in pieces numbered in the order they are sent, so that one
that is lost, repeated, moved to another call or shown out of order is told apart
from the rest, and nothing else about them matters. A chat upstream that echoes also
sends a piece of thinking again, or one that is blank, as a model does that thinks word
by word: `thinking_distinct` drops such deltas (`chat.rs:709-727`), and `SentIsShown`
then asks only that what is thought for the first time is shown, in its order.

| Module | Upstream events | Steps of the machine |
|---|---|---|
| `ChatRelay` | `Role`, `Content`, `Reasoning` (thinking, of some upstreams blank or the same as before), `Snapshot` (thinking that repeats all that came), `ToolCall`, `FinishReason`, `Usage`, `Done`, `Eof`, `Break` | a block is open until the kind changes; calls are gathered under their index and shown once they have a name; other content that comes meanwhile is buffered; `resolve` decides what the turn ended with |
| `ResponsesRelay` | `Created`, `AddItem`, `SummaryPart`, `TextPart`, `Delta`, `AllArguments`, `FinishItem`, `Search`, `DoomLoop`, `Finish`, `Break` | `process` handles an event or defers it while a call is shown; calls queue up; `Terminal` takes up what was deferred, recovers what came in the terminal event only, and finishes |
| `GeminiRelay` | `TextPart`, `ThoughtPart`, `SignaturePart`, `CallPart`, `ContinuedPart`, `Metadata`, `Finish`, `Break` | a block is open until the kind changes; signatures go to a block of their own or to the thinking that is open; the end is reached with finish reason and usage |

`Break` is whatever ends a stream from outside: an error event, a read error, the
idle timeout, and, with the end of the file, a stream that stops without its
terminal event.

`AnthropicStream` is stated without the conversions: a client's message starts
once, its blocks open and close one at a time and under an index of their own,
what a block showed only grows, and after the reason and the stop, or after an
error, there is nothing. `ImplementsAnthropicStream` says that every conversion
does only that; its refinement mapping is the identity on `client`.

What an upstream may do is limited to what its protocol allows; what it *might*
do besides is named in `Habits` (it may send items that overlap, repeat in the
terminal event a text it has streamed, report a loop), so that each property can
say under which it holds.

### MessageRelay

A request is a record that names where it is (`pc`), why it is being sent
(`why`: its round, a bad first frame, a rejected token, a refused feature, reasoning
that is not valid any more), its URL, the account and connection it holds, what it
sends, and what it was answered. `pool` has the client of each kind of request (whether it carries the account
header), `stale` counts the connections that have turned out to be dead, `marks`
and `generation` are the unfit registry, `chain` is the reasoning the replay cache
keeps for the conversation. `scene`, constant through a behaviour, is the provider:
its protocol, its URLs, what the requests ask of it and what it may refuse. Repetitions
are ordered by `Further`: a later reason, in the first round a later URL, at one URL
the attempt after a dead connection.

| Action | Code |
|---|---|
| `Begin`, `Fresh` | `handle_messages` up to the first send: snapshot, adaptation, replay, a fresh token |
| `Send`, `Redial` | one attempt; a connection that turns out closed is dropped and tried once anew |
| `Lose`, `Accepted`, `Limited`, `Rejected`, `Refused` | what the upstream may answer: nothing, 200, 429, 401, 400 or 422 with a detail |
| `BadFrame`, `GoodFrame`, `Stored`, `Deliver`, `Spoil` | the check of the first frame, the body, and its delivery |
| `Auth`, `Unfit`, `Clear`, `Trim`, `Answer` | the gates after a refusal, in the order of the code |
| `Leave`, `Reload` | the client goes away; the registry is emptied |

### RequestConversion and ClientRequest

`RequestConversion` is a client: the user asks, the model answers with text,
thinking and calls, the client answers the calls in one message or several and in
any order, and slips reminders in; a resumed session may start with any short
history. A text is the sequence of the pieces it was joined from, so that one
lost, repeated or moved shows. The conversions are operators on the history
(`convert_to_openai_chat`, `convert_to_openai_responses`, `convert_to_gemini`),
one for each function of the code, and the properties compare what they give
with the history, or with what they gave for the history before.

`Signature` has of a signature what the validators read of it: its prefix, how the
payload starts, what it decodes to, its size. The properties do not repeat the
validators: a signature has an issuer, and the question is to whom it is sent.

`RequestBody` writes one of the other parts (`topic`): a system prompt line by
line, tools one by one, options, a tool schema keyword by keyword from the
innermost node outwards. Under the topic `again` it has a request and writes it
once more: tools, keys, inputs and lists in another order, other white space, a
date marked another way, a reminder inside a tool's result (`Normalization`).

### SessionMemory

The upstream's protocol decides which memory a session uses, and none reads
another's, so a behaviour is about one of them (`memory`).

| Module | State | Actions |
|---|---|---|
| `AntigravityReplay` | the client's history, the request the upstream saw last, the ledger | `prepare_request` converts, restores, repairs and sends; `Respond` takes an answer in frames through the accumulator into the ledger; `Question`, `ToolResults` continue; `BreakOff`, `Forget`, `Rewind`, `DropThoughts`, `LoseCall`, `RepeatCall`, `Retype` are what goes wrong |
| `ReasoningReplay` | two conversations, the ledger of their session, what each request sent | `Request`, `Completed`, `StreamBroken`, `Refused` (the trimmed repetition), `TakenBack` (a rewind), `LedgerLost` |
| `KimiReplay` | two chats, the cache, what each answer was | `Post`, `StreamEnds`, `SentAgain`, `Rejected`, `Expires` |
| `DriftDetector` | baselines, structures and warnings, each with the request that used it last; requests under way; reports | `ObserveRequest`, `FrameArrives`, `AnswerEnds` |

Ids, signatures and ciphertexts bear the number of the answer that issued them,
hashes are the values they are taken of, and a session's ledger of Antigravity is
unconditional here: its conditions are `AgReplayLedger`'s. Of a call the client gets the
arguments that `clean_emitted_args` leaves (`_` stands for the placeholders `reason`
and `_` of the schemas sent upstream), while its id and the ledger have the native ones.
What a Responses answer is filed under is fixed when its request is prepared
(`fingerprint`), and a repetition without the reasoning keeps it.

## 3. Runs

| Run | Question | Bounds |
|---|---|---|
| `config_snapshot` | Is the snapshot always whole, in load order, free of dropped accounts and of stale marks, and does every caller of reload get its turn? | two reload callers (one over HTTP), two accounts of two kinds, four files (two good ones that name different directories, one that does not parse, one without a proxy, refused where an alias named twice would be), one request, two reloads, refreshes start below version 2 |
| `config_watch` | Is no write overlooked, and does the watcher come to rest? | three saves, one `POST /reload`, five contents, three salts |
| `save_is_loaded` | Is what was saved loaded? *No* | no posts, no save before the watcher is up |
| `credential_refresh` | Do requests exchange a refresh token one at a time, never after its replacement, and does every call end? | two requests of a Claude account; a request and a scan of a Codex account, of an Antigravity account; three tokens, two attempts |
| `scan_race` | Does single flight cover scans? *No* | a request and a scan of a Claude account |
| `ag_replay_ledger` | Do conditional commits lose or revive turns? | three sessions, room for two, three requests, chains of up to two signatures, loads up to revision 5 |
| `response_streams` | Does the client of every protocol get a well-formed message, with the content that was sent, and is it told how it ended? | three pieces, two calls or output items; a Responses upstream that is plain, lets items overlap, or repeats its text |
| `text_repeated` | Is text shown once? *No* | two pieces, one item, a Responses upstream that repeats its text |
| `message_relay` | Is what is sent current, does each repetition have a reason of its own, is the client told the last answer, and does every request end? | seven providers: one request with two URLs and two dead connections, or two overlapping requests with one URL; two access tokens, one reload |
| `client_request` | Are the requests the conversions make accepted, whole, faithful and stable? | histories of five messages, three of them with signatures (13 kinds); prompts of four lines of nine kinds in two blocks; three of six tool names; 560 combinations of options with nine capabilities of a model; schemas of four keywords; four requests written again with up to three changes |
| `session_memory` | Does what the client cannot keep come back to its place, and only there, and is a change of the prefix reported once? | Antigravity: five turns, three answers of seven shapes, one change behind its back; Responses: two conversations, three answers of four shapes, one mishap, a ledger of two turns; Kimi: two chats, three answers, a cache of two, one mishap; drift: three requests of five bodies in three API shapes, maps of one or two entries |
| `reasoning_lost` | Does the reasoning of every answered turn come back? *No* | as `session_memory` |

The properties, and why each is worth its run, are in the modules beside their
definitions. Several are conjunctions of named parts: `LedgerSound`,
`SentIsShown`, `SentIsCurrent`, `RefusalsHeeded`, `RepeatsProgress`, `CallsPaired`,
`ToolsKept`, `InstructionsKept`, `PrefixStable`, `ReasoningKept`, `ThinkingReturns`,
`DriftReported`.

Why the bounds are enough. Two reloads and a background round are
the smallest instance in which a round can be overtaken and a second reload can
queue behind a first that fails, and two kinds of account the smallest in which
merge orders differ. Three saves let one fall before, one into and one after a
reload of the watcher. Three tokens let a token be rotated, and rotated again
while somebody still waits for the lock of the first. Three requests and two
signatures let two commits fork while a third holds either branch, and three
sessions over two places make every miss evict. Three pieces and two calls let
content of two kinds come before, inside and after a call, let two calls mix their
arguments, and let a block be closed and its kind opened again.

In `message_relay`, two URLs let a limit on the first be followed by any answer of
the second; two dead connections let a redialled connection be dead again; two
requests let a mark, a token or a chain of one change under the other. In
`client_request`, five messages are a question, two calls, their answers in two
messages in either order, and a reminder among them; four lines are a header, a
line under it, and what comes after; four keywords let a definition that refers to
itself be used twice, and a union sit in a property of a part. The budget for inlining
is 3 where its limit is the question (`InliningBounded`; 256 KiB in the code) and out of
reach elsewhere (`Ample`), and a union is simplified from 2 branches (8 in the code),
because where these limits lie is not what is asked. In `session_memory`, two
answers are the least whose signatures can be exchanged, a third meets what was
restored from the second; a ledger of two turns (256 in the code), a cache of two
(1024) and maps of one or two entries (1000) are those in which the third
request evicts. The two chats are alike and so are the two sessions, of which they
may share one (`SYMMETRY Alike`).

`MaxCalls`, `MaxVersion`, `MaxSaves`, `MaxPosts`, `MaxTokens`, `MaxReloads`,
`MaxRevision`, `MaxPieces`, `MaxMessages`, `MaxMarked`, `MaxLines`, `MaxTools`,
`MaxKeywords`, `MaxDrift`, `MaxTurns`, `MaxAnswers`, `MaxTampered`, `MaxReplies`,
`MaxMishaps`, `MaxReturned`, `MaxHitches` and `MaxSent` only stop new work from
starting, which is why the runs do not check deadlock: an idle proxy rests, and so
does a stream that has ended.

Two properties of the streams do not speak of every upstream. `ContentIntact` does
not hold of Responses upstreams whose items overlap, because what is deferred
behind a call is taken up after what was not (section 5), nor of
those that repeat a text, which `text_repeated` shows. And chat completions without
text may show their thinking as text: that is a feature of `chat.rs`. All the
others hold of every upstream of the run.

### Fairness

`ConfigSnapshot` is fair to reloads only: tokio polls what can go on, and the
network calls of a scan carry timeouts. Nothing makes a user act, a request end
or a refresh begin. `ConfigWatch` is fair to the bridge thread, the watcher task
and a reload under way. `CredentialRefresh` is weakly fair to the steps of a call
(the HTTP client times out) and strongly fair to taking the lock, because a tokio
mutex is queued: whoever waits is not passed for ever. `ResponseStreams` is weakly
fair to the client, which reads what is yielded, and to `Break`: a silent upstream
runs into the idle timeout of three minutes (`server/sse/mod.rs:51`). It is
not fair to the upstream. `MessageRelay` is weakly fair to the handler and to
*some* answer of the upstream: a send times out (60 s, or 600 s for whole bodies)
and a silent stream runs into the idle timeout, so that not answering is an answer
(`Lose`, `Spoil`). `ClientRequest` and `SessionMemory` state no liveness and
need no fairness.

### What the runs found

* **`save_is_loaded`.** The watcher commits the fingerprint of what is on disk
  *after* its reload (config_watch.rs:237). A save that falls into the reload
  is committed with it and stays unloaded until the next save.
* **`scan_race`.** The loaders exchange refresh tokens without the lock that
  requests take (`server/claude/provider.rs:33` and its counterparts), so the
  single flight `oauth_common.rs:145` describes does not include them.
* **`text_repeated`.** `function_call.rs:343` says that the text of the terminal
  event is taken only if the stream has sent none. The mark it asks,
  `has_text_delta`, is reset whenever a message is done
  (`state_machine.rs:508-511`), so a text that was streamed and is in the terminal
  event too is shown twice.
* **`reasoning_lost`.** `reasoning_replay.rs:12-15` says that every round adds a turn
  and the next round injects it. A turn is filed under the fingerprint of the
  request *after* earlier reasoning was put into it (messages.rs:527-539), and
  looked for among prefixes of the next request *before* that. So the turn after
  the first injection is never found again.

## 4. Proofs

TLC answers for the instances of section 3; seven modules of proofs (and
`FoldLemmas`, which two of them extend) answer for every value of the constants: any
files, credentials, callers, requests, contents and providers, and, since every bound is a constant in `Nat`, any number of steps. Each
proof has the same shape. An inductive invariant is stated in named parts; a lemma
for each action shows that the action keeps it; `InitInv` and `NextKeepsInv` collect
them; the properties follow from it. TLC checked each invariant as an invariant of
the run before it was proved.

| Theorem | Property | Why it holds |
|---|---|---|
| `ConfigSnapshotProofs` | | from `ContentsAssumption`, `CredsAssumption`, `ActorsAssumption` |
| `TypeCorrect` | `TypeOK` | inductive by itself |
| `ReloadsInOrder` | `ReloadsPublishInLoadOrder` | `LockInv`, `LoadInv`: whoever scans holds the lock, and its load is the latest one, later than the published one |
| `UnfitFlagsCurrent` | `UnfitFlagsFromCurrentConfig` | `RequestInv`: a request with the current generation saw the current stamp |
| `DroppedStays` | `DroppedStayOut` | `DropInv`: a list that may still be published holds nothing that was dropped since its credentials were read |
| `SnapshotIsWhole` | `ImplementsPublishedConfig` | `WholeInv`: published lists, and those of a load or of a round whose version is current, come from the directories of their content |
| `ConfigWatchProofs` | | from `ContentsAssumption`, `SecretAssumption`, `BoundsAssumption` |
| `WritesAreSeen` | `NoWriteOverlooked` | `WritesKnown`: what is on disk is committed, cannot be loaded, or has a notification on its way, also in the middle of a reload that read something else |
| `OwnWriteBacksRest` | `NoReloadForOwnWriteBack` | `OwnWritesCommitted`: after a published reload what is on disk was committed unless somebody else has written since the load; `PlainIsNew`: a secret on disk that is not hashed was written by somebody else |
| `CredentialRefreshProofs` | | from `CallersAssumption`, `SceneAssumption`, `BoundsAssumption` |
| `OneExchangeAtATime` | `SingleFlight`, but for Antigravity | `LockInv` and `FlightInv`: the key of a request is the token whose lock it holds, and what it exchanges is that key |
| `ReplacedStaysAway` | `ReplacedNotPresented`, but for Antigravity and scans | `ReplacedInv`, with `AnswersNew`: what an exchange yielded is known to nobody else until it is saved |
| `RejectedStaysAway` | `RejectedNotReturned` | `TokenInv`: no number is in use that was not issued, so an answer is never the token rejected |
| `TableStaysSmall` | `TableBounded` | `LockInv`: at each insertion whatever nobody refers to is pruned |
| `AgReplayLedgerProofs` | | from `SizesAssumption` |
| `LedgerIsSound` | `LedgerSound` | `OrderOK` (the order of age has each key once, the expired ones are its oldest) and `SnapshotSound` |
| `DeletionsStand` | `DeletedNotRestored` | `SnapshotSound`: no entry bears the revision or the branch of a snapshot that a deletion overtook |
| `TurnsStay` | `NoTurnLost` | `SnapshotSound`: an entry of the revision of a snapshot is that snapshot, one of its branch continues it |
| `MessageRelayProofs` | | from `RequestsAssumption`, `ScenesAssumption`, `AsksAssumption`, `BoundsAssumption` |
| `SentAsItIs` | `SentIsCurrent` | `Wired`, `Keyed`: what may be sent as it is has been encoded since it last changed, and its token was not rejected |
| `LastWordIsShown` | `LastAnswerShown` | `Reasoned`, `ToldRight`: where a request is tells what was answered last |
| `RefusedIsGivenUp` | `RefusalsHeeded` | `ChainSound`, `AdaptSound`, `AskedOnce` |
| `RepetitionsProgress` | `RepeatsProgress` | `Reasoned` for the order of the reasons, with any number of URLs, `PoolSound` for the connections |
| `ResponseStreamsProofs` | | from `SizeAssumption`, for responses that are `Uninterrupted` |
| `StreamsImplement` | `ImplementsAnthropicStream` | `StreamInv`: the frames not yielded yet go on with the message as the client has it, and end with the block open that the conversion believes open |
| `StreamsIndexesDense` | `IndexesDense` | the same: the indexes used so far are those below the next one, except the ones reserved for calls not shown yet |
| `SessionMemoryProofs` | | from `KimiAssumption`, `KimiStreamsAssumption`, `DriftAssumption`, `BodiesAssumption` |
| `ThinkingAlwaysReturns` | `ThinkingReturns` | `KimiInv`: what is kept for a session and family is an answer of theirs, and while nothing was lost and all fit, their last one worth keeping |
| `ChangesAlwaysReported` | `DriftReported` | `DriftInv`: a map holds the last request of each key (`Recent`), and a warning that awaits its usage has none yet (`PendingsAwait`) |

Besides, each module has a theorem for its invariant (`WatchInvariant`,
`RefreshInvariant`, `LedgerInvariant`, `RelayInvariant`, `KimiInvHolds`,
`DriftInvHolds`) and most one for their types (`TypesHold`).

None of these properties is inductive by itself, and what each lacks is the
knowledge on which the code relies without testing it.

* *Snapshot.* A publication is right because of what its actor captured long before.
  `LockInv` says that no two reloads are between load and publication at once, so
  `LoadInv` can compare a load with the snapshot that will precede its own;
  `RequestInv` ties generation and stamp, which only a reload moves, both at once;
  `DropInv` and `WholeInv` hold for a background round only *while its version is the
  current one*, which is what `publish_refreshed_providers` tests before it
  publishes. The refinement maps a publication of a reload to `Replace`, of a round
  to `Refresh`, and everything else to a stutter.
* *Watcher.* `NoWriteOverlooked` speaks of a system at rest, and holds there because
  a write that falls anywhere into a cycle leaves a notification behind. The invariant
  has to say what that means in each state of the cycle: while it loads and when it
  commits, only for what the reload could not publish, since a commit takes the rest
  from disk.
* *Credentials.* A lock stands for a token, but the token changes under its lock.
  `KeysCurrent` says that a request whose key is not the file's any more will find
  the file usable, so that it does not exchange at all; that a token is not rotated
  twice without a call noticing needs `NumbersIssued` and `AnswersNew`. `LockLeft`
  shows that locks are never in short supply.
* *Ledger.* A commit compares a revision and a branch, and the invariant says what
  these numbers prove about entries that may have been evicted, deleted, expired and
  written again since they were read: `SnapshotSound` relates every snapshot to the
  entry now in its place, `EntriesDated` keeps both counters ahead of all numbers in
  use. Lemmas about sequences of keys (what a truncation, a removal or an append
  does to the order of age) are stated once and cited by every operation.
* *Streams.* A conversion never sees the client; it has a flag for the block it has
  opened and an index for the next. `Ends(c, out, ...)` says what the client's message
  will be once the frames in `out` are shown to it (`Becomes` follows them one by one),
  and `StreamInv` that this is what the flags say: the block they name is open and no
  other, and the indexes below `next` are used up. So a frame appended to `out` extends
  the message by one legal step, a frame taken from it is one, and `Yield` needs no
  case for what it yields. On top of it each protocol has an invariant of its own.
  A Chat call may have been given an index and not be shown yet, which leaves a gap
  (`Reserved`) until it is shown or flushed; meanwhile other content has to wait. A
  Responses call that is being shown keeps every other item from opening a block. It
  cannot be left open: `Stuck` says that a call shown while the next event is awaited
  is not done, `Live` that its item is still to come to an end, and the deferred events
  are `QuietEvents`, which start no call when they are taken up.
  Folds over chunks, calls and deferred events are followed stage by stage
  (`StagesExist`, `LastStage`). `Uninterrupted` leaves aside an upstream that reports a
  loop while a call is shown: then the property is false (section 5).
* *Relay.* `Alone` is what holds of a request by itself, `Shared` what holds between
  it and the pool, the chain and the registry. The second part must survive the steps
  of *other* requests; it does because a chain is only stored by a request that is
  over (`ChainsOver`), generations only grow, and a client in the pool is newer than
  every connection known to be dead. `LaterReason` shows that the order in which the
  code asks its gates is an order of the reasons.
* *Thinking.* A stream is a sequence of frames, and the accumulator and the client each
  go through it in their own way. The first half of the proof follows both frame by
  frame (`Agrees`, kept by `AgreesStill`): of a stream that can be followed, what the
  accumulator has gathered when it stops is what the client was told. The second half
  is about the cache. `KeptWasReturned` says that an entry is an answer of its key and
  `LastIsKept` that it is the last one, while nothing was lost, expired or evicted;
  `restore_kimi_thinking_replay` puts it back only into a message that is that answer
  without its thinking (`GivesBack`), so the place is right even when the entry is not
  the last.
* *Drift.* The property speaks of the requests alone, the code compares with what its
  maps hold. `Recent` ties the two: an entry bears the request that used it last, no
  later request has its key, and a key that is missing was followed by more keys than
  fit. That is the invariant of a least-recently-used table, proved once for the
  operator `put` (`PutRecent`) and used for baselines and for structures. That sessions
  do not share a bucket (`Buckets`), that tools have the same fingerprint exactly when
  they are the same but for descriptions and order (`Fingerprints`), and that hashes of
  first messages agree exactly when the words do (`SameTalk`) are lemmas about the
  operators. For the usage the invariant follows warnings, not answers: one that waits
  has no usage yet and is of its session, and one whose request has its session to
  itself cannot be replaced or evicted while its answer is watched.

Some things were written differently so that they can be proved, or came from the
attempt. The folds of `ChatRelay` and `ResponsesRelay` go over numbers, where some had
a sorted sequence of keys or `SelectSeq`. `SizeAssumption` asks for an item at least:
without one no response has anything to show. The ledger and the order of age use the removal of one key and a part of
the sequence where they had `SelectSeq`, whose predicate no installed prover can be
given. `KimiReplay` has streams as sequences of frames, and says which of them a client can
follow (`Followable`) where it had the accumulator's own verdict; its table and those of
`DriftDetector` are functions that note the last use of each key, where an order of keys
was kept beside them. `AsksAssumption` says that a request does not begin with a schema in words:
only `inject_schema_instruction` (`server/http/unfit.rs`) writes them. And
`SingleFlight` turned out not to be inductive for Antigravity accounts, nor true
with three callers (section 5), so that it now names the accounts it is about.

Only model-checked:

* Liveness (`ReloadReturns`, `WatcherSettles`, `CallsEnd`, `StreamEnds`,
  `RequestEnds`), which is out of the prover's reach.
* What the conversions compute (`ClientRequest`): that is induction over histories,
  prompts and schemas, and `ToolSchema` is written with RECURSIVE operators.
* Two of the session memories. `FreshReasoningReturns` and `ReasoningKept` relate a
  request to everything the session's ledger was told before, through the conversion
  of whole histories; `OwnAnswersReturn`, `SentWellFormed` and the `SignaturesBelong`
  of `AntigravityReplay` rest on the conversion, the accumulator and the repair of a
  whole request at once. Those are recursive over histories.
* What the blocks of a response show (`SentIsShown`, `ToolUseReason`,
  `SignaturesBelong`): the proofs follow which blocks are open and what was deferred,
  not the pieces in them.

## 5. Not modelled, and why

* Real time: the three hours between rounds, the debounce, time to live. They are
  nondeterministic choices, constrained only by `Expire` of `CredentialRefresh`:
  tokens live longer than the skew (four hours for Claude, a day for Codex). A
  token that does not is exchanged by every request (`claude/refresh.rs:80`).
* `config.yaml` and `models.json` are read at two moments of a reload
  (`cli/main.rs:328`); a content stands for both.
* The two file locks around a credential write: the write is one step. What a lost
  answer of a token endpoint leaves behind (`claude/oauth.rs:226`,
  `codex/refresh.rs:54`) is not distinguished from a failed exchange.
* Of the streams: that `thinking_distinct` compares texts, so that a delta is dropped
  also if it happens to be what earlier ones say together without being sent as such;
  the framing of SSE, the idle keep-alive pings, usage counts, the
  separators between summaries, typed content parts, plaintext reasoning parts,
  and the passthrough of an upstream that speaks Anthropic itself. A chunk has one
  delta or part.
* Of what upstreams may send: a terminal Responses event brings text or calls
  of its own only when no item is left open; a call that comes there only needs
  a message that has begun; a search is reported once. A Gemini upstream sends
  usage no later than the finish reason and some content before it: without them
  the last block stays open and there is no message delta, which a test of the
  repository pins down (`server/sse/gemini.rs:49`). A chat upstream sends no
  content after its finish reason.
* Of the relay: counting tokens, whole bodies that are passed through, the debug
  log. The key of the client pool is the account header only.
* Of the conversions: images, documents and files are one kind of block; server
  tools; the wording of prompts; prefill. Of schemas: boolean schemas, numeric
  bounds, the cost of descriptions, upper-case type names; an empty map of properties
  is none, a list of one type is that type, and the keys of a map are resolved in
  a fixed order.
* Of the replay: items of the Antigravity ledger without an occurrence, signatures
  under 16 characters, arguments inside arguments (an argument is there, is the
  default, or is a placeholder), the index of a part (unused where an occurrence is known);
  the Responses ledger's earlier format, its limit of 16 MB and empty fingerprints;
  the byte limits of the Kimi cache.
* Of the drift detector: the separate hash of descriptions, the rate of log lines. Detection of volatile content and counting
  of repeated calls only write to the log.
* The authentication cache, headers, TLS profiles, JWT claims, browser logins and
  the deployment scripts: data formats and I/O without state that a model would
  check.

### Seen while modelling

No run states these; each is what the code does at the line named, or what a
property therefore leaves aside.

* Background refresh merges the kinds of account in another order than reload
  (`cli/main.rs:604` against `:322`), and the comparison is of ordered lists
  (`server/http/mod.rs:277`): the first round after a reload republishes an
  unchanged set, which `docs/design.md:152` says it does not.
* `persist_secret` writes the lines it read before bcrypt ran (`cli/config.rs:111`).
* A sure report of a loop is deferred while a call is shown
  (`function_call.rs:63`); `state_machine.rs:157` says it interrupts at once. When it
  is taken up in the terminal event with a thinking block open, that block's end
  follows the error (`state_machine.rs:424`); so `Uninterrupted` is a hypothesis of the
  theorems about streams, and no run has the habit "interrupts".
* A `POST /reload` may publish a second content while the first is being restored
  within the debounce: the watcher then sees no change (`config_watch.rs:94`).
* Overlapping items of a Responses stream are shown in another order than they came
  (`state_machine.rs:687`).
* Schemas: the fields of an `allOf` inside a member of an `allOf` are lost
  (`gemini_schema.rs:1011`), and so are tuples in `items`; a root without type but
  with a union becomes an object without the check for objects.
* Behind Responses the blocks of the system prompt are joined before sections are
  cut, so a plain block after a discarded section goes with it, though
  `instructions.rs:15` keeps plain text.
* Two tools whose names differ only by Antigravity's `external_` prefix meet
  upstream.
* Normalisation: inputs of tools that are not declared, and keys inside inputs, keep
  the client's order; a reminder without white space before its closing tag keeps
  what follows it; a smooshed reminder with the user's words behind it comes out
  behind them; behind Gemini marked tools keep their order though the marks are
  dropped.
* Antigravity: a signed frame that continues an unsigned text is never restored; the
  index of a streamed part differs from that of the same part in a history, so each
  commit starts a new branch; after a rollback the stable ids are sent upstream.
* Antigravity: `gemini_response.rs:16-17` says that the replay puts the native id of a
  call back from the ledger. For `gemini-3-pro` and `gemini-3.1-pro` the schemas sent
  demand placeholder arguments (`gemini_schema.rs:1800`, `gemini.rs:27`), which
  `clean_emitted_args` takes out of what the client is given. The ledger keeps them and
  `function_call_matches_item` does not look past them, so in a session nobody has
  touched a call that used one comes back under a synthetic id and with the skip marker
  for a signature, and a call without an id after it loses its signature.
  `OwnAnswersReturn` says that it goes no further.
* Antigravity: a call that finds a usable credential without a project looks for the
  project and then writes back what it read (`antigravity/refresh.rs:155-160`), also
  over a login's new credential. A call that waits under the lock of the login's token
  then finds the old one in the file and exchanges it, while another does so under the
  old token's own lock. TLC shows it with three requests; so `SingleFlight` and
  `ReplacedNotPresented` leave this kind of account aside.
* Responses: an answer of reasoning only takes the anchor of the message before it;
  an answer with two texts is never found again; the repetition without reasoning
  files its turn under the request that had it.
* Drift: when requests of a session overlap, the usage of one answer is set against
  the warning of the other; subagents share their session, so their prompts warn in
  turn; no tools and an empty list of tools differ.

## 6. Plan

Modelled: the snapshot, the watcher, the credentials, the ledger, the streams, the
relay, the conversions, the memories of a session. Proved: the first six, and of the
memories thinking and drift. Induction over numbers works by the least counterexample
(`LeastOf`, `UpTo` in `FoldLemmas`), and folds can be followed with it. Next, in this
order:

1. `ToolUseReason`, from `StreamInv`: the reason agrees with the calls shown.
2. `NothingTwice` of `ReasoningReplay`: what a request has of reasoning it has once.
3. The byte limits of the caches, which evict several entries at once.
