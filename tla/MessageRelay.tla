---------------------------- MODULE MessageRelay ----------------------------
(***************************************************************************)
(* Requests on their way to one provider (http/handlers/messages.rs with   *)
(* upstream.rs, http/unfit.rs and limits.rs): prepared once, sent to one   *)
(* URL after another, and sent again for at most one reason of each kind:  *)
(* a stale connection, a stream whose first frame is bad, a rejected       *)
(* token, a refused feature, reasoning that is not valid any more.         *)
(*                                                                         *)
(* The requests are of one conversation with one provider.  They share the *)
(* credential, the pool of connections, the unfit registry and the chain   *)
(* of reasoning the replay cache keeps for the conversation; a reload may  *)
(* empty the registry at any time.  The credential is refreshed as in      *)
(* CredentialRefresh, and a stream that is delivered is converted as in    *)
(* ResponseStreams.                                                        *)
(***************************************************************************)
EXTENDS Naturals, FiniteSets

CONSTANTS
  Requests,   \* the requests
  NoRequest,  \* stored no chain
  Client,     \* whose own reasoning may be in a body, besides a chain's
  Scenes,     \* providers: what is asked of them, what they may answer, and
              \* how many connections to them may turn out to be dead
  MaxTokens,  \* bound on the access tokens issued
  MaxReloads  \* bound on the reloads

ASSUME RequestsAssumption ==
  /\ IsFiniteSet(Requests)
  /\ NoRequest \notin Requests
  /\ Client \notin Requests \cup {NoRequest}

-----------------------------------------------------------------------------
(***************************************************************************)
(* What an upstream has refused (http/unfit.rs): the features a provider's *)
(* model is marked unfit for, and how a request is adapted to the marks.   *)
(* Of a request only what adapting looks at and changes is kept: whether   *)
(* it asks for structured output, with which reasoning effort, and with    *)
(* which tool choice.                                                      *)
(***************************************************************************)
Kinds == {"RefusesFormat", "OffRefused", "ToolChoiceRefused",
          "ToolsWithoutEffort"}

\* The instruction that replaces a schema may be in the prompt once or twice.
Asks == [format : BOOLEAN, instructions : 0..2,
         effort : {"none", "off", "low"}, choice : {"none", "auto", "forced"}]

\* Bodies of these protocols have none of the fields that adapting knows.
Adapts(protocol) == protocol \in {"claude", "chat", "responses"}

\* The schema becomes an instruction.  In a Claude body it shares the key that
\* is removed, output_config, with the effort.
refusesFormat(asks, protocol) ==
  IF asks.format
    THEN [asks EXCEPT !.format = FALSE, !.instructions = @ + 1,
                      !.effort = IF protocol = "claude" THEN "none" ELSE @]
    ELSE asks

\* In a Claude body the effort is looked for under thinking, where Claude Code
\* no longer puts it.
offRefused(asks, protocol) ==
  IF asks.effort = "off" /\ protocol # "claude"
    THEN [asks EXCEPT !.effort = "low"]
    ELSE asks

toolChoiceRefused(asks, protocol) ==
  IF asks.choice = "forced" THEN [asks EXCEPT !.choice = "auto"] ELSE asks

toolsWithoutEffort(asks, protocol) == [asks EXCEPT !.effort = "none"]

\* adapt_request_for_unfit: every mark is applied, in this order.
adapted(asks, marks, protocol) ==
  LET formatted == IF "RefusesFormat" \in marks
                     THEN refusesFormat(asks, protocol) ELSE asks
      exerted == IF "OffRefused" \in marks
                   THEN offRefused(formatted, protocol) ELSE formatted
      chosen == IF "ToolChoiceRefused" \in marks
                  THEN toolChoiceRefused(exerted, protocol) ELSE exerted IN
  IF ~Adapts(protocol)                    THEN asks
  ELSE IF "ToolsWithoutEffort" \in marks  THEN toolsWithoutEffort(chosen,
                                                                  protocol)
                                          ELSE chosen
-----------------------------------------------------------------------------
Protocols == {"claude", "chat", "responses", "gemini", "antigravity"}

ASSUME ScenesAssumption ==
  Scenes \subseteq
    [requests : SUBSET Requests, protocol : Protocols, stream : BOOLEAN,
     oauth : BOOLEAN, kimi : BOOLEAN, account : BOOLEAN, urls : Nat \ {0},
     asks : Asks, sealed : SUBSET {Client},
     refuses : SUBSET {400, 422},
     says : SUBSET ({"huge", "unreadable", "signature"} \cup Kinds),
     dead : Nat]

\* The words that stand for a schema are put into a body by adapting it only.
ASSUME AsksAssumption == \A s \in Scenes : s.asks.instructions = 0

ASSUME BoundsAssumption ==
  MaxTokens \in Nat \ {0} /\ MaxReloads \in Nat

VARIABLES
  scene,      \* the provider, as the configuration has it
  request,    \* the state of each request
  token,      \* the access token in the credential file
  account,    \* whether the file names an account (Codex)
  pool,       \* UpstreamClient.clients: the client of each kind of request
  stale,      \* connections that have turned out to be dead
  marks,      \* the unfit registry
  generation, \* its generation
  chain       \* the request whose chain the replay cache has

vars == <<scene, request, token, account, pool, stale, marks, generation,
          chain>>

shared == <<token, account, pool, stale, marks, generation, chain>>

Stateful  == scene.protocol \in {"responses", "antigravity"} \/ scene.kimi
Converted == scene.protocol \in {"chat", "responses"}

\* Why a body is sent: for the first time, or again.
Whys == {"round", "frame", "auth", "unfit", "trim"}

Body == [asks : Asks, sealed : SUBSET (Requests \cup {Client}),
         project : 0..MaxTokens]

\* A client of the pool is known by how many connections had been dead when it
\* was built, one more than that: 0 if there is none.
NoClient == 0

Idle == [pc |-> "idle", why |-> "round", url |-> 1,
         generation |-> 0, snapshot |-> NoRequest,
         body |-> [asks |-> scene.asks, sealed |-> {}, project |-> 0],
         wire |-> [body |-> [asks |-> scene.asks, sealed |-> {},
                             project |-> 0], zstd |-> FALSE],
         key |-> 0, header |-> FALSE, client |-> NoClient, again |-> FALSE,
         status |-> 0, detail |-> "plain", rejected |-> {}, shown |-> 0]

Init ==
  /\ scene \in Scenes
  /\ request = [r \in Requests |-> Idle]
  /\ token = 1
  /\ account = scene.account
  /\ pool = [zstd \in BOOLEAN |-> NoClient]
  /\ stale = 0
  /\ marks = {}
  /\ generation = 0
  /\ chain = NoRequest
-----------------------------------------------------------------------------
(***************************************************************************)
(* prepare_message_request                                                 *)
(***************************************************************************)
Set(r, state) == request' = [request EXCEPT ![r] = state]

\* The request ends, and its client is shown a status.
Ended(state, status) ==
  [Idle EXCEPT !.pc = "done", !.shown = status, !.status = state.status]

\* encode_request_body: compressed for an account.
encoded(state) ==
  [state EXCEPT !.wire = [body |-> state.body, zstd |-> state.header]]

\* The reasoning the replay cache puts into a body.
Replayed == IF Stateful /\ chain # NoRequest THEN {chain} ELSE {}

\* The request enters; the chain of the conversation is put into its body.
Begin(r) ==
  /\ r \in scene.requests
  /\ request[r].pc = "idle"
  /\ Set(r, [Idle EXCEPT !.pc = "fresh",
                         !.generation = generation,
                         !.snapshot = chain,
                         !.body.sealed = scene.sealed \cup Replayed])
  /\ UNCHANGED <<scene, shared>>

\* Mutant: once a token is in use it stays in use.
HoldingFirst(state, at, named) ==
  IF state.key = 0 THEN [state EXCEPT !.key = at] ELSE state

\* The token in use, the account it belongs to, and the project in the body.
Holding(state, at, named) ==
  LET keyed == [state EXCEPT !.key = at,
                             !.header = named /\ scene.protocol = "responses"]
  IN  IF scene.protocol = "antigravity"
        THEN [keyed EXCEPT !.body.project = at]
        ELSE keyed

\* ensure_credential_fresh returns a token other than the rejected one, that
\* of the file or a new one, and names the account if the exchange did.
Refreshed(rejected) ==
  \/ token # rejected /\ UNCHANGED <<token, account>>
  \/ /\ token < MaxTokens
     /\ token' = token + 1
     /\ account' \in {account, TRUE}

\* The token is looked after, the body adapted to what is known to be refused,
\* and encoded; a credential that cannot be used ends the request, and so does
\* an Antigravity credential without a project.
Fresh(r) ==
  LET Ready(at, named) ==
        LET held  == Holding(request[r], at, named)
            asked == adapted(held.body.asks, marks, scene.protocol) IN
        Set(r, encoded([held EXCEPT !.pc = "send", !.body.asks = asked])) IN
  /\ request[r].pc = "fresh"
  /\ \/ scene.oauth /\ Refreshed(0) /\ Ready(token', account')
     \/ /\ scene.oauth
        /\ \/ Set(r, Ended(request[r], 401))
           \/ /\ scene.protocol = "antigravity"
              /\ Set(r, Ended(request[r], 400))
        /\ UNCHANGED <<token, account>>
     \/ ~scene.oauth /\ Ready(token, FALSE) /\ UNCHANGED <<token, account>>
  /\ UNCHANGED <<scene, pool, stale, marks, generation, chain>>
-----------------------------------------------------------------------------
(***************************************************************************)
(* UpstreamClient::request_encoded                                         *)
(***************************************************************************)
\* The clients of requests with and without an account are kept apart.
client_for(header) ==
  IF pool[header] = NoClient THEN stale + 1 ELSE pool[header]

Send(r) ==
  LET state  == request[r]
      client == client_for(state.header) IN
  /\ state.pc = "send"
  /\ pool' = [pool EXCEPT ![state.header] = client]
  /\ Set(r, [state EXCEPT !.pc = "wait", !.client = client])
  /\ UNCHANGED <<scene, token, account, stale, marks, generation, chain>>

\* Mutant: the key lacks the account.
drop_pooled_clientPlain(header) == [pool EXCEPT ![FALSE] = NoClient]

\* The cached client goes, whichever it is by now.
drop_pooled_client(header) == [pool EXCEPT ![header] = NoClient]

\* The connection was dead before it was used: once per send, a new client.
Redial(r) ==
  /\ request[r].pc = "wait"
  /\ ~request[r].again
  /\ stale < scene.dead
  /\ stale' = stale + 1
  /\ pool' = drop_pooled_client(request[r].header)
  /\ Set(r, [request[r] EXCEPT !.pc = "send", !.again = TRUE])
  /\ UNCHANGED <<scene, token, account, marks, generation, chain>>

\* In the first round there may be another URL.
HasNext(state) == state.why = "round" /\ state.url < scene.urls
NextUrl(state) == [state EXCEPT !.pc = "send", !.url = @ + 1, !.again = FALSE]

\* The status shown for a failure to send: 500, or 408 if it was a timeout.
NotSent == 500

\* No answer: no connection, a timeout, or a second dead connection.
Lose(r) ==
  LET state == request[r] IN
  /\ state.pc = "wait"
  /\ IF HasNext(state)
       THEN Set(r, NextUrl(state))
       ELSE Set(r, Ended(state, NotSent))
  /\ UNCHANGED <<scene, shared>>
-----------------------------------------------------------------------------
(***************************************************************************)
(* execute_upstream_request and deliver_response                           *)
(***************************************************************************)
\* What an error is looked at for, in this order.
Gates == <<"auth", "unfit", "clear", "trim", "answer">>

Refusal(state) == state.status \in {400, 422} /\ state.detail # "huge"

Applies(gate, state) ==
  CASE gate = "auth"   -> state.status = 401 /\ scene.oauth
    [] gate = "unfit"  -> Refusal(state) /\ state.detail \in Kinds
    [] gate = "clear"  -> \/ /\ scene.protocol = "antigravity"
                             /\ state.status = 400
                             /\ state.detail = "signature"
                          \/ scene.kimi /\ Refusal(state)
    [] gate = "trim"   -> /\ scene.protocol = "responses"
                          /\ Refusal(state) /\ state.detail = "signature"
                          /\ state.body.sealed # {}
    [] gate = "answer" -> TRUE

\* The next thing the error is looked at for, after the one it was sent for.
Looked(state, after) ==
  LET from == CASE after \in {"round", "frame"} -> 1 [] after = "auth" -> 2
                [] after = "unfit" -> 3 [] after = "clear" -> 4
                [] after = "trim" -> 5
      gate == CHOOSE n \in from..5 :
                /\ Applies(Gates[n], state)
                /\ \A m \in from..(n - 1) : ~Applies(Gates[m], state) IN
  [state EXCEPT !.pc = Gates[gate]]

Failed(state, status, detail) ==
  Looked([state EXCEPT !.status = status, !.detail = detail], state.why)

\* A body is sent again, to the URL that answered.
Again(state, why) ==
  [state EXCEPT !.pc = "send", !.why = why, !.again = FALSE]

\* A successful answer; only in the first round, and after a bad first frame,
\* the first frame of chat completions and responses is waited for.
Accepted(r) ==
  LET state == request[r]
      framed == scene.stream /\ Converted /\ state.why \in {"round", "frame"}
  IN
  /\ state.pc = "wait"
  /\ Set(r, [state EXCEPT !.pc = IF framed THEN "first" ELSE "deliver",
                          !.status = 200])
  /\ UNCHANGED <<scene, shared>>

\* The upstream fails, or asks to be left alone.
Limited(r) ==
  LET state == request[r] IN
  /\ state.pc = "wait"
  /\ IF HasNext(state)
       THEN Set(r, NextUrl(state))
       ELSE Set(r, Failed(state, 503, "plain"))
  /\ UNCHANGED <<scene, shared>>

\* The upstream rejects the token.
Rejected(r) ==
  LET state == request[r] IN
  /\ state.pc = "wait"
  /\ Set(r, Failed([state EXCEPT !.rejected = @ \cup {state.key}],
                   401, "plain"))
  /\ UNCHANGED <<scene, shared>>

\* The upstream refuses the request and says why; an answer that cannot be
\* read ends it.  Of invalid reasoning it complains when it was sent some.
Refused(r) ==
  \E status \in scene.refuses, detail \in scene.says :
    LET state == request[r] IN
    /\ state.pc = "wait"
    /\ detail = "signature" => state.wire.body.sealed # {}
    /\ IF detail = "unreadable"
         THEN Set(r, Ended([state EXCEPT !.status = status], status))
         ELSE Set(r, Failed(state, status, detail))
    /\ UNCHANGED <<scene, shared>>

\* Mutant: as often as it takes.
framesTriedForever(state) == FALSE

\* One bad first frame is forgiven.
framesTried(state) == state.why = "frame"

\* The first frame that is no comment is an error, or there is none.
BadFrame(r) ==
  LET state == request[r] IN
  /\ state.pc = "first"
  /\ Set(r, IF framesTried(state) THEN Ended(state, 502)
                                  ELSE Again(state, "frame"))
  /\ UNCHANGED <<scene, shared>>

GoodFrame(r) ==
  /\ request[r].pc = "first"
  /\ Set(r, [request[r] EXCEPT !.pc = "deliver"])
  /\ UNCHANGED <<scene, shared>>

\* A rejected token is refreshed; the chain of all but Antigravity is dropped.
Auth(r) ==
  LET state == request[r]
      \* Codex keeps the account it has, and learns one it had not.
      Resend(at, named) ==
        LET held == Holding(state, at, named \/ state.header) IN
        Set(r, Again(encoded(held), "auth")) IN
  /\ state.pc = "auth"
  /\ \/ /\ Refreshed(state.key) /\ Resend(token', account')
        /\ chain' = IF scene.protocol = "antigravity" THEN chain ELSE NoRequest
     \/ /\ \/ Set(r, Ended(state, 401))
           \/ scene.protocol = "antigravity" /\ Set(r, Ended(state, 400))
        /\ UNCHANGED <<token, account, chain>>
  /\ UNCHANGED <<scene, pool, stale, marks, generation>>

\* UnfitRegistry::mark, unless the registry was cleared since.
mark(state) ==
  IF state.generation = generation THEN marks \cup {state.detail} ELSE marks

\* Mutant: what is known is thought to have been adapted to before.
adaptsUnknown(state) == state.detail \notin marks

\* Whether adapting to the marks changes the body.
adapts(state) ==
  adapted(state.body.asks, mark(state), scene.protocol) # state.body.asks

\* A feature is refused: it is marked, and if the marks change the body it is
\* sent again; the chain of all but Antigravity is dropped.
Unfit(r) ==
  LET state == request[r]
      asked == adapted(state.body.asks, mark(state), scene.protocol) IN
  /\ state.pc = "unfit"
  /\ marks' = mark(state)
  /\ IF adapts(state)
       THEN /\ Set(r, Again(encoded([state EXCEPT !.body.asks = asked]),
                            "unfit"))
            /\ chain' = IF scene.protocol = "antigravity"
                          THEN chain ELSE NoRequest
       ELSE Set(r, Looked(state, "unfit")) /\ UNCHANGED chain
  /\ UNCHANGED <<scene, token, account, pool, stale, generation>>

\* The chain, once it may be the reason: Antigravity's if it is the one that
\* was read, Kimi's whatever it is by now.
Clear(r) ==
  LET state == request[r] IN
  /\ state.pc = "clear"
  /\ chain' =
       IF (scene.kimi /\ state.snapshot # NoRequest) \/ chain = state.snapshot
         THEN NoRequest
         ELSE chain
  /\ Set(r, Looked(state, "clear"))
  /\ UNCHANGED <<scene, token, account, pool, stale, marks, generation>>

trimmedChain == NoRequest

\* Reasoning that is not valid any more is taken out, of Responses bodies.
Trim(r) ==
  LET state == request[r] IN
  /\ state.pc = "trim"
  /\ Set(r, Again(encoded([state EXCEPT !.body.sealed = {}]), "trim"))
  /\ chain' = trimmedChain
  /\ UNCHANGED <<scene, token, account, pool, stale, marks, generation>>

\* Mutant: the first answer decides what the client is told.
final_statusFirst(state) == IF state.rejected # {} THEN 401 ELSE state.status

final_status(state) == state.status

\* The upstream's error, in the shape of an Anthropic one.
Answer(r) ==
  /\ request[r].pc = "answer"
  /\ Set(r, Ended(request[r], final_status(request[r])))
  /\ UNCHANGED <<scene, shared>>

\* What may be stored of a response; with Antigravity only if nobody else has
\* stored anything.
Stored(r) ==
  IF Stateful /\ (scene.protocol = "antigravity" => chain = request[r].snapshot)
    THEN {chain, r}
    ELSE {chain}

\* The response is relayed, or read and converted, and its chain stored.
Deliver(r) ==
  /\ request[r].pc = "deliver"
  /\ Set(r, Ended(request[r], 200))
  /\ chain' \in Stored(r)
  /\ UNCHANGED <<scene, token, account, pool, stale, marks, generation>>

\* A whole response that cannot be read or converted.
Spoil(r) ==
  /\ request[r].pc = "deliver"
  /\ ~scene.stream
  /\ Set(r, Ended(request[r], 502))
  /\ UNCHANGED <<scene, shared>>

\* The client of a request goes away; nothing more is done for it.
Leave(r) ==
  /\ request[r].pc \notin {"idle", "done"}
  /\ Set(r, Ended(request[r], 0))
  /\ UNCHANGED <<scene, shared>>

\* UnfitRegistry::clear; the provider itself stays as it is.
Reload ==
  /\ generation < MaxReloads
  /\ generation' = generation + 1
  /\ marks' = {}
  /\ UNCHANGED <<scene, request, token, account, pool, stale, chain>>

\* What the relay does by itself, once it may.
Step(r) == \/ Begin(r) \/ Fresh(r) \/ Send(r) \/ Auth(r) \/ Unfit(r)
           \/ Clear(r) \/ Trim(r) \/ Answer(r) \/ Deliver(r)

\* What the upstream does: answer, in some way, or fail to.
Upstream(r) == \/ Redial(r) \/ Lose(r) \/ Accepted(r) \/ Limited(r)
               \/ Rejected(r) \/ Refused(r) \/ BadFrame(r) \/ GoodFrame(r)

Next == \/ Reload
        \/ \E r \in Requests : \/ Step(r) \/ Upstream(r)
                               \/ Spoil(r) \/ Leave(r)

\* Handlers run; what the upstream does not answer times out, and the first
\* frame comes or the stream is idle for too long.
Fairness == \A r \in Requests : WF_vars(Step(r)) /\ WF_vars(Upstream(r))

Spec == Init /\ [][Next]_vars /\ Fairness
-----------------------------------------------------------------------------
TypeOK ==
  /\ scene \in Scenes
  /\ \A r \in Requests :
       LET state == request[r] IN
       /\ state.body \in Body
       /\ state.wire.body \in Body
       /\ state.url \in 1..scene.urls
       /\ state.why \in Whys
       /\ state.shown \in {0, 200, 400, 401, 422, 500, 502, 503}
  /\ token \in 1..MaxTokens
  /\ stale \in 0..scene.dead
  /\ marks \subseteq Kinds
  /\ generation \in 0..MaxReloads
  /\ chain \in Requests \cup {NoRequest}

Waits(r)   == request[r].pc = "wait"
Answers(r) == request[r].pc = "answer"
Told(r)    == request[r].pc = "done" /\ request[r].shown # 0

\* Whatever is sent is the body as it is by then, project, account, adapted
\* features and all, and is compressed exactly if it is said to be.
WireIsBody ==
  \A r \in Requests : Waits(r) =>
    request[r].wire = [body |-> request[r].body, zstd |-> request[r].header]

\* A request never sends a token again that the upstream has rejected.
RejectedNotResent ==
  \A r \in Requests : Waits(r) => request[r].key \notin request[r].rejected

\* After a dead connection the request is sent by a client that was built
\* since, by this request or by another.
FreshAfterStale ==
  [][\A r \in Requests :
       /\ request[r].pc = "send" /\ request'[r].pc = "wait"
       /\ request[r].again
       => request'[r].client # request[r].client]_vars

\* How far a request has come with its repetitions: by its reason, within the
\* first round by the URL, and at one URL by whether the connection was dead.
Rank(why) == CASE why = "round" -> 0 [] why = "frame" -> 1 [] why = "auth" -> 2
               [] why = "unfit" -> 3 [] why = "trim" -> 4

Round(state) == IF state.why = "round" THEN state.url ELSE 0

Further(state, before) ==
  \/ Rank(state.why) > Rank(before.why)
  \/ /\ Rank(state.why) = Rank(before.why)
     /\ \/ Round(state) > Round(before)
        \/ Round(state) = Round(before) /\ state.again /\ ~before.again

\* A request is not sent twice for the same reason: whenever it is sent again
\* it has come further, to the next URL, to a connection that is not dead, to
\* a later one of the reasons.
NothingRepeated ==
  [][\A r \in Requests :
       request[r].pc \notin {"fresh", "send"} /\ request'[r].pc = "send"
       => Further(request'[r], request[r])]_vars

\* A client is told what the upstream said last, not what it said before the
\* request was repeated.
LastAnswerShown ==
  \A r \in Requests :
    Told(r) /\ request[r].shown \notin {500, 502} =>
      \/ request[r].shown = request[r].status
      \/ scene.oauth /\ request[r].status \in {0, 401}
                     /\ request[r].shown \in {400, 401}

\* Reasoning the upstream has said it does not accept is not put into another
\* request: the chain is gone before the client is told, also if the request
\* succeeds without it.
RefusedChainDropped ==
  \A r \in Requests :
    LET state   == request[r]
        refused == Answers(r) /\ state.status = 400
                              /\ state.detail = "signature" IN
    refused \/ (state.pc \in {"deliver", "answer"} /\ state.why = "trim")
    => state.snapshot = NoRequest \/ chain # state.snapshot

\* A feature that is refused is given up and the request sent again before its
\* client is told, unless the configuration was reloaded meanwhile or the
\* request was repeated for a refused feature already.
RefusalAdapted ==
  \A r \in Requests :
    LET state == request[r] IN
    /\ Answers(r) /\ Refusal(state) /\ state.detail \in Kinds
    => \/ state.why \in {"unfit", "trim"}
       \/ state.generation # generation
       \/ adapted(state.body.asks, {state.detail}, scene.protocol)
            = state.body.asks

\* The schema is asked for in words at most once, however often the request
\* was adapted.
InstructedOnce ==
  \A r \in Requests : request[r].body.asks.instructions <= 1

\* Every request that stays is answered.
RequestEnds ==
  \A r \in Requests : (request[r].pc # "idle") ~> (request[r].pc = "done")

\* What is sent is as things are by then: the body with all that was changed in
\* it, under a token the upstream has not rejected.
SentIsCurrent == WireIsBody /\ RejectedNotResent

\* What the upstream refuses is heeded: the chain goes, the feature is given up,
\* and what replaces it is said once.
RefusalsHeeded == RefusedChainDropped /\ RefusalAdapted /\ InstructedOnce

\* Every repetition goes further than the one before, and over a connection
\* that was opened since.
RepeatsProgress == NothingRepeated /\ FreshAfterStale
=============================================================================
