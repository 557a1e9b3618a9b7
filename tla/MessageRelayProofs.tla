-------------------------- MODULE MessageRelayProofs --------------------------
(***************************************************************************)
(* Proofs about the relay of messages: for any number of requests of a     *)
(* conversation, any provider, any number of tokens, dead connections and  *)
(* reloads.                                                                *)
(***************************************************************************)
EXTENDS MessageRelay, TLAPS

Pcs == {"idle", "fresh", "send", "wait", "first", "deliver", "auth", "unfit",
        "clear", "trim", "answer", "done"}

Details == {"plain", "huge", "unreadable", "signature"} \cup Kinds

Wire == [body : Body, zstd : BOOLEAN]

Urls        == 1..scene.urls
Generations == 0..MaxReloads
Snapshots   == Requests \cup {NoRequest}
Tokens      == 0..MaxTokens
TokenSets   == SUBSET Tokens
Clients     == Nat
Statuses    == {0, 200, 400, 401, 422, 503}
Shown       == {0, 200, 400, 401, 422, 500, 502, 503}

State == [pc : Pcs, why : Whys, url : Urls, generation : Generations,
          snapshot : Snapshots, body : Body, wire : Wire, key : Tokens,
          header : BOOLEAN, client : Clients, again : BOOLEAN,
          status : Statuses, detail : Details, rejected : TokenSets,
          shown : Shown]
-----------------------------------------------------------------------------
(***************************************************************************)
(* The inductive invariant: what is known of one request by itself.        *)
(***************************************************************************)
\* Whatever may be sent as it is has been encoded.
Wired(s) ==
  s.pc \in {"send", "wait", "first"} => s.wire = [body |-> s.body, zstd |-> s.header]

\* A token is rejected once, and replaced before the next attempt.
Keyed(s) ==
  /\ s.pc \in {"send", "wait", "first", "unfit", "clear", "trim"}
       => s.key \notin s.rejected
  /\ s.pc \in {"fresh", "send", "wait", "first"} /\ s.why \in {"round", "frame"}
       => s.rejected = {}
  /\ s.pc = "auth" => s.rejected = {s.key}

\* Where a request is tells why it was sent and what was answered.
Reasoned(s) ==
  /\ s.pc = "fresh" => s.status = 0 /\ s.why = "round" /\ ~s.again
  /\ s.pc = "first" => s.why \in {"round", "frame"}
  /\ s.pc \in {"first", "deliver"} => s.status = 200
  /\ s.pc = "auth" => s.status = 401 /\ scene.oauth /\ s.why \in {"round", "frame"}
  /\ s.pc = "unfit" => Refusal(s) /\ s.detail \in Kinds
                       /\ s.why \in {"round", "frame", "auth"}
  /\ s.pc \in {"clear", "trim"} => s.why # "trim"
  /\ s.pc = "trim" => scene.protocol = "responses"
  /\ s.why = "trim" => scene.protocol = "responses" /\ s.body.sealed = {}

\* A schema is asked for in its own field, or in words, or not at all.
AskedOnce(asks) ==
  /\ asks.instructions <= 1
  /\ asks.format => asks.instructions = 0

\* What a client is told.
ToldRight(s) ==
  s.pc = "done" /\ s.shown \notin {0, 500, 502} =>
    \/ s.shown = s.status
    \/ scene.oauth /\ s.status \in {0, 401} /\ s.shown \in {400, 401}

Alone(s) ==
  /\ s \in State
  /\ Wired(s) /\ Keyed(s) /\ Reasoned(s) /\ AskedOnce(s.body.asks) /\ ToldRight(s)
-----------------------------------------------------------------------------
(***************************************************************************)
(* What is known of a request and of what it shares with others: c is the  *)
(* chain, g the generation of the registry, p the pool, d the number of    *)
(* connections that were dead.                                             *)
(***************************************************************************)
\* The chain the request was given is not in the cache any more.
Dropped(s, c) == s.snapshot = NoRequest \/ c # s.snapshot

ChainSound(s, c) ==
  /\ s.why = "trim" => Dropped(s, c)
  /\ s.pc = "answer" /\ s.status = 400 /\ s.detail = "signature" => Dropped(s, c)
  /\ ~Stateful => s.snapshot = NoRequest

\* A refused feature was given up, or there was nothing to give up.
AdaptSound(s, g) ==
  /\ s.generation <= g
  /\ s.pc \in {"clear", "trim", "answer"} /\ Refusal(s) /\ s.detail \in Kinds
       => \/ s.why \in {"unfit", "trim"}
          \/ s.generation # g
          \/ adapted(s.body.asks, {s.detail}, scene.protocol) = s.body.asks

\* After a dead connection the client it belonged to is not in the pool.
PoolSound(s, p, d) ==
  /\ s.client <= d + 1
  /\ s.pc = "send" /\ s.again =>
       s.client <= d /\ (p[s.header] = NoClient \/ p[s.header] > s.client)

Shared(s, c, g, p, d) == ChainSound(s, c) /\ AdaptSound(s, g) /\ PoolSound(s, p, d)

\* What is in the cache, and what was read there, a request has stored that
\* is over.
ChainsOver ==
  /\ chain \in Requests => request[chain].pc = "done"
  /\ \A r \in Requests :
       request[r].snapshot \in Requests => request[request[r].snapshot].pc = "done"
  /\ ~Stateful => chain = NoRequest

SharedType ==
  /\ scene \in Scenes
  /\ request \in [Requests -> State]
  /\ token \in 1..MaxTokens /\ account \in BOOLEAN
  /\ pool \in [BOOLEAN -> Nat] /\ \A h \in BOOLEAN : pool[h] <= stale + 1
  /\ stale \in 0..scene.dead
  /\ marks \subseteq Kinds
  /\ generation \in 0..MaxReloads
  /\ chain \in Requests \cup {NoRequest}

\* No request has a token that was not issued.
KeysIssued == \A r \in Requests : request[r].key <= token

RelayInv ==
  /\ SharedType
  /\ KeysIssued
  /\ ChainsOver
  /\ \A r \in Requests : Alone(request[r])
  /\ \A r \in Requests : Shared(request[r], chain, generation, pool, stale)
-----------------------------------------------------------------------------
(***************************************************************************)
(* Adapting.                                                               *)
(***************************************************************************)
LEMMA FormatReplaced ==
  ASSUME NEW a \in Asks, AskedOnce(a), NEW protocol
  PROVE  refusesFormat(a, protocol) \in Asks /\ AskedOnce(refusesFormat(a, protocol))
<1>1. CASE ~a.format
  BY <1>1 DEF refusesFormat
<1>2. CASE a.format
  <2>1. PICK one \in 0..2 : one = 1 /\ one = a.instructions + 1
    BY <1>2 DEF AskedOnce
  <2>2. PICK effort \in {"none", "off", "low"} :
          effort = IF protocol = "claude" THEN "none" ELSE a.effort
    BY DEF Asks
  <2>3. refusesFormat(a, protocol)
          = [a EXCEPT !.format = FALSE, !.instructions = one, !.effort = effort]
    BY <1>2, <2>1, <2>2 DEF refusesFormat
  <2>4. [a EXCEPT !.format = FALSE, !.instructions = one, !.effort = effort] \in Asks
    BY DEF Asks
  <2>5. [a EXCEPT !.format = FALSE, !.instructions = one, !.effort = effort].format = FALSE
    BY DEF Asks
  <2>6. [a EXCEPT !.format = FALSE, !.instructions = one, !.effort = effort].instructions
          = one
    BY DEF Asks
  <2> DEFINE b == refusesFormat(a, protocol)
  <2>7. b \in Asks /\ b.format = FALSE /\ b.instructions = 1
    BY <2>1, <2>3, <2>4, <2>5, <2>6
  <2> HIDE DEF b
  <2>8. AskedOnce(b)
    BY <2>7 DEF AskedOnce
  <2>9. QED
    BY <2>7, <2>8 DEF b
<1>3. QED
  BY <1>1, <1>2

\* Adapting keeps the type, and says the schema in words once.
LEMMA AdaptedAsks ==
  ASSUME NEW asks \in Asks, NEW kinds \in SUBSET Kinds, NEW protocol, AskedOnce(asks)
  PROVE  adapted(asks, kinds, protocol) \in Asks /\ AskedOnce(adapted(asks, kinds, protocol))
<1> DEFINE Fine(a) == a \in Asks /\ AskedOnce(a)
<1>1. ASSUME NEW a, Fine(a) PROVE Fine(refusesFormat(a, protocol))
  BY <1>1, FormatReplaced
<1>2. ASSUME NEW a, Fine(a) PROVE Fine(offRefused(a, protocol))
  BY <1>2 DEF Asks, AskedOnce, offRefused
<1>3. ASSUME NEW a, Fine(a) PROVE Fine(toolChoiceRefused(a, protocol))
  BY <1>3 DEF Asks, AskedOnce, toolChoiceRefused
<1>4. ASSUME NEW a, Fine(a) PROVE Fine(toolsWithoutEffort(a, protocol))
  BY <1>4 DEF Asks, AskedOnce, toolsWithoutEffort
<1>5. Fine(asks)
  OBVIOUS
<1> HIDE DEF Fine
<1>6. Fine(adapted(asks, kinds, protocol))
  BY <1>1, <1>2, <1>3, <1>4, <1>5 DEF adapted
<1>7. QED
  BY <1>6 DEF Fine

\* What all the marks leave alone, each of them leaves alone.
LEMMA AdaptedAlone ==
  ASSUME NEW asks \in Asks, NEW kinds \in SUBSET Kinds, NEW kind \in kinds, NEW protocol,
         adapted(asks, kinds, protocol) = asks
  PROVE  adapted(asks, {kind}, protocol) = asks
<1>1. kind \in Kinds
  OBVIOUS
<1>2. CASE ~Adapts(protocol)
  BY <1>2 DEF adapted
<1>3. CASE Adapts(protocol) /\ kind = "RefusesFormat"
  BY <1>3 DEF adapted, refusesFormat, offRefused, toolChoiceRefused, toolsWithoutEffort, Asks
<1>4. CASE Adapts(protocol) /\ kind = "OffRefused"
  BY <1>4 DEF adapted, refusesFormat, offRefused, toolChoiceRefused, toolsWithoutEffort, Asks
<1>5. CASE Adapts(protocol) /\ kind = "ToolChoiceRefused"
  BY <1>5 DEF adapted, refusesFormat, offRefused, toolChoiceRefused, toolsWithoutEffort, Asks
<1>6. CASE Adapts(protocol) /\ kind = "ToolsWithoutEffort"
  BY <1>6 DEF adapted, refusesFormat, offRefused, toolChoiceRefused, toolsWithoutEffort, Asks
<1>7. QED
  BY <1>1, <1>2, <1>3, <1>4, <1>5, <1>6 DEF Kinds
-----------------------------------------------------------------------------
(***************************************************************************)
(* What an error is looked at for.                                         *)
(***************************************************************************)
LEMMA AppliesTo ==
  ASSUME NEW s
  PROVE  /\ Applies(Gates[1], s) <=> s.status = 401 /\ scene.oauth
         /\ Applies(Gates[2], s) <=> Refusal(s) /\ s.detail \in Kinds
         /\ Applies(Gates[3], s) <=> \/ /\ scene.protocol = "antigravity"
                                        /\ s.status = 400
                                        /\ s.detail = "signature"
                                     \/ scene.kimi /\ Refusal(s)
         /\ Applies(Gates[4], s) <=> /\ scene.protocol = "responses"
                                     /\ Refusal(s) /\ s.detail = "signature"
                                     /\ s.body.sealed # {}
         /\ Applies(Gates[5], s)
BY DEF Applies, Gates

From(after) == CASE after \in {"round", "frame"} -> 1 [] after = "auth" -> 2
                 [] after = "unfit" -> 3 [] after = "clear" -> 4
                 [] after = "trim" -> 5

\* The first gate from there on that applies; the last one always does.
LEMMA LookedAt ==
  ASSUME NEW s, NEW after \in {"round", "frame", "auth", "unfit", "clear", "trim"}
  PROVE  \E n \in 1..5 :
           /\ From(after) <= n
           /\ Applies(Gates[n], s)
           /\ \A m \in 1..4 : From(after) <= m /\ m < n => ~Applies(Gates[m], s)
           /\ Looked(s, after) = [s EXCEPT !.pc = Gates[n]]
<1> DEFINE from == From(after)
           First(n) == /\ Applies(Gates[n], s)
                       /\ \A m \in from..(n - 1) : ~Applies(Gates[m], s)
           gate == CHOOSE n \in from..5 : First(n)
<1>1. from \in 1..5
  BY DEF From
<1>2. Applies(Gates[5], s)
  BY AppliesTo
<1>3. Looked(s, after) = [s EXCEPT !.pc = Gates[gate]]
  BY DEF Looked, From
<1> HIDE DEF from
<1>4. \E n \in from..5 : First(n)
  <2>1. CASE from = 5
    BY <1>2, <2>1
  <2>2. CASE from = 4
    BY <1>2, <2>2
  <2>3. CASE from = 3
    BY <1>2, <2>3
  <2>4. CASE from = 2
    BY <1>2, <2>4
  <2>5. CASE from = 1
    BY <1>2, <2>5
  <2>6. QED
    BY <1>1, <2>1, <2>2, <2>3, <2>4, <2>5
<1>5. gate \in from..5 /\ First(gate)
  BY <1>4
<1> HIDE DEF gate
<1>6. gate \in 1..5 /\ from <= gate
  BY <1>1, <1>5
<1>7. \A m \in 1..4 : from <= m /\ m < gate => m \in from..(gate - 1)
  BY <1>1, <1>6
<1>8. \A m \in 1..4 : from <= m /\ m < gate => ~Applies(Gates[m], s)
  BY <1>5, <1>7
<1>9. QED
  BY <1>3, <1>5, <1>6, <1>8 DEF from
-----------------------------------------------------------------------------
(***************************************************************************)
(* The states of a request.                                                *)
(***************************************************************************)
SameOrigin(t, s) == t.generation = s.generation /\ t.snapshot = s.snapshot
SamePlace(t, s)  == t.why = s.why /\ t.url = s.url /\ t.again = s.again
SameBody(t, s)   == t.body = s.body /\ t.wire = s.wire
SameToken(t, s)  == t.key = s.key /\ t.header = s.header /\ t.rejected = s.rejected
SameAnswer(t, s) == t.status = s.status /\ t.detail = s.detail /\ t.shown = s.shown

LEMMA GoesType ==
  ASSUME NEW s \in State, NEW pc \in Pcs, NEW t, t = [s EXCEPT !.pc = pc]
  PROVE  /\ t \in State /\ t.pc = pc
         /\ SameOrigin(t, s) /\ SamePlace(t, s) /\ SameBody(t, s) /\ SameToken(t, s)
         /\ SameAnswer(t, s) /\ t.client = s.client
<1>1. t \in State
  BY DEF State
<1>2. QED
  BY DEF State, SameOrigin, SamePlace, SameBody, SameToken, SameAnswer

\* t is s, sent again for a reason.
SentAgain(t, s, why) ==
  /\ t \in State /\ t.pc = "send" /\ t.why = why /\ t.again = FALSE /\ t.url = s.url
  /\ SameOrigin(t, s) /\ SameBody(t, s) /\ SameToken(t, s)
  /\ SameAnswer(t, s) /\ t.client = s.client

LEMMA AgainType ==
  ASSUME NEW s \in State, NEW why \in Whys
  PROVE  SentAgain(Again(s, why), s, why)
<1> DEFINE t == Again(s, why)
<1>1. t \in State
  BY DEF State, Again, Pcs
<1>2. t.again = FALSE
  BY DEF State, Again
<1>3. QED
  BY <1>1, <1>2 DEF SentAgain, State, Again, SameOrigin, SameBody, SameToken, SameAnswer

LEMMA RedialType ==
  ASSUME NEW s \in State, NEW t, t = [s EXCEPT !.pc = "send", !.again = TRUE]
  PROVE  /\ t \in State /\ t.pc = "send" /\ t.why = s.why /\ t.again = TRUE
         /\ t.url = s.url
         /\ SameOrigin(t, s) /\ SameBody(t, s) /\ SameToken(t, s)
         /\ SameAnswer(t, s) /\ t.client = s.client
<1>1. t \in State
  BY DEF State, Pcs
<1>2. t.again = TRUE
  BY DEF State
<1>3. QED
  BY <1>1, <1>2 DEF State, SameOrigin, SameBody, SameToken, SameAnswer

LEMMA NextUrlType ==
  ASSUME SharedType, NEW s \in State, HasNext(s), NEW t, t = NextUrl(s)
  PROVE  /\ t \in State /\ t.pc = "send" /\ t.why = "round" /\ t.again = FALSE
         /\ t.url = s.url + 1
         /\ SameOrigin(t, s) /\ SameBody(t, s) /\ SameToken(t, s)
         /\ SameAnswer(t, s) /\ t.client = s.client
<1>1. scene.urls \in Nat
  BY ScenesAssumption DEF SharedType
<1>2. s.url \in 1..scene.urls /\ s.url < scene.urls /\ s.why = "round"
  BY DEF State, Urls, HasNext
<1>3. s.url + 1 \in 1..scene.urls
  BY <1>1, <1>2
<1>4. PICK url \in Urls : url = s.url + 1
  BY <1>3 DEF Urls
<1>5. t = [s EXCEPT !.pc = "send", !.url = url, !.again = FALSE]
  BY <1>4 DEF NextUrl
<1>6. t \in State
  BY <1>5 DEF State, Pcs
<1>7. t.again = FALSE
  BY <1>5 DEF State
<1>8. t.url = s.url + 1
  BY <1>4, <1>5 DEF State
<1>9. QED
  BY <1>2, <1>5, <1>6, <1>7, <1>8
     DEF State, SameOrigin, SameBody, SameToken, SameAnswer

Answered(s, status, detail) == [s EXCEPT !.status = status, !.detail = detail]

LEMMA AnsweredType ==
  ASSUME NEW s \in State, NEW status \in Statuses,
         NEW detail \in Details,
         NEW t, t = Answered(s, status, detail)
  PROVE  /\ t \in State /\ t.pc = s.pc /\ t.status = status /\ t.detail = detail
         /\ t.shown = s.shown
         /\ SameOrigin(t, s) /\ SamePlace(t, s) /\ SameBody(t, s) /\ SameToken(t, s)
         /\ t.client = s.client
<1>1. t \in State
  BY DEF State, Answered
<1>2. QED
  BY <1>1 DEF State, Answered, SameOrigin, SamePlace, SameBody, SameToken

LEMMA RejectedType ==
  ASSUME NEW s \in State, NEW t, t = [s EXCEPT !.rejected = @ \cup {s.key}]
  PROVE  /\ t \in State /\ t.pc = s.pc /\ t.rejected = s.rejected \cup {s.key}
         /\ t.key = s.key /\ t.header = s.header
         /\ SameOrigin(t, s) /\ SamePlace(t, s) /\ SameBody(t, s) /\ SameAnswer(t, s)
         /\ t.client = s.client
<1>1. s.rejected \cup {s.key} \in TokenSets
  BY DEF State, TokenSets
<1>2. t \in State
  BY <1>1 DEF State
<1>3. QED
  BY <1>2 DEF State, SameOrigin, SamePlace, SameBody, SameAnswer

LEMMA EncodedType ==
  ASSUME NEW s \in State, NEW t, t = encoded(s)
  PROVE  /\ t \in State /\ t.pc = s.pc
         /\ t.body = s.body /\ t.wire = [body |-> s.body, zstd |-> s.header]
         /\ SameOrigin(t, s) /\ SamePlace(t, s) /\ SameToken(t, s) /\ SameAnswer(t, s)
         /\ t.client = s.client
<1>1. [body |-> s.body, zstd |-> s.header] \in Wire
  BY DEF State, Wire
<1>2. t \in State
  BY <1>1 DEF State, encoded
<1>3. QED
  BY <1>2 DEF State, encoded, SameOrigin, SamePlace, SameToken, SameAnswer

\* A body of which a part is replaced.
LEMMA BodyType ==
  ASSUME NEW s \in State, NEW pc \in Pcs, NEW body \in Body,
         NEW t, t = [s EXCEPT !.pc = pc, !.body = body]
  PROVE  /\ t \in State /\ t.pc = pc /\ t.body = body
         /\ SameOrigin(t, s) /\ SamePlace(t, s) /\ SameToken(t, s)
         /\ SameAnswer(t, s) /\ t.client = s.client
<1>1. t \in State
  BY DEF State
<1>2. QED
  BY <1>1 DEF State, SameOrigin, SamePlace, SameToken, SameAnswer

LEMMA HoldingType ==
  ASSUME NEW s \in State, NEW at \in Tokens, NEW named \in BOOLEAN,
         NEW t, t = Holding(s, at, named)
  PROVE  /\ t \in State /\ t.pc = s.pc /\ t.key = at
         /\ t.rejected = s.rejected
         /\ t.body.asks = s.body.asks /\ t.body.sealed = s.body.sealed
         /\ SameOrigin(t, s) /\ SamePlace(t, s) /\ SameAnswer(t, s)
         /\ t.client = s.client
<1> DEFINE header == named /\ scene.protocol = "responses"
           keyed == [s EXCEPT !.key = at, !.header = header]
<1>1. header \in BOOLEAN
  OBVIOUS
<1> HIDE DEF header
<1>2. keyed \in State /\ keyed.header = header
  BY <1>1 DEF State
<1>3. /\ keyed.pc = s.pc /\ keyed.key = at /\ keyed.rejected = s.rejected
      /\ keyed.body = s.body
      /\ SameOrigin(keyed, s) /\ SamePlace(keyed, s) /\ SameAnswer(keyed, s)
      /\ keyed.client = s.client
  BY <1>2 DEF State, SameOrigin, SamePlace, SameAnswer
<1>4. CASE scene.protocol # "antigravity"
  BY <1>1, <1>2, <1>3, <1>4 DEF Holding, header
<1>5. CASE scene.protocol = "antigravity"
  <2>1. t = [keyed EXCEPT !.body.project = at]
    BY <1>5 DEF Holding, header
  <2> HIDE DEF keyed
  <2> DEFINE body == [keyed.body EXCEPT !.project = at]
  <2>2. keyed.body \in Body
    BY <1>2 DEF State
  <2>3. body \in Body /\ body.asks = keyed.body.asks /\ body.sealed = keyed.body.sealed
    BY <2>2 DEF Body, Tokens
  <2>4. t = [keyed EXCEPT !.body = body]
    BY <1>2, <2>1, <2>2 DEF State
  <2> HIDE DEF body
  <2>5. t \in State
    BY <1>2, <2>3, <2>4 DEF State
  <2>6. /\ t.pc = s.pc /\ t.key = at /\ t.rejected = s.rejected
        /\ t.body = body /\ t.header = keyed.header
        /\ SameOrigin(t, s) /\ SamePlace(t, s) /\ SameAnswer(t, s)
        /\ t.client = s.client
    BY <1>2, <1>3, <2>4 DEF State, SameOrigin, SamePlace, SameAnswer
  <2>7. QED
    BY <1>1, <1>2, <1>3, <2>3, <2>5, <2>6
<1>6. QED
  BY <1>4, <1>5

LEMMA IdleType ==
  ASSUME scene \in Scenes
  PROVE  Idle \in State /\ AskedOnce(Idle.body.asks)
<1>1. /\ scene.asks \in Asks /\ scene.asks.instructions = 0 /\ scene.urls \in Nat \ {0}
  BY ScenesAssumption, AsksAssumption
<1> DEFINE body == [asks |-> scene.asks, sealed |-> {}, project |-> 0]
           wire == [body |-> body, zstd |-> FALSE]
<1>2. MaxTokens \in Nat /\ MaxReloads \in Nat
  BY BoundsAssumption
<1>3. body \in Body /\ body.asks = scene.asks
  <2>1. 0 \in 0..MaxTokens /\ {} \in SUBSET (Requests \cup {Client})
    BY <1>2
  <2>2. QED
    BY <1>1, <2>1 DEF Body
<1> HIDE DEF body
<1>4. wire \in Wire
  BY <1>3 DEF Wire
<1> HIDE DEF wire
<1>5. 1 \in 1..scene.urls /\ 0 \in 0..MaxReloads /\ 0 \in 0..MaxTokens
  BY <1>1, <1>2
<1>6. Idle = [pc |-> "idle", why |-> "round", url |-> 1,
              generation |-> 0, snapshot |-> NoRequest, body |-> body, wire |-> wire,
              key |-> 0, header |-> FALSE, client |-> NoClient, again |-> FALSE,
              status |-> 0, detail |-> "plain", rejected |-> {}, shown |-> 0]
  BY DEF Idle, body, wire
<1>7. Idle \in State
  <2>1. "idle" \in Pcs /\ "round" \in Whys /\ "plain" \in Details
    BY DEF Pcs, Whys, Details
  <2>2. FALSE \in BOOLEAN /\ NoClient \in Clients /\ {} \in TokenSets
    BY DEF NoClient, Clients, TokenSets
  <2>3. 0 \in Statuses /\ 0 \in Shown
    BY DEF Statuses, Shown
  <2>4. NoRequest \in Snapshots /\ 1 \in Urls /\ 0 \in Generations /\ 0 \in Tokens
    BY <1>5 DEF Snapshots, Urls, Generations, Tokens
  <2>5. QED
    BY <1>3, <1>4, <1>6, <2>1, <2>2, <2>3, <2>4, Zenon DEF State
<1>8. Idle.body.asks = scene.asks
  BY <1>3, <1>6
<1>9. AskedOnce(scene.asks)
  BY <1>1 DEF AskedOnce
<1>10. QED
  BY <1>7, <1>8, <1>9

LEMMA IdleShape ==
  /\ Idle.pc = "idle" /\ Idle.why = "round" /\ Idle.url = 1 /\ Idle.again = FALSE
  /\ Idle.generation = 0 /\ Idle.snapshot = NoRequest
  /\ Idle.key = 0 /\ Idle.client = 0 /\ Idle.status = 0 /\ Idle.rejected = {}
  /\ Idle.body.sealed = {} /\ Idle.shown = 0
BY DEF Idle, NoClient

LEMMA EndedType ==
  ASSUME scene \in Scenes, NEW s \in State,
         NEW status \in Shown,
         NEW t, t = Ended(s, status)
  PROVE  /\ t \in State /\ t.pc = "done" /\ t.shown = status /\ t.status = s.status
         /\ t.why = "round" /\ t.generation = 0 /\ t.snapshot = NoRequest
         /\ t.client = 0 /\ t.body = Idle.body
<1>1. t = [Idle EXCEPT !.pc = "done", !.shown = status, !.status = s.status]
  BY DEF Ended
<1>2. Idle \in State /\ s.status \in Statuses /\ "done" \in Pcs
  BY IdleType DEF State, Pcs
<1>3. t \in State
  BY <1>1, <1>2 DEF State
<1>4. QED
  BY <1>1, <1>2, <1>3, IdleShape DEF State

LEMMA BegunType ==
  ASSUME SharedType,
         NEW sealed \in SUBSET (Requests \cup {Client}),
         NEW t, t = [Idle EXCEPT !.pc = "fresh", !.generation = generation,
                                 !.snapshot = chain, !.body.sealed = sealed]
  PROVE  /\ t \in State /\ t.pc = "fresh" /\ t.why = "round" /\ t.again = FALSE
         /\ t.generation = generation /\ t.snapshot = chain
         /\ t.body.asks = Idle.body.asks
         /\ t.client = 0 /\ t.status = 0 /\ t.rejected = {}
<1> DEFINE body == [Idle.body EXCEPT !.sealed = sealed]
<1>1. Idle \in State /\ Idle.body \in Body
  BY IdleType DEF SharedType, State
<1>2. body \in Body /\ body.asks = Idle.body.asks
  BY <1>1 DEF Body
<1>3. t = [Idle EXCEPT !.pc = "fresh", !.generation = generation,
                       !.snapshot = chain, !.body = body]
  BY <1>1 DEF State
<1> HIDE DEF body
<1>4. /\ generation \in Generations /\ chain \in Snapshots
      /\ "fresh" \in Pcs
  BY DEF SharedType, Pcs, Generations, Snapshots
<1>5. t \in State
  BY <1>1, <1>2, <1>3, <1>4 DEF State
<1>6. QED
  BY <1>1, <1>2, <1>3, <1>5, IdleShape DEF State
-----------------------------------------------------------------------------
(***************************************************************************)
(* An error that is looked at, at first or after one of the repetitions    *)
(* it may lead to.                                                         *)
(***************************************************************************)
Looks == {"round", "frame", "auth", "unfit", "clear", "trim"}

\* t is s, at the next thing its error is looked at for.
LookedAfter(t, s, after) ==
  /\ t \in State
  /\ SameOrigin(t, s) /\ SamePlace(t, s) /\ SameBody(t, s) /\ SameToken(t, s)
  /\ SameAnswer(t, s) /\ t.client = s.client
  /\ t.pc \in {"auth", "unfit", "clear", "trim", "answer"}
  /\ t.pc = "auth" => after \in {"round", "frame"} /\ s.status = 401 /\ scene.oauth
  /\ t.pc = "unfit" => /\ after \in {"round", "frame", "auth"}
                       /\ Refusal(s) /\ s.detail \in Kinds
  /\ t.pc \in {"clear", "trim"} => after # "trim"
  /\ t.pc = "trim" => scene.protocol = "responses"
  /\ t.pc \in {"unfit", "clear", "trim"} => s.status \in {400, 422}
  /\ t.pc = "clear" => after # "clear"
  /\ t.pc \in {"clear", "trim", "answer"}
       => ~(Refusal(s) /\ s.detail \in Kinds) \/ after \in {"unfit", "clear", "trim"}
  /\ t.pc = "answer" /\ s.status = 400 /\ s.detail = "signature"
       => \/ after = "clear" \/ after = "trim"
          \/ ~Stateful \/ s.body.sealed = {}

LEMMA LookedType ==
  ASSUME NEW s \in State, NEW after \in Looks
  PROVE  LookedAfter(Looked(s, after), s, after)
<1> DEFINE t == Looked(s, after)
<1>0. after \in {"round", "frame", "auth", "unfit", "clear", "trim"}
  BY DEF Looks
<1>1. PICK n \in 1..5 :
           /\ From(after) <= n
           /\ Applies(Gates[n], s)
           /\ \A m \in 1..4 : From(after) <= m /\ m < n => ~Applies(Gates[m], s)
           /\ Looked(s, after) = [s EXCEPT !.pc = Gates[n]]
  BY <1>0, LookedAt, Zenon
<1>13. t = Looked(s, after)
  OBVIOUS
<1> HIDE DEF t
<1>2. Gates[n] \in Pcs /\ Gates[n] \in {"auth", "unfit", "clear", "trim", "answer"}
  BY DEF Gates, Pcs
<1>3. /\ t \in State /\ t.pc = Gates[n]
      /\ SameOrigin(t, s) /\ SamePlace(t, s) /\ SameBody(t, s) /\ SameToken(t, s)
      /\ SameAnswer(t, s) /\ t.client = s.client
  BY <1>1, <1>2, <1>13, GoesType
<1>4. /\ after \in {"round", "frame"} <=> From(after) = 1
      /\ after = "auth" <=> From(after) = 2
      /\ after = "unfit" <=> From(after) = 3
      /\ after = "clear" <=> From(after) = 4
      /\ after = "trim" <=> From(after) = 5
      /\ From(after) \in 1..5
  BY <1>0 DEF From
<1>5. /\ Gates[n] = "auth" <=> n = 1
      /\ Gates[n] = "unfit" <=> n = 2
      /\ Gates[n] = "clear" <=> n = 3
      /\ Gates[n] = "trim" <=> n = 4
      /\ Gates[n] = "answer" <=> n = 5
  BY DEF Gates
<1>6. t.pc = "auth" => after \in {"round", "frame"} /\ s.status = 401 /\ scene.oauth
  <2> SUFFICES ASSUME n = 1
               PROVE  after \in {"round", "frame"} /\ s.status = 401 /\ scene.oauth
    BY <1>3, <1>5
  <2>1. Applies(Gates[1], s) /\ From(after) = 1
    BY <1>1, <1>4
  <2>2. QED
    BY <1>4, <2>1, AppliesTo
<1>7. t.pc = "unfit" => /\ after \in {"round", "frame", "auth"}
                       /\ Refusal(s) /\ s.detail \in Kinds
  <2> SUFFICES ASSUME n = 2
               PROVE  /\ after \in {"round", "frame", "auth"}
                      /\ Refusal(s) /\ s.detail \in Kinds
    BY <1>3, <1>5
  <2>1. Applies(Gates[2], s) /\ From(after) \in 1..2
    BY <1>1, <1>4
  <2>2. Refusal(s) /\ s.detail \in Kinds
    BY <2>1, AppliesTo
  <2>3. QED
    BY <1>4, <2>1, <2>2
<1>8. /\ t.pc \in {"clear", "trim"} => after # "trim"
      /\ t.pc = "trim" => scene.protocol = "responses"
      /\ t.pc \in {"unfit", "clear", "trim"} => s.status \in {400, 422}
  <2>1. n \in {3, 4} => after # "trim"
    BY <1>1, <1>4
  <2>2. n = 4 => scene.protocol = "responses" /\ Refusal(s)
    BY <1>1, AppliesTo
  <2>3. n = 2 => Refusal(s)
    BY <1>1, AppliesTo
  <2>4. n = 3 => s.status \in {400, 422}
    BY <1>1, AppliesTo DEF Refusal
  <2>5. QED
    BY <1>3, <1>5, <2>1, <2>2, <2>3, <2>4 DEF Refusal
<1>9. t.pc \in {"clear", "trim", "answer"}
        => ~(Refusal(s) /\ s.detail \in Kinds) \/ after \in {"unfit", "clear", "trim"}
  <2> SUFFICES ASSUME n \in 3..5, after \notin {"unfit", "clear", "trim"}
               PROVE  ~(Refusal(s) /\ s.detail \in Kinds)
    BY <1>3, <1>5
  <2>1. From(after) <= 2 /\ 2 < n
    BY <1>4
  <2>2. ~Applies(Gates[2], s)
    BY <1>1, <2>1
  <2>3. QED
    BY <2>2, AppliesTo
<1>10. t.pc = "answer" /\ s.status = 400 /\ s.detail = "signature"
         => \/ after = "clear" \/ after = "trim"
            \/ ~Stateful \/ s.body.sealed = {}
  <2> SUFFICES ASSUME t.pc = "answer", s.status = 400, s.detail = "signature",
                      after # "clear", after # "trim", Stateful
               PROVE  s.body.sealed = {}
    OBVIOUS
  <2>1. n = 5 /\ From(after) <= 3
    BY <1>3, <1>4, <1>5
  <2>2. ~Applies(Gates[3], s) /\ ~Applies(Gates[4], s)
    BY <1>1, <1>4, <2>1
  <2>3. Refusal(s)
    BY DEF Refusal
  <2>4. QED
    BY <2>2, <2>3, AppliesTo DEF Stateful
<1>11. t.pc = "clear" => after # "clear"
  BY <1>1, <1>3, <1>4, <1>5
<1>12. QED
  BY <1>2, <1>3, <1>6, <1>7, <1>8, <1>9, <1>10, <1>11 DEF LookedAfter, t
-----------------------------------------------------------------------------
(***************************************************************************)
(* A step takes one request to another state, and may change what it       *)
(* shares in ways that do not disturb the others.                          *)
(***************************************************************************)
Moves(r, s) ==
  /\ Set(r, s)
  /\ request[r].pc # "done"
  /\ UNCHANGED <<scene, generation>>
  /\ token' \in 1..MaxTokens /\ token <= token' /\ s.key <= token'
  /\ account' \in BOOLEAN /\ marks' \subseteq Kinds

\* The chain is dropped, or the request stores one, and is over.
ChainMoves(r, s) ==
  \/ chain' = chain
  \/ chain' = NoRequest
  \/ chain' = r /\ s.pc = "done" /\ Stateful

\* A client leaves the pool, or one is built.
PoolMoves ==
  /\ stale' \in 0..scene.dead /\ stale <= stale'
  /\ pool' \in [BOOLEAN -> Nat]
  /\ \A h \in BOOLEAN : pool'[h] \in {pool[h], NoClient, stale + 1}

RelayStep(r, s) ==
  /\ Moves(r, s) /\ ChainMoves(r, s) /\ PoolMoves
  /\ Alone(s)
  /\ Shared(s, chain', generation, pool', stale')
  /\ s.snapshot \in {request[r].snapshot, chain, NoRequest}

LEMMA NoRequestApart == NoRequest \notin Requests
BY RequestsAssumption

LEMMA DeadNat ==
  ASSUME SharedType
  PROVE  scene.dead \in Nat /\ stale \in Nat /\ scene.urls \in Nat \ {0}
BY ScenesAssumption DEF SharedType

LEMMA Below ==
  ASSUME NEW n \in Nat
  PROVE  0 <= n + 1
OBVIOUS

LEMMA OthersUndisturbed ==
  ASSUME RelayInv, NEW r \in Requests, NEW s, RelayStep(r, s), NEW q \in Requests, q # r
  PROVE  Shared(request[q], chain', generation, pool', stale')
<1> DEFINE o == request[q]
<1>1. /\ ChainSound(o, chain) /\ AdaptSound(o, generation) /\ PoolSound(o, pool, stale)
      /\ o \in State
  BY DEF RelayInv, Shared, Alone
<1>2. ChainSound(o, chain')
  <2>1. Dropped(o, chain) => Dropped(o, chain')
    <3>1. CASE chain' = chain \/ o.snapshot = NoRequest
      BY <3>1 DEF Dropped
    <3>2. CASE chain' = NoRequest
      BY <3>2 DEF Dropped
    <3>3. CASE chain' = r /\ o.snapshot # NoRequest
      <4>1. o.snapshot \in Requests
        BY <1>1, <3>3 DEF State, Snapshots
      <4>2. request[o.snapshot].pc = "done" /\ request[r].pc # "done"
        BY <4>1 DEF RelayInv, ChainsOver, RelayStep, Moves
      <4>3. QED
        BY <3>3, <4>2 DEF Dropped
    <3>4. QED
      BY <3>1, <3>2, <3>3 DEF RelayStep, ChainMoves
  <2>2. QED
    BY <1>1, <2>1 DEF ChainSound
<1>3. PoolSound(o, pool', stale')
  <2>1. /\ stale \in Nat /\ stale' \in Nat /\ stale <= stale'
        /\ o.client \in Nat /\ o.client <= stale + 1
        /\ o.header \in BOOLEAN
    BY <1>1, DeadNat DEF RelayInv, SharedType, RelayStep, PoolMoves, State, PoolSound,
                           Clients
  <2>2. o.client <= stale' + 1
    BY <2>1
  <2>3. ASSUME o.pc = "send", o.again
        PROVE  o.client <= stale' /\ (pool'[o.header] = NoClient \/ pool'[o.header] > o.client)
    <3>1. /\ o.client <= stale
          /\ pool[o.header] = NoClient \/ pool[o.header] > o.client
      BY <1>1, <2>3 DEF PoolSound
    <3>2. pool'[o.header] \in {pool[o.header], NoClient, stale + 1}
      BY <2>1 DEF RelayStep, PoolMoves
    <3>3. stale + 1 > o.client /\ o.client <= stale'
      BY <2>1, <3>1
    <3>4. QED
      BY <3>1, <3>2, <3>3
  <2>4. QED
    BY <2>2, <2>3 DEF PoolSound
<1>4. QED
  BY <1>1, <1>2, <1>3 DEF Shared

LEMMA StepKeepsInv ==
  ASSUME RelayInv, NEW r \in Requests, NEW s, RelayStep(r, s)
  PROVE  RelayInv'
<1>1. /\ SharedType /\ Moves(r, s) /\ s \in State /\ scene' = scene
  BY DEF RelayInv, RelayStep, Alone, Moves
<1>2. /\ request' \in [Requests -> State]
      /\ request'[r] = s
      /\ \A q \in Requests \ {r} : request'[q] = request[q]
  BY <1>1 DEF SharedType, Moves, Set
<1>3. \A h \in BOOLEAN : pool'[h] <= stale' + 1
  <2>1. /\ stale \in Nat /\ stale' \in Nat /\ stale <= stale'
    BY <1>1, DeadNat DEF RelayStep, PoolMoves
  <2>2. ASSUME NEW h \in BOOLEAN PROVE pool'[h] <= stale' + 1
    <3>1. pool[h] \in Nat /\ pool[h] <= stale + 1
      BY <1>1 DEF SharedType
    <3>2. pool'[h] \in {pool[h], NoClient, stale + 1}
      BY DEF RelayStep, PoolMoves
    <3>3. QED
      BY <2>1, <3>1, <3>2 DEF NoClient
  <2>3. QED
    BY <2>2
<1>4. chain' \in Requests \cup {NoRequest}
  BY <1>1 DEF SharedType, RelayStep, ChainMoves
<1>5. State' = State
  BY <1>1 DEF State, Urls
<1>6. SharedType'
  BY <1>1, <1>2, <1>3, <1>4, <1>5 DEF SharedType, Moves, RelayStep, PoolMoves
<1>7. ChainsOver'
  <2>1. chain' \in Requests => request'[chain'].pc = "done"
    BY <1>1, <1>2, NoRequestApart DEF RelayInv, ChainsOver, RelayStep, ChainMoves, Moves
  <2>2. ASSUME NEW q \in Requests, request'[q].snapshot \in Requests
        PROVE  request'[request'[q].snapshot].pc = "done"
    <3>1. \/ request'[q].snapshot = chain
          \/ request'[q].snapshot = request[q].snapshot
      BY <1>2, <2>2, NoRequestApart DEF RelayStep
    <3>2. request[request'[q].snapshot].pc = "done"
      BY <2>2, <3>1 DEF RelayInv, ChainsOver
    <3>3. QED
      BY <1>1, <1>2, <2>2, <3>2 DEF Moves
  <2>3. ~Stateful => chain' = NoRequest
    BY DEF RelayInv, ChainsOver, RelayStep, ChainMoves
  <2>4. QED
    BY <1>1, <2>1, <2>2, <2>3 DEF ChainsOver, Stateful
<1>8. \A q \in Requests : Alone(request'[q])
  BY <1>2 DEF RelayInv, RelayStep
<1>9. ASSUME NEW q \in Requests PROVE Alone(request[q])'
  <2>1. request'[q] \in State'
    BY <1>2, <1>5
  <2>2. Alone(request'[q])
    BY <1>8
  <2>3. Wired(request[q])' /\ Keyed(request[q])' /\ AskedOnce(request[q].body.asks)'
    BY <2>2 DEF Alone, Wired, Keyed, AskedOnce
  <2>4. Reasoned(request[q])'
    BY <1>1, <2>2 DEF Alone, Reasoned, Refusal
  <2>5. ToldRight(request[q])'
    BY <1>1, <2>2 DEF Alone, ToldRight
  <2>6. QED
    BY <2>1, <2>3, <2>4, <2>5 DEF Alone
<1>10. \A q \in Requests : Shared(request'[q], chain', generation, pool', stale')
  BY <1>2, OthersUndisturbed DEF RelayStep
<1>11. ASSUME NEW q \in Requests
       PROVE  Shared(request[q], chain, generation, pool, stale)'
  <2>1. /\ ChainSound(request'[q], chain') /\ AdaptSound(request'[q], generation)
        /\ PoolSound(request'[q], pool', stale') /\ generation' = generation
    BY <1>1, <1>10 DEF Shared, Moves
  <2>2. ChainSound(request[q], chain)'
    BY <1>1, <2>1 DEF ChainSound, Dropped, Stateful
  <2>3. AdaptSound(request[q], generation)'
    BY <1>1, <2>1 DEF AdaptSound, Refusal, adapted, refusesFormat, offRefused,
                      toolChoiceRefused, toolsWithoutEffort, Adapts
  <2>4. PoolSound(request[q], pool, stale)'
    BY <2>1 DEF PoolSound
  <2>5. QED
    BY <2>2, <2>3, <2>4 DEF Shared
<1>12. KeysIssued'
  <2>1. /\ token \in Nat /\ token' \in Nat /\ token <= token' /\ s.key <= token'
    BY <1>1, BoundsAssumption DEF SharedType, Moves
  <2>2. ASSUME NEW q \in Requests PROVE request'[q].key <= token'
    <3>1. request[q].key \in Nat /\ request[q].key <= token
      BY <1>1, BoundsAssumption DEF RelayInv, KeysIssued, SharedType, State, Tokens
    <3>2. QED
      BY <1>2, <2>1, <3>1
  <2>3. QED
    BY <2>2 DEF KeysIssued
<1>13. QED
  BY <1>6, <1>7, <1>9, <1>11, <1>12 DEF RelayInv

\* Nothing is changed but the request.
LEMMA QuietMoves ==
  ASSUME RelayInv, NEW r \in Requests, NEW s, Set(r, s), request[r].pc # "done",
         UNCHANGED <<scene, shared>>, s.key \in {request[r].key, 0}
  PROVE  Moves(r, s) /\ ChainMoves(r, s) /\ PoolMoves
<1>1. UNCHANGED <<scene, token, account, pool, stale, marks, generation, chain>>
  BY DEF shared
<1>2. /\ token \in 1..MaxTokens /\ account \in BOOLEAN /\ marks \subseteq Kinds
      /\ request[r].key <= token /\ token \in Nat
  BY BoundsAssumption DEF RelayInv, SharedType, KeysIssued
<1>3. token <= token /\ 0 <= token
  BY <1>2
<1>4. /\ stale \in 0..scene.dead /\ stale <= stale
      /\ pool \in [BOOLEAN -> Nat]
  BY DeadNat DEF RelayInv, SharedType
<1>5. QED
  BY <1>1, <1>2, <1>3, <1>4 DEF Moves, ChainMoves, PoolMoves

\* A request that is over.
LEMMA EndedStep ==
  ASSUME RelayInv, NEW r \in Requests, NEW b \in State,
         NEW status \in Shown,
         NEW s, s = Ended(b, status),
         Moves(r, s), ChainMoves(r, s), PoolMoves,
         \/ status \in {0, 500, 502}
         \/ status = b.status
         \/ scene.oauth /\ b.status \in {0, 401} /\ status \in {400, 401}
  PROVE  RelayInv'
<1>1. scene \in Scenes
  BY DEF RelayInv, SharedType
<1>2. /\ s \in State /\ s.pc = "done" /\ s.shown = status /\ s.status = b.status
      /\ s.why = "round" /\ s.generation = 0 /\ s.snapshot = NoRequest
      /\ s.client = 0 /\ s.body = Idle.body
  BY <1>1, EndedType
<1>3. Alone(s)
  <2>1. AskedOnce(s.body.asks)
    BY <1>1, <1>2, IdleType
  <2>2. Wired(s) /\ Keyed(s) /\ Reasoned(s)
    BY <1>2 DEF Wired, Keyed, Reasoned
  <2>3. ToldRight(s)
    BY <1>2 DEF ToldRight
  <2>4. QED
    BY <1>2, <2>1, <2>2, <2>3 DEF Alone
<1>4. Shared(s, chain', generation, pool', stale')
  <2>1. ChainSound(s, chain')
    BY <1>2 DEF ChainSound
  <2>2. generation \in Nat /\ stale' \in Nat
    BY DeadNat, BoundsAssumption DEF RelayInv, SharedType, PoolMoves
  <2>3. AdaptSound(s, generation)
    BY <1>2, <2>2 DEF AdaptSound
  <2>4. PoolSound(s, pool', stale')
    <3>1. 0 <= stale' + 1
      BY <2>2, Below
    <3>2. QED
      BY <1>2, <3>1 DEF PoolSound
  <2>5. QED
    BY <2>1, <2>3, <2>4 DEF Shared
<1>5. QED
  BY <1>2, <1>3, <1>4, StepKeepsInv DEF RelayStep

LEMMA EndedKey ==
  ASSUME NEW s, NEW status
  PROVE  Ended(s, status).key = 0
BY DEF Ended, Idle

LEMMA EndsKeepInv ==
  ASSUME RelayInv, NEW r \in Requests,
         NEW status \in Shown,
         Set(r, Ended(request[r], status)), request[r].pc # "done",
         UNCHANGED <<scene, shared>>,
         \/ status \in {0, 500, 502}
         \/ status = request[r].status
         \/ scene.oauth /\ request[r].status \in {0, 401} /\ status \in {400, 401}
  PROVE  RelayInv'
<1> DEFINE s == Ended(request[r], status)
<1>1. s.key \in {request[r].key, 0}
  BY EndedKey
<1>2. Set(r, s) /\ s = Ended(request[r], status)
  OBVIOUS
<1> HIDE DEF s
<1>3. Moves(r, s) /\ ChainMoves(r, s) /\ PoolMoves
  BY <1>1, <1>2, QuietMoves
<1>4. request[r] \in State
  BY DEF RelayInv, Alone
<1>5. QED
  BY <1>2, <1>3, <1>4, EndedStep

LEMMA OfRequest ==
  ASSUME RelayInv, NEW r \in Requests
  PROVE  /\ SharedType /\ scene \in Scenes
         /\ request[r] \in State /\ Wired(request[r]) /\ Keyed(request[r])
         /\ Reasoned(request[r]) /\ AskedOnce(request[r].body.asks)
         /\ ChainSound(request[r], chain) /\ AdaptSound(request[r], generation)
         /\ PoolSound(request[r], pool, stale) /\ request[r].key <= token
BY DEF RelayInv, Alone, Shared, SharedType, KeysIssued

LEMMA QuietKeepsInv ==
  ASSUME RelayInv, NEW r \in Requests, NEW s, Set(r, s), request[r].pc # "done",
         UNCHANGED <<scene, shared>>, s.key = request[r].key,
         s.snapshot = request[r].snapshot,
         Alone(s), ChainSound(s, chain), AdaptSound(s, generation), PoolSound(s, pool, stale)
  PROVE  RelayInv'
<1>1. Moves(r, s) /\ ChainMoves(r, s) /\ PoolMoves
  BY QuietMoves
<1>2. UNCHANGED <<chain, generation, pool, stale>>
  BY DEF shared
<1>3. QED
  BY <1>1, <1>2, StepKeepsInv DEF RelayStep, Shared
-----------------------------------------------------------------------------
(***************************************************************************)
(* prepare_message_request, and the pool.                                  *)
(***************************************************************************)
LEMMA BeginKeepsInv ==
  ASSUME RelayInv, NEW r \in Requests, Begin(r)
  PROVE  RelayInv'
<1> DEFINE sealed == scene.sealed \cup Replayed
           s == [Idle EXCEPT !.pc = "fresh", !.generation = generation,
                             !.snapshot = chain, !.body.sealed = sealed]
<1>1. /\ Set(r, s) /\ request[r].pc = "idle" /\ UNCHANGED <<scene, shared>>
  BY DEF Begin
<1>2. SharedType /\ scene \in Scenes
  BY OfRequest
<1>3. sealed \in SUBSET (Requests \cup {Client})
  <2>1. scene.sealed \subseteq {Client}
    BY <1>2, ScenesAssumption
  <2>2. Replayed \subseteq Requests
    BY <1>2 DEF Replayed, SharedType
  <2>3. QED
    BY <2>1, <2>2
<1> HIDE DEF sealed
<1>4. s.key = 0
  BY DEF Idle
<1>5. s = [Idle EXCEPT !.pc = "fresh", !.generation = generation,
                       !.snapshot = chain, !.body.sealed = sealed]
  OBVIOUS
<1> HIDE DEF s
<1>6. /\ s \in State /\ s.pc = "fresh" /\ s.why = "round" /\ s.again = FALSE
      /\ s.generation = generation /\ s.snapshot = chain
      /\ s.body.asks = Idle.body.asks
      /\ s.client = 0 /\ s.status = 0 /\ s.rejected = {}
  BY <1>2, <1>3, <1>5, BegunType
<1>7. Moves(r, s) /\ ChainMoves(r, s) /\ PoolMoves
  BY <1>1, <1>4, QuietMoves
<1>8. Alone(s)
  <2>1. AskedOnce(s.body.asks)
    BY <1>2, <1>6, IdleType
  <2>2. Wired(s) /\ Keyed(s) /\ Reasoned(s) /\ ToldRight(s)
    BY <1>6 DEF Wired, Keyed, Reasoned, ToldRight
  <2>3. QED
    BY <1>6, <2>1, <2>2 DEF Alone
<1>9. Shared(s, chain', generation, pool', stale')
  <2>1. UNCHANGED <<chain, pool, stale>>
    BY <1>1 DEF shared
  <2>2. ChainSound(s, chain)
    BY <1>6 DEF ChainSound, RelayInv, ChainsOver
  <2>3. generation <= generation /\ 0 <= stale + 1
    BY <1>2, DeadNat, BoundsAssumption DEF SharedType
  <2>4. AdaptSound(s, generation) /\ PoolSound(s, pool, stale)
    BY <1>6, <2>3 DEF AdaptSound, PoolSound
  <2>5. QED
    BY <2>1, <2>2, <2>4 DEF Shared
<1>10. QED
  BY <1>6, <1>7, <1>8, <1>9, StepKeepsInv DEF RelayStep

\* ensure_credential_fresh returns a token that was issued, and not the one
\* that was rejected.
LEMMA RefreshedToken ==
  ASSUME RelayInv, NEW rejected \in Tokens, rejected <= token, Refreshed(rejected)
  PROVE  /\ token' \in 1..MaxTokens /\ token <= token' /\ token' <= token'
         /\ token' # rejected /\ token' \in Tokens
         /\ account' \in BOOLEAN
<1>1. /\ token \in 1..MaxTokens /\ MaxTokens \in Nat /\ account \in BOOLEAN
      /\ rejected \in Nat
  BY BoundsAssumption DEF RelayInv, SharedType, Tokens
<1>2. CASE token # rejected /\ UNCHANGED <<token, account>>
  BY <1>1, <1>2 DEF Tokens
<1>3. CASE token < MaxTokens /\ token' = token + 1 /\ account' \in {account, TRUE}
  <2>1. token' \in 1..MaxTokens /\ token' > token
    BY <1>1, <1>3
  <2>2. account' \in BOOLEAN
    BY <1>1, <1>3
  <2>3. QED
    BY <1>1, <2>1, <2>2 DEF Tokens
<1>4. QED
  BY <1>2, <1>3 DEF Refreshed

Asked(s, pc, asks) == [s EXCEPT !.pc = pc, !.body.asks = asks]

\* t is s, about to go where pc says, with what it asks for changed.
AskedAfter(t, s, pc) ==
  /\ t \in State /\ t.pc = pc /\ AskedOnce(t.body.asks)
  /\ t.body.sealed = s.body.sealed
  /\ SameOrigin(t, s) /\ SamePlace(t, s) /\ SameToken(t, s)
  /\ SameAnswer(t, s) /\ t.client = s.client

\* The body with what it asks for adapted to the marks.
LEMMA AskedType ==
  ASSUME NEW s \in State, AskedOnce(s.body.asks), NEW kinds \in SUBSET Kinds,
         NEW protocol, NEW pc \in Pcs
  PROVE  AskedAfter(Asked(s, pc, adapted(s.body.asks, kinds, protocol)), s, pc)
<1> DEFINE t == Asked(s, pc, adapted(s.body.asks, kinds, protocol))
<1> DEFINE asked == adapted(s.body.asks, kinds, protocol)
           body == [s.body EXCEPT !.asks = asked]
<1>1. s.body \in Body /\ s.body.asks \in Asks
  BY DEF State, Body
<1>2. asked \in Asks /\ AskedOnce(asked)
  BY <1>1, AdaptedAsks
<1> HIDE DEF asked
<1>3. body \in Body /\ body.asks = asked /\ body.sealed = s.body.sealed
  BY <1>1, <1>2 DEF Body
<1>4. t = [s EXCEPT !.pc = pc, !.body = body]
  BY DEF State, asked, Asked
<1> HIDE DEF body, t
<1>5. /\ t \in State /\ t.pc = pc /\ t.body = body
      /\ SameOrigin(t, s) /\ SamePlace(t, s) /\ SameToken(t, s)
      /\ SameAnswer(t, s) /\ t.client = s.client
  BY <1>3, <1>4 DEF State, SameOrigin, SamePlace, SameToken, SameAnswer
<1>6. QED
  BY <1>2, <1>3, <1>5 DEF AskedAfter, t

\* A request that is sent, for the first time or again: what it sends is
\* encoded, and its token not rejected.
LEMMA SendsSound ==
  ASSUME RelayInv, NEW r \in Requests, NEW s \in State, s.pc = "send", s.again = FALSE,
         SameOrigin(s, request[r]), s.client = request[r].client,
         Moves(r, s), ChainMoves(r, s), PoolMoves,
         s.wire = [body |-> s.body, zstd |-> s.header],
         s.key \notin s.rejected, s.why \in {"round", "frame"} => s.rejected = {},
         s.why = "trim" => scene.protocol = "responses" /\ s.body.sealed = {}
                           /\ Dropped(s, chain'),
         AskedOnce(s.body.asks)
  PROVE  RelayInv'
<1>1. Alone(s)
  BY DEF Alone, Wired, Keyed, Reasoned, ToldRight
<1>2. ChainSound(s, chain')
  BY OfRequest DEF ChainSound, SameOrigin
<1>3. AdaptSound(s, generation)
  BY OfRequest DEF AdaptSound, SameOrigin
<1>4. PoolSound(s, pool', stale')
  <2>1. /\ request[r].client <= stale + 1 /\ request[r].client \in Nat
        /\ stale \in Nat /\ stale' \in Nat /\ stale <= stale'
    BY OfRequest, DeadNat DEF PoolSound, State, PoolMoves, Clients
  <2>2. s.client <= stale' + 1
    BY <2>1
  <2>3. QED
    BY <2>2 DEF PoolSound
<1>5. QED
  BY <1>1, <1>2, <1>3, <1>4, StepKeepsInv DEF RelayStep, Shared, SameOrigin

LEMMA FreshKeepsInv ==
  ASSUME RelayInv, NEW r \in Requests, Fresh(r)
  PROVE  RelayInv'
<1> DEFINE q == request[r]
           s(at, named) ==
             LET held  == Holding(q, at, named)
                 asked == adapted(held.body.asks, marks, scene.protocol) IN
             encoded([held EXCEPT !.pc = "send", !.body.asks = asked])
<1>1. /\ q.pc = "fresh" /\ UNCHANGED <<scene, pool, stale, marks, generation, chain>>
      /\ q \in State /\ q.status = 0 /\ q.why = "round" /\ q.again = FALSE
      /\ q.rejected = {} /\ AskedOnce(q.body.asks) /\ SharedType
  BY OfRequest DEF Fresh, Reasoned, Keyed, State
<1>2. ASSUME NEW at \in Tokens, NEW named \in BOOLEAN, Set(r, s(at, named)),
             token' \in 1..MaxTokens, token <= token', at <= token', account' \in BOOLEAN
      PROVE  RelayInv'
  <2> DEFINE held == Holding(q, at, named)
             asked == [held EXCEPT !.pc = "send",
                                   !.body.asks = adapted(held.body.asks, marks, scene.protocol)]
             t == encoded(asked)
  <2>1. t = s(at, named)
    OBVIOUS
  <2> HIDE DEF t, s
  <2>2. held = Holding(q, at, named)
    OBVIOUS
  <2>3. asked = Asked(held, "send", adapted(held.body.asks, marks, scene.protocol))
    BY DEF Asked
  <2> HIDE DEF held, asked
  <2>4. /\ held \in State /\ held.pc = q.pc /\ held.key = at
        /\ held.rejected = q.rejected
        /\ held.body.asks = q.body.asks /\ held.body.sealed = q.body.sealed
        /\ SameOrigin(held, q) /\ SamePlace(held, q) /\ SameAnswer(held, q)
        /\ held.client = q.client
    BY <1>1, <2>2, HoldingType
  <2>5. /\ asked \in State /\ asked.pc = "send" /\ AskedOnce(asked.body.asks)
        /\ SameOrigin(asked, held) /\ SamePlace(asked, held) /\ SameToken(asked, held)
        /\ SameAnswer(asked, held) /\ asked.client = held.client
    <3>1. marks \in SUBSET Kinds /\ "send" \in Pcs
      BY <1>1 DEF SharedType, Pcs
    <3>2. AskedOnce(held.body.asks)
      BY <1>1, <2>4
    <3>3. QED
      BY <2>3, <2>4, <3>1, <3>2, AskedType DEF AskedAfter
  <2>6. /\ t \in State /\ t.pc = asked.pc
        /\ t.body = asked.body /\ t.wire = [body |-> asked.body, zstd |-> asked.header]
        /\ SameOrigin(t, asked) /\ SamePlace(t, asked) /\ SameToken(t, asked)
        /\ SameAnswer(t, asked) /\ t.client = asked.client
    BY <2>5, EncodedType DEF t
  <2>7. /\ t.pc = "send" /\ t.why = "round" /\ t.again = FALSE
        /\ t.wire = [body |-> t.body, zstd |-> t.header]
        /\ t.key = at /\ t.rejected = {} /\ AskedOnce(t.body.asks)
        /\ SameOrigin(t, q) /\ t.client = q.client
    BY <1>1, <2>4, <2>5, <2>6 DEF SameOrigin, SamePlace, SameToken
  <2>8. Moves(r, t) /\ ChainMoves(r, t) /\ PoolMoves
    <3>1. Set(r, t)
      BY <1>2, <2>1
    <3>2. /\ stale \in 0..scene.dead /\ stale <= stale /\ pool \in [BOOLEAN -> Nat]
          /\ marks \subseteq Kinds
      BY <1>1, DeadNat DEF SharedType
    <3>3. QED
      BY <1>1, <1>2, <2>7, <3>1, <3>2 DEF Moves, ChainMoves, PoolMoves
  <2>9. QED
    BY <2>6, <2>7, <2>8, SendsSound
<1>3. CASE scene.oauth /\ Refreshed(0) /\ Set(r, s(token', account'))
  <2>1. 0 \in Tokens /\ 0 <= token
    BY <1>1, BoundsAssumption DEF SharedType, Tokens
  <2>2. /\ token' \in 1..MaxTokens /\ token <= token' /\ token' <= token'
        /\ token' \in Tokens /\ account' \in BOOLEAN
    BY <1>3, <2>1, RefreshedToken
  <2>3. QED
    BY <1>2, <1>3, <2>2
<1>4. CASE ~scene.oauth /\ Set(r, s(token, FALSE)) /\ UNCHANGED <<token, account>>
  <2>1. /\ token \in 1..MaxTokens /\ token <= token /\ token \in Tokens
        /\ account \in BOOLEAN /\ FALSE \in BOOLEAN
    BY <1>1, BoundsAssumption DEF SharedType, Tokens
  <2> HIDE DEF s
  <2>2. QED
    BY <1>2, <1>4, <2>1
<1>5. CASE scene.oauth /\ UNCHANGED <<token, account>>
           /\ (Set(r, Ended(q, 401)) \/ Set(r, Ended(q, 400)))
  <2>1. UNCHANGED <<scene, shared>>
    BY <1>1, <1>5 DEF shared
  <2>2. QED
    BY <1>1, <1>5, <2>1, EndsKeepInv DEF Shown
<1>6. QED
  BY <1>3, <1>4, <1>5 DEF Fresh
-----------------------------------------------------------------------------
(***************************************************************************)
(* The connections.                                                        *)
(***************************************************************************)
LEMMA Moving ==
  ASSUME RelayInv, NEW r \in Requests, NEW s, Set(r, s), request[r].pc # "done",
         UNCHANGED <<scene, token, account, generation>>, marks' \subseteq Kinds,
         s.key \in {request[r].key, 0}
  PROVE  Moves(r, s)
<1>1. /\ token \in 1..MaxTokens /\ account \in BOOLEAN
      /\ request[r].key <= token /\ token \in Nat
  BY BoundsAssumption DEF RelayInv, SharedType, KeysIssued
<1>2. token <= token /\ 0 <= token
  BY <1>1
<1>3. QED
  BY <1>1, <1>2 DEF Moves

LEMMA PoolStays ==
  ASSUME RelayInv, UNCHANGED <<scene, pool, stale>>
  PROVE  PoolMoves
<1>1. /\ stale \in 0..scene.dead /\ stale <= stale /\ pool \in [BOOLEAN -> Nat]
  BY DeadNat DEF RelayInv, SharedType
<1>2. QED
  BY <1>1 DEF PoolMoves

LEMMA SendKeepsInv ==
  ASSUME RelayInv, NEW r \in Requests, Send(r)
  PROVE  RelayInv'
<1> DEFINE q == request[r]
           client == client_for(q.header)
           s == [q EXCEPT !.pc = "wait", !.client = client]
<1>1. /\ q \in State /\ SharedType /\ Wired(q) /\ Keyed(q) /\ Reasoned(q)
      /\ AskedOnce(q.body.asks) /\ ChainSound(q, chain) /\ AdaptSound(q, generation)
      /\ q.pc = "send" /\ q.header \in BOOLEAN
  BY OfRequest DEF Send, State
<1>2. /\ pool' = [pool EXCEPT ![q.header] = client] /\ Set(r, s)
      /\ UNCHANGED <<scene, token, account, stale, marks, generation, chain>>
  BY DEF Send
<1>3. stale \in Nat /\ stale \in 0..scene.dead /\ pool \in [BOOLEAN -> Nat]
  BY <1>1, DeadNat DEF SharedType
<1>4. client \in {pool[q.header], stale + 1} /\ client \in Nat /\ client <= stale + 1
  <2>1. client \in {pool[q.header], stale + 1}
    BY DEF client_for
  <2>2. pool[q.header] \in Nat /\ pool[q.header] <= stale + 1
    BY <1>1 DEF SharedType
  <2> HIDE DEF client
  <2>3. QED
    BY <1>3, <2>1, <2>2
<1> HIDE DEF client
<1>5. client \in Clients
  BY <1>4 DEF Clients
<1>6. s = [q EXCEPT !.pc = "wait", !.client = client]
  OBVIOUS
<1> HIDE DEF s
<1>7. /\ s \in State /\ s.pc = "wait" /\ s.client = client
      /\ SameOrigin(s, q) /\ SamePlace(s, q) /\ SameBody(s, q) /\ SameToken(s, q)
      /\ SameAnswer(s, q)
  <2>1. s \in State
    BY <1>1, <1>5, <1>6 DEF State, Pcs
  <2>2. QED
    BY <1>1, <1>6, <2>1
       DEF State, SameOrigin, SamePlace, SameBody, SameToken, SameAnswer
<1>8. PoolMoves
  <2>1. pool' \in [BOOLEAN -> Nat]
    BY <1>2, <1>3, <1>4
  <2>2. \A h \in BOOLEAN : pool'[h] \in {pool[h], NoClient, stale + 1}
    BY <1>2, <1>3, <1>4
  <2>3. QED
    BY <1>2, <1>3, <2>1, <2>2 DEF PoolMoves
<1>9. Moves(r, s)
  <2>1. marks' \subseteq Kinds
    BY <1>1, <1>2 DEF SharedType
  <2>2. QED
    BY <1>1, <1>2, <1>7, <2>1, Moving DEF SameToken
<1>10. Alone(s)
  <2>1. Wired(s) /\ Keyed(s)
    BY <1>1, <1>7 DEF Wired, Keyed, SameBody, SameToken, SamePlace
  <2>2. Reasoned(s) /\ AskedOnce(s.body.asks) /\ ToldRight(s)
    BY <1>1, <1>7 DEF Reasoned, ToldRight, SamePlace, SameBody
  <2>3. QED
    BY <1>7, <2>1, <2>2 DEF Alone
<1>11. ChainSound(s, chain) /\ AdaptSound(s, generation)
  BY <1>1, <1>7 DEF ChainSound, AdaptSound, Dropped, SameOrigin, SamePlace
<1>12. PoolSound(s, pool', stale')
  BY <1>2, <1>4, <1>7 DEF PoolSound
<1>13. QED
  BY <1>2, <1>7, <1>8, <1>9, <1>10, <1>11, <1>12, StepKeepsInv
     DEF RelayStep, ChainMoves, Shared, SameOrigin

LEMMA RedialKeepsInv ==
  ASSUME RelayInv, NEW r \in Requests, Redial(r)
  PROVE  RelayInv'
<1> DEFINE q == request[r]
           s == [q EXCEPT !.pc = "send", !.again = TRUE]
<1>1. /\ q \in State /\ SharedType /\ Wired(q) /\ Keyed(q) /\ Reasoned(q)
      /\ AskedOnce(q.body.asks) /\ ChainSound(q, chain) /\ AdaptSound(q, generation)
      /\ q.pc = "wait" /\ q.header \in BOOLEAN
  BY OfRequest DEF Redial, State
<1>2. /\ stale < scene.dead /\ stale' = stale + 1
      /\ pool' = [pool EXCEPT ![q.header] = NoClient] /\ Set(r, s)
      /\ UNCHANGED <<scene, token, account, marks, generation, chain>>
  BY DEF Redial, drop_pooled_client
<1>3. stale \in Nat /\ scene.dead \in Nat /\ pool \in [BOOLEAN -> Nat]
  BY <1>1, DeadNat DEF SharedType
<1>4. s = [q EXCEPT !.pc = "send", !.again = TRUE]
  OBVIOUS
<1> HIDE DEF s
<1>5. /\ s \in State /\ s.pc = "send" /\ s.why = q.why /\ s.again = TRUE
      /\ SameOrigin(s, q) /\ SameBody(s, q) /\ SameToken(s, q)
      /\ SameAnswer(s, q) /\ s.client = q.client
  BY <1>1, <1>4, RedialType
<1>6. PoolMoves
  <2>1. stale' \in 0..scene.dead /\ stale <= stale'
    BY <1>2, <1>3
  <2>2. pool' \in [BOOLEAN -> Nat]
    BY <1>2, <1>3 DEF NoClient
  <2>3. \A h \in BOOLEAN : pool'[h] \in {pool[h], NoClient, stale + 1}
    BY <1>2, <1>3
  <2>4. QED
    BY <1>2, <2>1, <2>2, <2>3 DEF PoolMoves
<1>7. Moves(r, s)
  <2>1. marks' \subseteq Kinds
    BY <1>1, <1>2 DEF SharedType
  <2>2. QED
    BY <1>1, <1>2, <1>5, <2>1, Moving DEF SameToken
<1>8. Alone(s)
  <2>1. Wired(s) /\ Keyed(s)
    BY <1>1, <1>5 DEF Wired, Keyed, SameBody, SameToken
  <2>2. Reasoned(s) /\ AskedOnce(s.body.asks) /\ ToldRight(s)
    BY <1>1, <1>5 DEF Reasoned, ToldRight, SameBody
  <2>3. QED
    BY <1>5, <2>1, <2>2 DEF Alone
<1>9. ChainSound(s, chain) /\ AdaptSound(s, generation)
  BY <1>1, <1>5 DEF ChainSound, AdaptSound, Dropped, SameOrigin
<1>10. PoolSound(s, pool', stale')
  <2>1. q.client \in Nat /\ q.client <= stale + 1
    BY <1>1, OfRequest DEF PoolSound, State, Clients
  <2>2. q.client <= stale' + 1 /\ q.client <= stale'
    BY <1>2, <1>3, <2>1
  <2>3. pool'[q.header] = NoClient
    BY <1>1, <1>2, <1>3
  <2>4. QED
    BY <1>5, <2>2, <2>3 DEF PoolSound, SameToken
<1>11. QED
  BY <1>2, <1>5, <1>6, <1>7, <1>8, <1>9, <1>10, StepKeepsInv
     DEF RelayStep, ChainMoves, Shared, SameOrigin

LEMMA NextUrlKeepsInv ==
  ASSUME RelayInv, NEW r \in Requests, request[r].pc = "wait", HasNext(request[r]),
         Set(r, NextUrl(request[r])), UNCHANGED <<scene, shared>>
  PROVE  RelayInv'
<1> DEFINE q == request[r]
           s == NextUrl(q)
<1>1. /\ q \in State /\ SharedType /\ Wired(q) /\ Keyed(q)
      /\ AskedOnce(q.body.asks) /\ q.pc = "wait" /\ q.why = "round"
  BY OfRequest DEF HasNext
<1>2. s = NextUrl(q) /\ Set(r, s)
  OBVIOUS
<1> HIDE DEF s
<1>3. /\ s \in State /\ s.pc = "send" /\ s.why = "round" /\ s.again = FALSE
      /\ SameOrigin(s, q) /\ SameBody(s, q) /\ SameToken(s, q)
      /\ SameAnswer(s, q) /\ s.client = q.client
  BY <1>1, <1>2, NextUrlType
<1>4. Moves(r, s) /\ ChainMoves(r, s) /\ PoolMoves
  BY <1>1, <1>2, <1>3, QuietMoves DEF SameToken
<1>5. /\ s.wire = [body |-> s.body, zstd |-> s.header]
      /\ s.key \notin s.rejected /\ s.rejected = {} /\ AskedOnce(s.body.asks)
  BY <1>1, <1>3 DEF Wired, Keyed, SameBody, SameToken
<1>6. QED
  BY <1>3, <1>4, <1>5, SendsSound

LEMMA LoseKeepsInv ==
  ASSUME RelayInv, NEW r \in Requests, Lose(r)
  PROVE  RelayInv'
<1>1. CASE HasNext(request[r])
  BY <1>1, NextUrlKeepsInv DEF Lose
<1>2. CASE ~HasNext(request[r])
  BY <1>2, EndsKeepInv DEF Lose, NotSent, Shown
<1>3. QED
  BY <1>1, <1>2
-----------------------------------------------------------------------------
(***************************************************************************)
(* The answers.                                                            *)
(***************************************************************************)
LEMMA AcceptedKeepsInv ==
  ASSUME RelayInv, NEW r \in Requests, Accepted(r)
  PROVE  RelayInv'
<1> DEFINE q == request[r]
           framed == scene.stream /\ Converted /\ q.why \in {"round", "frame"}
           pc == IF framed THEN "first" ELSE "deliver"
           s == [q EXCEPT !.pc = pc, !.status = 200]
<1>1. /\ q \in State /\ Wired(q) /\ Keyed(q) /\ Reasoned(q)
      /\ AskedOnce(q.body.asks) /\ ChainSound(q, chain) /\ AdaptSound(q, generation)
      /\ PoolSound(q, pool, stale) /\ q.pc = "wait"
  BY OfRequest DEF Accepted
<1>2. Set(r, s) /\ UNCHANGED <<scene, shared>>
  BY DEF Accepted
<1>3. pc \in {"first", "deliver"} /\ (pc = "first" => q.why \in {"round", "frame"})
  OBVIOUS
<1> HIDE DEF pc
<1>4. s = [q EXCEPT !.pc = pc, !.status = 200]
  OBVIOUS
<1> HIDE DEF s
<1>5. PICK status \in Statuses : status = 200
  BY DEF Statuses
<1>6. /\ s \in State /\ s.pc = pc /\ s.status = status /\ s.client = q.client
      /\ SameOrigin(s, q) /\ SamePlace(s, q) /\ SameBody(s, q) /\ SameToken(s, q)
  <2>1. pc \in Pcs
    BY <1>3 DEF Pcs
  <2>2. s = [q EXCEPT !.pc = pc, !.status = status]
    BY <1>4, <1>5
  <2>3. s \in State
    BY <1>1, <2>1, <2>2 DEF State
  <2>4. QED
    BY <1>1, <2>2, <2>3 DEF State, SameOrigin, SamePlace, SameBody, SameToken
<1>7. Alone(s)
  <2>1. Wired(s) /\ Keyed(s)
    BY <1>1, <1>3, <1>6 DEF Wired, Keyed, SamePlace, SameBody, SameToken
  <2>2. Reasoned(s)
    BY <1>1, <1>3, <1>5, <1>6 DEF Reasoned, SamePlace, SameBody
  <2>3. AskedOnce(s.body.asks) /\ ToldRight(s)
    BY <1>1, <1>3, <1>6 DEF ToldRight, SameBody
  <2>4. QED
    BY <1>6, <2>1, <2>2, <2>3 DEF Alone
<1>8. ChainSound(s, chain) /\ AdaptSound(s, generation) /\ PoolSound(s, pool, stale)
  BY <1>1, <1>3, <1>6 DEF ChainSound, AdaptSound, PoolSound, Dropped, SameOrigin, SamePlace
<1>9. QED
  BY <1>1, <1>2, <1>6, <1>7, <1>8, QuietKeepsInv DEF SameToken, SameOrigin

\* An error is looked at; b is the request with the token that was rejected.
LEMMA FailsKeepInv ==
  ASSUME RelayInv, NEW r \in Requests, request[r].pc = "wait",
         NEW status \in {400, 401, 422, 503}, NEW detail \in Details,
         NEW b \in State, b.pc = "wait",
         SameOrigin(b, request[r]), SamePlace(b, request[r]), SameBody(b, request[r]),
         b.key = request[r].key, b.header = request[r].header,
         b.client = request[r].client,
         b.rejected = IF status = 401 THEN request[r].rejected \cup {request[r].key}
                                      ELSE request[r].rejected,
         detail = "signature" => request[r].wire.body.sealed # {},
         Set(r, Failed(b, status, detail)), UNCHANGED <<scene, shared>>
  PROVE  RelayInv'
<1> DEFINE q == request[r]
           t == Answered(b, status, detail)
           s == Looked(t, b.why)
<1>1. /\ q \in State /\ Wired(q) /\ Keyed(q) /\ Reasoned(q)
      /\ AskedOnce(q.body.asks) /\ ChainSound(q, chain) /\ AdaptSound(q, generation)
      /\ PoolSound(q, pool, stale) /\ q.pc = "wait"
  BY OfRequest
<1>2. Set(r, s)
  BY DEF Failed, Answered
<1>3. t \in State /\ t.status = status /\ t.detail = detail
      /\ SameOrigin(t, q) /\ SamePlace(t, q) /\ SameBody(t, q)
      /\ t.key = q.key /\ t.header = q.header /\ t.rejected = b.rejected
      /\ t.client = q.client
  <2>1. status \in Statuses
    BY DEF Statuses
  <2>2. /\ t \in State /\ t.status = status /\ t.detail = detail
        /\ SameOrigin(t, b) /\ SamePlace(t, b) /\ SameBody(t, b) /\ SameToken(t, b)
        /\ t.client = b.client
    BY <2>1, AnsweredType
  <2>3. QED
    BY <2>2 DEF SameOrigin, SamePlace, SameBody, SameToken
<1>4. b.why \in Looks /\ b.why # "clear" /\ b.why = q.why
  BY <1>1 DEF State, Whys, Looks, SamePlace
<1> HIDE DEF t
<1>5. s = Looked(t, b.why)
  OBVIOUS
<1> HIDE DEF s
<1>6. /\ s \in State
      /\ SameOrigin(s, t) /\ SamePlace(s, t) /\ SameBody(s, t) /\ SameToken(s, t)
      /\ SameAnswer(s, t) /\ s.client = t.client
      /\ s.pc \in {"auth", "unfit", "clear", "trim", "answer"}
      /\ s.pc = "auth" => /\ b.why \in {"round", "frame"}
                          /\ t.status = 401 /\ scene.oauth
      /\ s.pc = "unfit" => /\ b.why \in {"round", "frame", "auth"}
                           /\ Refusal(t) /\ t.detail \in Kinds
      /\ s.pc \in {"clear", "trim"} => b.why # "trim"
      /\ s.pc = "trim" => scene.protocol = "responses"
      /\ s.pc \in {"unfit", "clear", "trim"} => t.status \in {400, 422}
      /\ s.pc \in {"clear", "trim", "answer"}
           => ~(Refusal(t) /\ t.detail \in Kinds) \/ b.why \in {"unfit", "clear", "trim"}
      /\ s.pc = "answer" /\ t.status = 400 /\ t.detail = "signature"
           => \/ b.why = "clear" \/ b.why = "trim"
              \/ ~Stateful \/ t.body.sealed = {}
  <2>1. LookedAfter(s, t, b.why)
    BY <1>3, <1>4, <1>5, LookedType
  <2>2. QED
    BY <2>1 DEF LookedAfter
<1>7. /\ s.why = q.why /\ s.body = q.body /\ s.key = q.key
      /\ s.generation = q.generation /\ s.snapshot = q.snapshot /\ s.client = q.client
      /\ s.status = status /\ s.detail = detail /\ s.rejected = b.rejected
      /\ (Refusal(s) <=> Refusal(t))
  BY <1>3, <1>6 DEF SameOrigin, SamePlace, SameBody, SameToken, SameAnswer, Refusal
<1>8. Alone(s)
  <2>1. Wired(s) /\ ToldRight(s)
    BY <1>6 DEF Wired, ToldRight
  <2>2. Keyed(s)
    BY <1>1, <1>3, <1>4, <1>6, <1>7 DEF Keyed
  <2>3. Reasoned(s)
    BY <1>1, <1>3, <1>4, <1>6, <1>7 DEF Reasoned
  <2>4. QED
    BY <1>1, <1>6, <1>7, <2>1, <2>2, <2>3 DEF Alone
<1>9. ChainSound(s, chain)
  <2>1. s.pc = "answer" /\ s.status = 400 /\ s.detail = "signature" => Dropped(s, chain)
    <3> SUFFICES ASSUME s.pc = "answer", s.status = 400, s.detail = "signature"
                 PROVE  Dropped(s, chain)
      OBVIOUS
    <3>1. q.body.sealed # {}
      BY <1>1, <1>7 DEF Wired
    <3>2. t.body = q.body
      BY <1>3 DEF SameBody
    <3>3. b.why = "trim" \/ ~Stateful
      BY <1>3, <1>4, <1>6, <1>7, <3>1, <3>2
    <3>4. QED
      BY <1>1, <1>4, <1>7, <3>3 DEF ChainSound, Dropped
  <2>2. QED
    BY <1>1, <1>7, <2>1 DEF ChainSound, Dropped
<1>10. AdaptSound(s, generation)
  BY <1>1, <1>3, <1>4, <1>6, <1>7 DEF AdaptSound
<1>11. PoolSound(s, pool, stale)
  BY <1>1, <1>6, <1>7 DEF PoolSound
<1>12. QED
  BY <1>1, <1>2, <1>7, <1>8, <1>9, <1>10, <1>11, QuietKeepsInv

LEMMA LimitedKeepsInv ==
  ASSUME RelayInv, NEW r \in Requests, Limited(r)
  PROVE  RelayInv'
<1>1. CASE HasNext(request[r])
  BY <1>1, NextUrlKeepsInv DEF Limited
<1>2. CASE ~HasNext(request[r])
  <2>1. /\ request[r] \in State /\ request[r].pc = "wait"
        /\ Set(r, Failed(request[r], 503, "plain")) /\ UNCHANGED <<scene, shared>>
        /\ "plain" \in Details
    BY <1>2, OfRequest DEF Limited, Details
  <2>2. QED
    BY <2>1, FailsKeepInv DEF SameOrigin, SamePlace, SameBody
<1>3. QED
  BY <1>1, <1>2

LEMMA RejectedKeepsInv ==
  ASSUME RelayInv, NEW r \in Requests, Rejected(r)
  PROVE  RelayInv'
<1> DEFINE q == request[r]
           b == [q EXCEPT !.rejected = @ \cup {q.key}]
<1>1. /\ q \in State /\ q.pc = "wait" /\ Set(r, Failed(b, 401, "plain"))
      /\ UNCHANGED <<scene, shared>> /\ "plain" \in Details
  BY OfRequest DEF Rejected, Details
<1>2. b = [q EXCEPT !.rejected = @ \cup {q.key}]
  OBVIOUS
<1> HIDE DEF b
<1>3. /\ b \in State /\ b.pc = q.pc /\ b.rejected = q.rejected \cup {q.key}
      /\ b.key = q.key /\ b.header = q.header
      /\ SameOrigin(b, q) /\ SamePlace(b, q) /\ SameBody(b, q) /\ SameAnswer(b, q)
      /\ b.client = q.client
  BY <1>1, <1>2, RejectedType
<1>4. QED
  BY <1>1, <1>3, FailsKeepInv

LEMMA RefusedKeepsInv ==
  ASSUME RelayInv, NEW r \in Requests, Refused(r)
  PROVE  RelayInv'
<1> DEFINE q == request[r]
<1>1. PICK status \in scene.refuses, detail \in scene.says :
        /\ q.pc = "wait"
        /\ detail = "signature" => q.wire.body.sealed # {}
        /\ IF detail = "unreadable"
             THEN Set(r, Ended([q EXCEPT !.status = status], status))
             ELSE Set(r, Failed(q, status, detail))
        /\ UNCHANGED <<scene, shared>>
  BY DEF Refused
<1>2. q \in State /\ scene \in Scenes
  BY OfRequest
<1>3. status \in {400, 422} /\ detail \in Details
  BY <1>2, ScenesAssumption DEF Details
<1>4. CASE detail = "unreadable"
  <2> DEFINE b == [q EXCEPT !.status = status]
             s == Ended(b, status)
  <2>1. b \in State /\ b.status = status
    BY <1>2, <1>3 DEF State, Statuses
  <2>2. Set(r, s) /\ s = Ended(b, status) /\ status \in Shown
    BY <1>1, <1>3, <1>4 DEF Shown
  <2> HIDE DEF b, s
  <2>3. s.key = 0
    BY <2>2, EndedKey
  <2>4. Moves(r, s) /\ ChainMoves(r, s) /\ PoolMoves
    BY <1>1, <2>2, <2>3, QuietMoves
  <2>5. QED
    BY <1>1, <2>1, <2>2, <2>4, EndedStep
<1>5. CASE detail # "unreadable"
  <2>1. Set(r, Failed(q, status, detail)) /\ q.pc = "wait" /\ UNCHANGED <<scene, shared>>
    BY <1>1, <1>5
  <2>2. QED
    BY <1>1, <1>2, <1>3, <2>1, FailsKeepInv DEF SameOrigin, SamePlace, SameBody
<1>6. QED
  BY <1>4, <1>5

LEMMA BadFrameKeepsInv ==
  ASSUME RelayInv, NEW r \in Requests, BadFrame(r)
  PROVE  RelayInv'
<1> DEFINE q == request[r]
           s == Again(q, "frame")
<1>1. /\ q \in State /\ Wired(q) /\ Keyed(q) /\ Reasoned(q) /\ AskedOnce(q.body.asks)
      /\ q.pc = "first" /\ UNCHANGED <<scene, shared>>
  BY OfRequest DEF BadFrame
<1>2. CASE framesTried(q)
  BY <1>1, <1>2, EndsKeepInv DEF BadFrame, Shown
<1>3. CASE ~framesTried(q)
  <2>1. Set(r, s)
    BY <1>3 DEF BadFrame
  <2>2. s = Again(q, "frame") /\ "frame" \in Whys
    BY DEF Whys
  <2> HIDE DEF s
  <2>3. /\ s \in State /\ s.pc = "send" /\ s.why = "frame" /\ s.again = FALSE
        /\ SameOrigin(s, q) /\ SameBody(s, q) /\ SameToken(s, q) /\ s.client = q.client
    BY <1>1, <2>2, AgainType DEF SentAgain
  <2>4. Moves(r, s) /\ ChainMoves(r, s) /\ PoolMoves
    BY <1>1, <2>1, <2>3, QuietMoves DEF SameToken
  <2>5. /\ s.wire = [body |-> s.body, zstd |-> s.header]
        /\ s.key \notin s.rejected /\ s.rejected = {} /\ AskedOnce(s.body.asks)
    BY <1>1, <2>3 DEF Wired, Keyed, Reasoned, SameBody, SameToken
  <2>6. QED
    BY <2>3, <2>4, <2>5, SendsSound
<1>4. QED
  BY <1>2, <1>3

LEMMA GoodFrameKeepsInv ==
  ASSUME RelayInv, NEW r \in Requests, GoodFrame(r)
  PROVE  RelayInv'
<1> DEFINE q == request[r]
           s == [q EXCEPT !.pc = "deliver"]
<1>1. /\ q \in State /\ Keyed(q) /\ Reasoned(q) /\ AskedOnce(q.body.asks)
      /\ ChainSound(q, chain) /\ AdaptSound(q, generation) /\ PoolSound(q, pool, stale)
      /\ q.pc = "first" /\ Set(r, s) /\ UNCHANGED <<scene, shared>>
  BY OfRequest DEF GoodFrame
<1>2. s = [q EXCEPT !.pc = "deliver"] /\ "deliver" \in Pcs
  BY DEF Pcs
<1> HIDE DEF s
<1>3. /\ s \in State /\ s.pc = "deliver"
      /\ SameOrigin(s, q) /\ SamePlace(s, q) /\ SameBody(s, q) /\ SameToken(s, q)
      /\ SameAnswer(s, q) /\ s.client = q.client
  BY <1>1, <1>2, GoesType
<1>4. Alone(s)
  <2>1. Wired(s) /\ Keyed(s) /\ ToldRight(s)
    BY <1>3 DEF Wired, Keyed, ToldRight
  <2>2. Reasoned(s) /\ AskedOnce(s.body.asks)
    BY <1>1, <1>3 DEF Reasoned, SamePlace, SameBody, SameAnswer
  <2>3. QED
    BY <1>3, <2>1, <2>2 DEF Alone
<1>5. ChainSound(s, chain) /\ AdaptSound(s, generation) /\ PoolSound(s, pool, stale)
  BY <1>1, <1>3 DEF ChainSound, AdaptSound, PoolSound, Dropped, SameOrigin, SamePlace
<1>6. QED
  BY <1>1, <1>3, <1>4, <1>5, QuietKeepsInv DEF SameToken, SameOrigin
-----------------------------------------------------------------------------
(***************************************************************************)
(* What is done about an error.                                            *)
(***************************************************************************)
LEMMA AuthKeepsInv ==
  ASSUME RelayInv, NEW r \in Requests, Auth(r)
  PROVE  RelayInv'
<1> DEFINE q == request[r]
<1>1. /\ q \in State /\ Keyed(q) /\ Reasoned(q) /\ AskedOnce(q.body.asks)
      /\ SharedType /\ q.pc = "auth" /\ q.key <= token
      /\ UNCHANGED <<scene, pool, stale, marks, generation>>
  BY OfRequest DEF Auth
<1>2. q.rejected = {q.key} /\ q.status = 401 /\ scene.oauth /\ q.key \in Tokens
  BY <1>1 DEF Keyed, Reasoned, State
<1>3. CASE /\ Refreshed(q.key)
           /\ Set(r, Again(encoded(Holding(q, token', account' \/ q.header)), "auth"))
           /\ chain' = IF scene.protocol = "antigravity" THEN chain ELSE NoRequest
  <2> DEFINE named == account' \/ q.header
             held == Holding(q, token', named)
             t == encoded(held)
             s == Again(t, "auth")
  <2>1. /\ token' \in 1..MaxTokens /\ token <= token' /\ token' <= token'
        /\ token' # q.key /\ token' \in Tokens /\ account' \in BOOLEAN
    BY <1>1, <1>2, <1>3, RefreshedToken
  <2>2. Set(r, s) /\ named \in BOOLEAN
    BY <1>3
  <2> HIDE DEF named
  <2>3. /\ held = Holding(q, token', named) /\ t = encoded(held) /\ s = Again(t, "auth")
        /\ "auth" \in Whys
    BY DEF Whys
  <2> HIDE DEF held, t, s
  <2>4. /\ held \in State /\ held.key = token' /\ held.rejected = q.rejected
        /\ held.body.asks = q.body.asks
        /\ SameOrigin(held, q) /\ held.client = q.client
    BY <1>1, <2>1, <2>2, <2>3, HoldingType
  <2>5. /\ t \in State /\ t.body = held.body
        /\ t.wire = [body |-> held.body, zstd |-> held.header]
        /\ SameOrigin(t, held) /\ SameToken(t, held) /\ t.client = held.client
    BY <2>3, <2>4, EncodedType
  <2>6. /\ s \in State /\ s.pc = "send" /\ s.why = "auth" /\ s.again = FALSE
        /\ SameOrigin(s, t) /\ SameBody(s, t) /\ SameToken(s, t) /\ s.client = t.client
    BY <2>3, <2>5, AgainType DEF SentAgain
  <2>7. /\ SameOrigin(s, q) /\ s.client = q.client
        /\ s.wire = [body |-> s.body, zstd |-> s.header]
        /\ s.key = token' /\ s.rejected = {q.key} /\ AskedOnce(s.body.asks)
    BY <1>1, <1>2, <2>4, <2>5, <2>6 DEF SameOrigin, SameBody, SameToken
  <2>8. Moves(r, s) /\ ChainMoves(r, s) /\ PoolMoves
    <3>1. marks' \subseteq Kinds
      BY <1>1 DEF SharedType
    <3>2. Moves(r, s)
      BY <1>1, <2>1, <2>2, <2>7, <3>1 DEF Moves
    <3>3. QED
      BY <1>1, <1>3, <3>2, PoolStays DEF ChainMoves
  <2>9. s.key \notin s.rejected
    BY <2>1, <2>7
  <2>10. QED
    BY <2>6, <2>7, <2>8, <2>9, SendsSound
<1>4. CASE /\ Set(r, Ended(q, 401)) \/ Set(r, Ended(q, 400))
           /\ UNCHANGED <<token, account, chain>>
  <2>1. UNCHANGED <<scene, shared>>
    BY <1>1, <1>4 DEF shared
  <2>2. QED
    BY <1>1, <1>2, <1>4, <2>1, EndsKeepInv DEF Shown
<1>5. QED
  BY <1>3, <1>4 DEF Auth

\* The marks after a feature was refused.
LEMMA MarkType ==
  ASSUME RelayInv, NEW r \in Requests, request[r].detail \in Kinds
  PROVE  mark(request[r]) \in SUBSET Kinds
BY OfRequest DEF SharedType, mark

LEMMA UnfitKeepsInv ==
  ASSUME RelayInv, NEW r \in Requests, Unfit(r)
  PROVE  RelayInv'
<1> DEFINE q == request[r]
<1>1. /\ q \in State /\ Keyed(q) /\ Reasoned(q) /\ AskedOnce(q.body.asks)
      /\ ChainSound(q, chain) /\ AdaptSound(q, generation) /\ PoolSound(q, pool, stale)
      /\ q.pc = "unfit" /\ marks' = mark(q)
      /\ UNCHANGED <<scene, token, account, pool, stale, generation>>
  BY OfRequest DEF Unfit
<1>2. /\ q.detail \in Kinds /\ Refusal(q) /\ q.why \in {"round", "frame", "auth"}
      /\ q.key \notin q.rejected
  BY <1>1 DEF Reasoned, Keyed
<1>3. mark(q) \in SUBSET Kinds /\ marks' \subseteq Kinds
  BY <1>1, <1>2, MarkType
<1>4. CASE adapts(q)
  <2> DEFINE a == adapted(q.body.asks, mark(q), scene.protocol)
             b == Asked(q, "unfit", a)
             t == encoded(b)
             s == Again(t, "unfit")
  <2>1. [q EXCEPT !.body.asks = a] = b
    BY <1>1 DEF State, Asked
  <2>2. /\ Set(r, s)
        /\ chain' = IF scene.protocol = "antigravity" THEN chain ELSE NoRequest
    BY <1>4, <2>1 DEF Unfit
  <2>3. /\ b = Asked(q, "unfit", adapted(q.body.asks, mark(q), scene.protocol))
        /\ t = encoded(b) /\ s = Again(t, "unfit") /\ "unfit" \in Whys
        /\ "unfit" \in Pcs
    BY DEF Whys, Pcs
  <2> HIDE DEF a, b, t, s
  <2>4. /\ b \in State /\ AskedOnce(b.body.asks)
        /\ SameOrigin(b, q) /\ SameToken(b, q) /\ b.client = q.client
    <3>1. AskedAfter(Asked(q, "unfit", adapted(q.body.asks, mark(q), scene.protocol)),
                     q, "unfit")
      BY <1>1, <1>3, <2>3, AskedType
    <3>2. QED
      BY <2>3, <3>1 DEF AskedAfter
  <2>5. /\ t \in State /\ t.body = b.body /\ t.wire = [body |-> b.body, zstd |-> b.header]
        /\ SameOrigin(t, b) /\ SameToken(t, b) /\ t.client = b.client
    BY <2>3, <2>4, EncodedType
  <2>6. /\ s \in State /\ s.pc = "send" /\ s.why = "unfit" /\ s.again = FALSE
        /\ SameOrigin(s, t) /\ SameBody(s, t) /\ SameToken(s, t) /\ s.client = t.client
    BY <2>3, <2>5, AgainType DEF SentAgain
  <2>7. /\ SameOrigin(s, q) /\ s.client = q.client
        /\ s.wire = [body |-> s.body, zstd |-> s.header]
        /\ s.key = q.key /\ s.rejected = q.rejected /\ AskedOnce(s.body.asks)
    BY <2>4, <2>5, <2>6 DEF SameOrigin, SameBody, SameToken
  <2>8. Moves(r, s) /\ ChainMoves(r, s) /\ PoolMoves
    <3>1. Moves(r, s)
      BY <1>1, <1>3, <2>2, <2>7, Moving
    <3>2. QED
      BY <1>1, <2>2, <3>1, PoolStays DEF ChainMoves
  <2>9. s.key \notin s.rejected
    BY <1>2, <2>7
  <2>10. QED
    BY <2>6, <2>7, <2>8, <2>9, SendsSound
<1>5. CASE ~adapts(q)
  <2> DEFINE s == Looked(q, "unfit")
  <2>1. Set(r, s) /\ chain' = chain
    BY <1>5 DEF Unfit
  <2>2. LookedAfter(s, q, "unfit")
    BY <1>1, LookedType DEF Looks
  <2> HIDE DEF s
  <2>3. /\ s \in State /\ s.pc \in {"clear", "trim", "answer"}
        /\ s.pc = "trim" => scene.protocol = "responses"
        /\ s.why = q.why /\ s.body = q.body /\ s.key = q.key /\ s.rejected = q.rejected
        /\ s.generation = q.generation /\ s.snapshot = q.snapshot /\ s.client = q.client
        /\ s.status = q.status /\ s.detail = q.detail
    BY <2>2 DEF LookedAfter, SameOrigin, SamePlace, SameBody, SameToken, SameAnswer
  <2>4. Moves(r, s) /\ ChainMoves(r, s) /\ PoolMoves
    <3>1. Moves(r, s)
      BY <1>1, <1>3, <2>1, <2>3, Moving
    <3>2. QED
      BY <1>1, <2>1, <3>1, PoolStays DEF ChainMoves
  <2>5. Alone(s)
    <3>1. Wired(s) /\ Keyed(s) /\ ToldRight(s)
      BY <1>1, <1>2, <2>3 DEF Wired, Keyed, ToldRight
    <3>2. Reasoned(s) /\ AskedOnce(s.body.asks)
      BY <1>1, <1>2, <2>3 DEF Reasoned
    <3>3. QED
      BY <2>3, <3>1, <3>2 DEF Alone
  <2>6. ChainSound(s, chain)
    <3>1. s.detail # "signature"
      BY <1>2, <2>3 DEF Kinds
    <3>2. QED
      BY <1>1, <1>2, <2>3, <3>1 DEF ChainSound
  <2>7. AdaptSound(s, generation)
    <3>1. ASSUME q.generation = generation
          PROVE  adapted(q.body.asks, {q.detail}, scene.protocol) = q.body.asks
      <4>1. q.detail \in mark(q)
        BY <3>1 DEF mark
      <4>2. q.body.asks \in Asks
        BY <1>1 DEF State, Body
      <4>3. adapted(q.body.asks, mark(q), scene.protocol) = q.body.asks
        BY <1>5 DEF adapts
      <4>4. QED
        BY <1>3, <4>1, <4>2, <4>3, AdaptedAlone
    <3>2. QED
      BY <1>1, <2>3, <3>1 DEF AdaptSound
  <2>8. PoolSound(s, pool, stale)
    BY <1>1, <2>3 DEF PoolSound
  <2>9. QED
    BY <1>1, <2>1, <2>3, <2>4, <2>5, <2>6, <2>7, <2>8, StepKeepsInv DEF RelayStep, Shared
<1>6. QED
  BY <1>4, <1>5

LEMMA ClearKeepsInv ==
  ASSUME RelayInv, NEW r \in Requests, Clear(r)
  PROVE  RelayInv'
<1> DEFINE q == request[r]
           s == Looked(q, "clear")
<1>1. /\ q \in State /\ Keyed(q) /\ Reasoned(q) /\ AskedOnce(q.body.asks)
      /\ ChainSound(q, chain) /\ AdaptSound(q, generation) /\ PoolSound(q, pool, stale)
      /\ q.pc = "clear" /\ Set(r, s) /\ SharedType
      /\ UNCHANGED <<scene, token, account, pool, stale, marks, generation>>
  BY OfRequest DEF Clear
<1>2. /\ chain' \in {chain, NoRequest}
      /\ q.snapshot = NoRequest \/ chain' # q.snapshot
  BY DEF Clear
<1>3. LookedAfter(s, q, "clear")
  BY <1>1, LookedType DEF Looks
<1> HIDE DEF s
<1>4. /\ s \in State /\ s.pc \in {"trim", "answer"}
      /\ s.pc = "trim" => scene.protocol = "responses"
      /\ s.why = q.why /\ s.body = q.body /\ s.key = q.key /\ s.rejected = q.rejected
      /\ s.generation = q.generation /\ s.snapshot = q.snapshot /\ s.client = q.client
      /\ s.status = q.status /\ s.detail = q.detail
  BY <1>3 DEF LookedAfter, SameOrigin, SamePlace, SameBody, SameToken, SameAnswer
<1>5. Moves(r, s) /\ ChainMoves(r, s) /\ PoolMoves
  <2>1. marks' \subseteq Kinds
    BY <1>1 DEF SharedType
  <2>2. Moves(r, s)
    BY <1>1, <1>4, <2>1, Moving
  <2>3. QED
    BY <1>1, <1>2, <2>2, PoolStays DEF ChainMoves
<1>6. Alone(s)
  <2>1. Wired(s) /\ Keyed(s) /\ ToldRight(s)
    BY <1>1, <1>4 DEF Wired, Keyed, ToldRight
  <2>2. Reasoned(s) /\ AskedOnce(s.body.asks)
    BY <1>1, <1>4 DEF Reasoned
  <2>3. QED
    BY <1>4, <2>1, <2>2 DEF Alone
<1>7. ChainSound(s, chain')
  BY <1>1, <1>2, <1>4 DEF ChainSound, Dropped
<1>8. AdaptSound(s, generation)
  BY <1>1, <1>4 DEF AdaptSound, Refusal
<1>9. PoolSound(s, pool, stale)
  BY <1>1, <1>4 DEF PoolSound
<1>10. QED
  BY <1>1, <1>4, <1>5, <1>6, <1>7, <1>8, <1>9, StepKeepsInv DEF RelayStep, Shared

LEMMA TrimKeepsInv ==
  ASSUME RelayInv, NEW r \in Requests, Trim(r)
  PROVE  RelayInv'
<1> DEFINE q == request[r]
           body == [q.body EXCEPT !.sealed = {}]
           b == [q EXCEPT !.pc = q.pc, !.body = body]
           t == encoded(b)
           s == Again(t, "trim")
<1>1. /\ q \in State /\ Keyed(q) /\ Reasoned(q) /\ AskedOnce(q.body.asks)
      /\ q.pc = "trim" /\ SharedType
      /\ UNCHANGED <<scene, token, account, pool, stale, marks, generation>>
      /\ chain' = NoRequest
  BY OfRequest DEF Trim, trimmedChain
<1>2. [q EXCEPT !.body.sealed = {}] = b
  BY <1>1 DEF State
<1>3. Set(r, s)
  BY <1>2 DEF Trim
<1>4. /\ t = encoded(b) /\ s = Again(t, "trim") /\ "trim" \in Whys
  BY DEF Whys
<1> HIDE DEF t, s
<1>5. body \in Body /\ body.asks = q.body.asks /\ body.sealed = {}
  BY <1>1 DEF State, Body
<1> HIDE DEF body
<1>6. /\ b \in State /\ b.body = body
      /\ SameOrigin(b, q) /\ SameToken(b, q) /\ b.client = q.client
  <2>1. b \in State
    BY <1>1, <1>5 DEF State
  <2>2. QED
    BY <1>1, <2>1 DEF State, SameOrigin, SameToken
<1> HIDE DEF b
<1>7. /\ t \in State /\ t.body = b.body /\ t.wire = [body |-> b.body, zstd |-> b.header]
      /\ SameOrigin(t, b) /\ SameToken(t, b) /\ t.client = b.client
  BY <1>4, <1>6, EncodedType
<1>8. /\ s \in State /\ s.pc = "send" /\ s.why = "trim" /\ s.again = FALSE
      /\ SameOrigin(s, t) /\ SameBody(s, t) /\ SameToken(s, t) /\ s.client = t.client
  BY <1>4, <1>7, AgainType DEF SentAgain
<1>9. /\ SameOrigin(s, q) /\ s.client = q.client
      /\ s.wire = [body |-> s.body, zstd |-> s.header]
      /\ s.key = q.key /\ s.rejected = q.rejected /\ AskedOnce(s.body.asks)
      /\ s.body.sealed = {}
  BY <1>1, <1>5, <1>6, <1>7, <1>8 DEF SameOrigin, SameBody, SameToken
<1>10. Moves(r, s) /\ ChainMoves(r, s) /\ PoolMoves
  <2>1. marks' \subseteq Kinds
    BY <1>1 DEF SharedType
  <2>2. Moves(r, s)
    BY <1>1, <1>3, <1>9, <2>1, Moving
  <2>3. QED
    BY <1>1, <2>2, PoolStays DEF ChainMoves
<1>11. s.key \notin s.rejected /\ scene.protocol = "responses" /\ Dropped(s, chain')
  BY <1>1, <1>9 DEF Keyed, Reasoned, Dropped
<1>12. QED
  BY <1>8, <1>9, <1>10, <1>11, SendsSound
-----------------------------------------------------------------------------
(***************************************************************************)
(* How a request ends.                                                     *)
(***************************************************************************)
LEMMA AnswerKeepsInv ==
  ASSUME RelayInv, NEW r \in Requests, Answer(r)
  PROVE  RelayInv'
<1>1. request[r].status \in Statuses
  BY OfRequest DEF State
<1>2. request[r].status \in Shown
  BY <1>1 DEF Statuses, Shown
<1>3. QED
  BY <1>2, EndsKeepInv DEF Answer, final_status

LEMMA DeliverKeepsInv ==
  ASSUME RelayInv, NEW r \in Requests, Deliver(r)
  PROVE  RelayInv'
<1> DEFINE q == request[r]
           s == Ended(q, 200)
<1>1. /\ q \in State /\ q.status = 200 /\ q.pc = "deliver" /\ Set(r, s)
      /\ SharedType /\ scene \in Scenes
      /\ UNCHANGED <<scene, token, account, pool, stale, marks, generation>>
      /\ chain' \in Stored(r)
  BY OfRequest DEF Deliver, Reasoned
<1>2. s = Ended(q, 200) /\ 200 \in Shown
  BY DEF Shown
<1> HIDE DEF s
<1>3. s.pc = "done" /\ s.key = 0
  BY <1>1, <1>2, EndedType, EndedKey
<1>4. chain' = chain \/ (chain' = r /\ Stateful)
  BY <1>1 DEF Stored
<1>5. Moves(r, s)
  <2>1. marks' \subseteq Kinds
    BY <1>1 DEF SharedType
  <2>2. QED
    BY <1>1, <1>3, <2>1, Moving
<1>6. ChainMoves(r, s) /\ PoolMoves
  BY <1>1, <1>3, <1>4, PoolStays DEF ChainMoves
<1>7. QED
  BY <1>1, <1>2, <1>5, <1>6, EndedStep

LEMMA SpoilKeepsInv ==
  ASSUME RelayInv, NEW r \in Requests, Spoil(r)
  PROVE  RelayInv'
BY EndsKeepInv DEF Spoil, Shown

LEMMA LeaveKeepsInv ==
  ASSUME RelayInv, NEW r \in Requests, Leave(r)
  PROVE  RelayInv'
BY EndsKeepInv DEF Leave, Shown

LEMMA ReloadKeepsInv ==
  ASSUME RelayInv, Reload
  PROVE  RelayInv'
<1>1. /\ generation < MaxReloads /\ generation' = generation + 1 /\ marks' = {}
      /\ UNCHANGED <<scene, request, token, account, pool, stale, chain>>
      /\ SharedType
  BY DEF Reload, RelayInv
<1>2. generation \in Nat /\ generation' \in 0..MaxReloads /\ generation' > generation
  BY <1>1, BoundsAssumption DEF SharedType
<1>3. State' = State
  BY <1>1 DEF State, Urls
<1>4. SharedType'
  BY <1>1, <1>2, <1>3 DEF SharedType
<1>5. KeysIssued' /\ ChainsOver'
  BY <1>1 DEF RelayInv, KeysIssued, ChainsOver, Stateful
<1>6. ASSUME NEW r \in Requests PROVE Alone(request[r])'
  <2>1. Alone(request[r]) /\ request' = request /\ scene' = scene
    BY <1>1 DEF RelayInv
  <2>2. QED
    BY <1>3, <2>1 DEF Alone, Wired, Keyed, Reasoned, AskedOnce, ToldRight, Refusal
<1>7. ASSUME NEW r \in Requests
      PROVE  Shared(request[r], chain, generation, pool, stale)'
  <2>1. /\ ChainSound(request[r], chain) /\ AdaptSound(request[r], generation)
        /\ PoolSound(request[r], pool, stale) /\ request[r] \in State
    BY OfRequest
  <2>2. ChainSound(request[r], chain)'
    BY <1>1, <2>1 DEF ChainSound, Dropped, Stateful
  <2>3. AdaptSound(request[r], generation)'
    <3>1. /\ request[r].generation \in Nat
          /\ request[r].generation <= generation
      BY <2>1, BoundsAssumption DEF AdaptSound, State, Generations
    <3>2. request[r].generation <= generation' /\ request[r].generation # generation'
      BY <1>2, <3>1
    <3>3. QED
      BY <1>1, <3>2 DEF AdaptSound
  <2>4. PoolSound(request[r], pool, stale)'
    BY <1>1, <2>1 DEF PoolSound
  <2>5. QED
    BY <2>2, <2>3, <2>4 DEF Shared
<1>8. QED
  BY <1>4, <1>5, <1>6, <1>7 DEF RelayInv
-----------------------------------------------------------------------------
(***************************************************************************)
(* The invariant.                                                          *)
(***************************************************************************)
LEMMA InitInv == Init => RelayInv
<1> SUFFICES ASSUME Init
             PROVE  RelayInv
  OBVIOUS
<1>1. /\ scene \in Scenes /\ request = [r \in Requests |-> Idle] /\ token = 1
      /\ account = scene.account /\ pool = [zstd \in BOOLEAN |-> NoClient]
      /\ stale = 0 /\ marks = {} /\ generation = 0 /\ chain = NoRequest
  BY DEF Init
<1>2. Idle \in State /\ AskedOnce(Idle.body.asks)
  BY <1>1, IdleType
<1>3. SharedType
  <2>1. scene.dead \in Nat /\ scene.account \in BOOLEAN
    BY <1>1, ScenesAssumption
  <2>2. 1 \in 1..MaxTokens /\ 0 \in 0..MaxReloads /\ 0 \in 0..scene.dead
    BY <2>1, BoundsAssumption
  <2>3. pool \in [BOOLEAN -> Nat] /\ \A h \in BOOLEAN : pool[h] <= stale + 1
    BY <1>1 DEF NoClient
  <2>4. request \in [Requests -> State]
    BY <1>1, <1>2
  <2>5. QED
    BY <1>1, <2>1, <2>2, <2>3, <2>4 DEF SharedType
<1>4. KeysIssued
  BY <1>1, IdleShape DEF KeysIssued
<1>5. ChainsOver
  BY <1>1, IdleShape, NoRequestApart DEF ChainsOver
<1>6. Alone(Idle)
  <2>1. Wired(Idle) /\ Keyed(Idle) /\ Reasoned(Idle) /\ ToldRight(Idle)
    BY IdleShape DEF Wired, Keyed, Reasoned, ToldRight
  <2>2. QED
    BY <1>2, <2>1 DEF Alone
<1>7. Shared(Idle, chain, generation, pool, stale)
  <2>1. ChainSound(Idle, chain) /\ AdaptSound(Idle, generation) /\ PoolSound(Idle, pool, stale)
    BY <1>1, IdleShape DEF ChainSound, AdaptSound, PoolSound, Dropped
  <2>2. QED
    BY <2>1 DEF Shared
<1>8. \A r \in Requests : request[r] = Idle
  BY <1>1
<1>9. QED
  BY <1>3, <1>4, <1>5, <1>6, <1>7, <1>8 DEF RelayInv

LEMMA NextKeepsInv == RelayInv /\ [Next]_vars => RelayInv'
<1> SUFFICES ASSUME RelayInv, [Next]_vars
             PROVE  RelayInv'
  OBVIOUS
<1>1. CASE Reload
  BY <1>1, ReloadKeepsInv
<1>2. ASSUME NEW r \in Requests, Step(r)
      PROVE  RelayInv'
  BY <1>2, BeginKeepsInv, FreshKeepsInv, SendKeepsInv, AuthKeepsInv, UnfitKeepsInv,
     ClearKeepsInv, TrimKeepsInv, AnswerKeepsInv, DeliverKeepsInv DEF Step
<1>3. ASSUME NEW r \in Requests, Upstream(r)
      PROVE  RelayInv'
  BY <1>3, RedialKeepsInv, LoseKeepsInv, AcceptedKeepsInv, LimitedKeepsInv,
     RejectedKeepsInv, RefusedKeepsInv, BadFrameKeepsInv, GoodFrameKeepsInv DEF Upstream
<1>4. ASSUME NEW r \in Requests, Spoil(r) \/ Leave(r)
      PROVE  RelayInv'
  BY <1>4, SpoilKeepsInv, LeaveKeepsInv
<1>5. CASE UNCHANGED vars
  <2>1. UNCHANGED <<scene, request, token, account, pool, stale, marks, generation, chain>>
    BY <1>5 DEF vars
  <2>2. State' = State /\ Stateful' = Stateful
    BY <2>1 DEF State, Urls, Stateful
  <2>3. SharedType' /\ KeysIssued' /\ ChainsOver'
    BY <2>1, <2>2 DEF RelayInv, SharedType, KeysIssued, ChainsOver
  <2>4. ASSUME NEW r \in Requests PROVE Alone(request[r])'
    <3>1. Alone(request[r]) /\ request' = request /\ scene' = scene
      BY <2>1 DEF RelayInv
    <3>2. QED
      BY <2>2, <3>1 DEF Alone, Wired, Keyed, Reasoned, AskedOnce, ToldRight, Refusal
  <2>5. ASSUME NEW r \in Requests
        PROVE  Shared(request[r], chain, generation, pool, stale)'
    <3>1. Shared(request[r], chain, generation, pool, stale)
      BY DEF RelayInv
    <3>2. QED
      BY <2>1, <2>2, <3>1 DEF Shared, ChainSound, AdaptSound, PoolSound, Dropped
  <2>6. QED
    BY <2>3, <2>4, <2>5 DEF RelayInv
<1>6. QED
  BY <1>1, <1>2, <1>3, <1>4, <1>5 DEF Next

\* In every state the program can reach the requests are where the code can
\* have brought them, and what they share is what they may rely on.
THEOREM RelayInvariant == Spec => []RelayInv
<1>1. QED
  BY InitInv, NextKeepsInv, PTL DEF Spec

\* The variables have their types.
THEOREM TypesHold == Spec => []TypeOK
<1>1. RelayInv => TypeOK
  <2> SUFFICES ASSUME RelayInv
               PROVE  TypeOK
    OBVIOUS
  <2>1. SharedType
    BY DEF RelayInv
  <2>2. ASSUME NEW r \in Requests
        PROVE  /\ request[r].body \in Body /\ request[r].wire.body \in Body
               /\ request[r].url \in 1..scene.urls /\ request[r].why \in Whys
               /\ request[r].shown \in {0, 200, 400, 401, 422, 500, 502, 503}
    BY OfRequest DEF State, Wire, Urls, Shown
  <2>3. QED
    BY <2>1, <2>2 DEF TypeOK, SharedType
<1>2. QED
  BY <1>1, RelayInvariant, PTL

\* What is sent is the body as it is by then, project, account, adapted
\* features and all, and no token is sent again that was rejected, whatever the
\* other requests of the conversation do meanwhile.
THEOREM SentAsItIs == Spec => []SentIsCurrent
<1>1. RelayInv => SentIsCurrent
  <2> SUFFICES ASSUME RelayInv
               PROVE  SentIsCurrent
    OBVIOUS
  <2>1. \A r \in Requests : Wired(request[r]) /\ Keyed(request[r])
    BY OfRequest
  <2>2. WireIsBody
    BY <2>1 DEF WireIsBody, Waits, Wired
  <2>3. RejectedNotResent
    BY <2>1 DEF RejectedNotResent, Waits, Keyed
  <2>4. QED
    BY <2>2, <2>3 DEF SentIsCurrent
<1>2. QED
  BY <1>1, RelayInvariant, PTL

\* A client is told the status the upstream answered with last, or that its
\* credential cannot be used, or that the upstream could not be reached.
THEOREM LastWordIsShown == Spec => []LastAnswerShown
<1>1. RelayInv => LastAnswerShown
  <2> SUFFICES ASSUME RelayInv
               PROVE  LastAnswerShown
    OBVIOUS
  <2>1. \A r \in Requests : ToldRight(request[r])
    BY DEF RelayInv, Alone
  <2>2. QED
    BY <2>1 DEF LastAnswerShown, ToldRight, Told
<1>2. QED
  BY <1>1, RelayInvariant, PTL

\* A chain the upstream refuses is out of the cache before the client is told,
\* a feature it refuses is given up, and a schema is put into words once.
THEOREM RefusedIsGivenUp == Spec => []RefusalsHeeded
<1>1. RelayInv => RefusalsHeeded
  <2> SUFFICES ASSUME RelayInv
               PROVE  RefusalsHeeded
    OBVIOUS
  <2>1. \A r \in Requests : /\ ChainSound(request[r], chain)
                            /\ AdaptSound(request[r], generation)
                            /\ AskedOnce(request[r].body.asks)
    BY OfRequest
  <2>2. RefusedChainDropped
    BY <2>1 DEF RefusedChainDropped, ChainSound, Dropped, Answers
  <2>3. RefusalAdapted
    BY <2>1 DEF RefusalAdapted, AdaptSound, Answers
  <2>4. InstructedOnce
    BY <2>1 DEF InstructedOnce, AskedOnce
  <2>5. QED
    BY <2>2, <2>3, <2>4 DEF RefusalsHeeded
<1>2. QED
  BY <1>1, RelayInvariant, PTL
-----------------------------------------------------------------------------
(***************************************************************************)
(* The repetitions.                                                        *)
(***************************************************************************)
LEMMA SetLeaves ==
  ASSUME RelayInv, NEW q \in Requests, NEW s, Set(q, s), NEW r \in Requests, r # q
  PROVE  request'[r] = request[r]
BY DEF RelayInv, SharedType, Set

LEMMA SetGives ==
  ASSUME RelayInv, NEW r \in Requests, NEW s, Set(r, s)
  PROVE  request'[r] = s
BY DEF RelayInv, SharedType, Set

\* A request is taken to another state by a step of its own.
LEMMA OwnStep ==
  ASSUME RelayInv, [Next]_vars, NEW r \in Requests, request'[r] # request[r]
  PROVE  Step(r) \/ Upstream(r) \/ Spoil(r) \/ Leave(r)
<1>1. ASSUME NEW q \in Requests, q # r, Step(q)
      PROVE  FALSE
  <2>1. CASE Begin(q)
    BY <1>1, <2>1, SetLeaves DEF Begin
  <2>2. CASE Fresh(q)
    BY <1>1, <2>2, SetLeaves DEF Fresh
  <2>3. CASE Send(q)
    BY <1>1, <2>3, SetLeaves DEF Send
  <2>4. CASE Auth(q)
    BY <1>1, <2>4, SetLeaves DEF Auth
  <2>5. CASE Unfit(q)
    BY <1>1, <2>5, SetLeaves DEF Unfit
  <2>6. CASE Clear(q)
    BY <1>1, <2>6, SetLeaves DEF Clear
  <2>7. CASE Trim(q)
    BY <1>1, <2>7, SetLeaves DEF Trim
  <2>8. CASE Answer(q)
    BY <1>1, <2>8, SetLeaves DEF Answer
  <2>9. CASE Deliver(q)
    BY <1>1, <2>9, SetLeaves DEF Deliver
  <2>10. QED
    BY <1>1, <2>1, <2>2, <2>3, <2>4, <2>5, <2>6, <2>7, <2>8, <2>9 DEF Step
<1>2. ASSUME NEW q \in Requests, q # r, Upstream(q)
      PROVE  FALSE
  <2>1. CASE Redial(q)
    BY <1>2, <2>1, SetLeaves DEF Redial
  <2>2. CASE Lose(q)
    BY <1>2, <2>2, SetLeaves DEF Lose
  <2>3. CASE Accepted(q)
    BY <1>2, <2>3, SetLeaves DEF Accepted
  <2>4. CASE Limited(q)
    BY <1>2, <2>4, SetLeaves DEF Limited
  <2>5. CASE Rejected(q)
    BY <1>2, <2>5, SetLeaves DEF Rejected
  <2>6. CASE Refused(q)
    BY <1>2, <2>6, SetLeaves DEF Refused
  <2>7. CASE BadFrame(q)
    BY <1>2, <2>7, SetLeaves DEF BadFrame
  <2>8. CASE GoodFrame(q)
    BY <1>2, <2>8, SetLeaves DEF GoodFrame
  <2>9. QED
    BY <1>2, <2>1, <2>2, <2>3, <2>4, <2>5, <2>6, <2>7, <2>8 DEF Upstream
<1>3. ASSUME NEW q \in Requests, q # r, Spoil(q) \/ Leave(q)
      PROVE  FALSE
  BY <1>3, SetLeaves DEF Spoil, Leave
<1>4. ~Reload /\ ~UNCHANGED vars
  BY DEF Reload, vars
<1>5. QED
  BY <1>1, <1>2, <1>3, <1>4 DEF Next

LEMMA EndedOver ==
  ASSUME RelayInv, NEW s, NEW status
  PROVE  Ended(s, status).pc = "done"
BY DEF Ended, Idle

\* Where an error is looked at, nothing is sent.
LEMMA FailedGoes ==
  ASSUME RelayInv, NEW s \in State, NEW status \in Statuses, NEW detail \in Details
  PROVE  Failed(s, status, detail).pc \notin {"send", "wait"}
<1> DEFINE t == Answered(s, status, detail)
<1>1. t \in State
  BY AnsweredType
<1>2. Failed(s, status, detail) = Looked(t, s.why)
  BY DEF Failed, Answered
<1>3. s.why \in Looks
  BY DEF State, Whys, Looks
<1> HIDE DEF t
<1>4. LookedAfter(Looked(t, s.why), t, s.why)
  BY <1>1, <1>3, LookedType
<1>5. QED
  BY <1>2, <1>4 DEF LookedAfter

\* How a request that waits comes to be sent again at once.
LEMMA SentAnew ==
  ASSUME RelayInv, NEW r \in Requests, Upstream(r), request'[r].pc = "send"
  PROVE  \/ Redial(r)
         \/ HasNext(request[r]) /\ request'[r] = NextUrl(request[r])
         \/ BadFrame(r) /\ ~framesTried(request[r])
<1> DEFINE q == request[r]
<1>1. q \in State /\ scene \in Scenes
  BY OfRequest
<1>2. CASE Redial(r)
  BY <1>2
<1>3. CASE Lose(r)
  BY <1>3, SetGives, EndedOver DEF Lose
<1>4. CASE Accepted(r)
  <2> DEFINE framed == scene.stream /\ Converted /\ q.why \in {"round", "frame"}
             pc == IF framed THEN "first" ELSE "deliver"
             s == [q EXCEPT !.pc = pc, !.status = 200]
  <2>1. request'[r] = s
    BY <1>4, SetGives DEF Accepted
  <2>2. pc \in {"first", "deliver"}
    OBVIOUS
  <2>3. s.pc = pc
    BY <1>1 DEF State
  <2>4. QED
    BY <2>1, <2>2, <2>3
<1>5. CASE Limited(r)
  <2>1. HasNext(q) \/ request'[r] = Failed(q, 503, "plain")
    BY <1>5, SetGives DEF Limited
  <2>2. HasNext(q) => request'[r] = NextUrl(q)
    BY <1>5, SetGives DEF Limited
  <2>3. 503 \in Statuses /\ "plain" \in Details
    BY DEF Statuses, Details
  <2>4. QED
    BY <1>1, <2>1, <2>2, <2>3, FailedGoes
<1>6. CASE Rejected(r)
  <2> DEFINE b == [q EXCEPT !.rejected = @ \cup {q.key}]
  <2>1. request'[r] = Failed(b, 401, "plain")
    BY <1>6, SetGives DEF Rejected
  <2>2. b \in State
    BY <1>1, RejectedType
  <2>3. 401 \in Statuses /\ "plain" \in Details
    BY DEF Statuses, Details
  <2> HIDE DEF b
  <2>4. QED
    BY <2>1, <2>2, <2>3, FailedGoes
<1>7. CASE Refused(r)
  <2>1. PICK status \in scene.refuses, detail \in scene.says :
          IF detail = "unreadable"
            THEN Set(r, Ended([q EXCEPT !.status = status], status))
            ELSE Set(r, Failed(q, status, detail))
    BY <1>7 DEF Refused
  <2>2. status \in Statuses /\ detail \in Details
    BY <1>1, ScenesAssumption DEF Statuses, Details
  <2>3. \/ request'[r] = Ended([q EXCEPT !.status = status], status)
        \/ request'[r] = Failed(q, status, detail)
    BY <2>1, SetGives
  <2>4. QED
    BY <1>1, <2>2, <2>3, FailedGoes, EndedOver
<1>8. CASE BadFrame(r)
  BY <1>8, SetGives, EndedOver DEF BadFrame
<1>9. CASE GoodFrame(r)
  BY <1>1, <1>9, SetGives DEF GoodFrame, State
<1>10. QED
  BY <1>2, <1>3, <1>4, <1>5, <1>6, <1>7, <1>8, <1>9 DEF Upstream

\* What a request has to say of how far it is can be compared.
LEMMA FarTyped ==
  ASSUME SharedType, NEW s \in State
  PROVE  Rank(s.why) \in Nat /\ s.url \in Nat /\ Round(s) \in Nat /\ s.again \in BOOLEAN
<1>1. s.why \in Whys /\ s.url \in 1..scene.urls /\ s.again \in BOOLEAN
  BY DEF State, Urls
<1>2. Rank(s.why) \in Nat
  BY <1>1 DEF Rank, Whys
<1>3. s.url \in Nat
  BY <1>1, DeadNat
<1>4. QED
  BY <1>1, <1>2, <1>3 DEF Round

LEMMA LaterReason ==
  ASSUME SharedType, NEW s \in State, NEW t \in State, Rank(s.why) < Rank(t.why)
  PROVE  Further(t, s)
BY FarTyped DEF Further

\* A request that is sent again to the same URL has another reason than before.
LEMMA AnotherReason ==
  ASSUME RelayInv, NEW r \in Requests, request'[r].pc = "send",
         (BadFrame(r) /\ ~framesTried(request[r])) \/ Auth(r) \/ Unfit(r) \/ Trim(r)
  PROVE  /\ request'[r] \in State
         /\ Rank(request[r].why) < Rank(request'[r].why)
<1> DEFINE q == request[r]
<1>1. q \in State /\ Reasoned(q) /\ AskedOnce(q.body.asks) /\ q.key <= token /\ SharedType
  BY OfRequest
<1>2. CASE BadFrame(r) /\ ~framesTried(q)
  <2>1. request'[r] = Again(q, "frame") /\ q.pc = "first" /\ q.why # "frame"
    BY <1>2, SetGives DEF BadFrame, framesTried
  <2>2. q.why = "round"
    BY <1>1, <2>1 DEF Reasoned
  <2>3. "frame" \in Whys
    BY DEF Whys
  <2>4. request'[r] \in State /\ request'[r].why = "frame"
    <3>1. SentAgain(Again(q, "frame"), q, "frame")
      BY <1>1, <2>1, <2>3, AgainType
    <3>2. QED
      BY <1>1, <2>1, <2>3, <3>1 DEF SentAgain
  <2>5. QED
    BY <2>2, <2>4 DEF Rank
<1>3. CASE Auth(r)
  <2>1. q.pc = "auth"
    BY <1>3 DEF Auth
  <2>2. q.why \in {"round", "frame"} /\ q.key \in Tokens
    BY <1>1, <2>1 DEF Reasoned, State
  <2>3. Refreshed(q.key)
        /\ request'[r] = Again(encoded(Holding(q, token', account' \/ q.header)), "auth")
    BY <1>3, SetGives, EndedOver DEF Auth
  <2> DEFINE named == account' \/ q.header
             held == Holding(q, token', named)
             t == encoded(held)
  <2>4. token' \in Tokens /\ named \in BOOLEAN
    BY <1>1, <2>2, <2>3, RefreshedToken
  <2>5. held = Holding(q, token', named) /\ t = encoded(held)
        /\ request'[r] = Again(t, "auth") /\ "auth" \in Whys
    BY <2>3 DEF Whys
  <2> HIDE DEF named, held, t
  <2>6. held \in State
    BY <1>1, <2>4, <2>5, HoldingType
  <2>7. t \in State
    BY <2>5, <2>6, EncodedType
  <2>8. request'[r] \in State /\ request'[r].why = "auth"
    <3>1. SentAgain(Again(t, "auth"), t, "auth")
      BY <2>5, <2>7, AgainType
    <3>2. QED
      BY <2>5, <2>7, <3>1 DEF SentAgain
  <2>9. QED
    BY <2>2, <2>8 DEF Rank
<1>4. CASE Unfit(r)
  <2>1. q.pc = "unfit"
    BY <1>4 DEF Unfit
  <2>2. q.why \in {"round", "frame", "auth"} /\ q.detail \in Kinds
    BY <1>1, <2>1 DEF Reasoned
  <2> DEFINE a == adapted(q.body.asks, mark(q), scene.protocol)
             b == Asked(q, "unfit", a)
             t == encoded(b)
  <2>3. adapts(q)
    <3>1. ~adapts(q) => request'[r] = Looked(q, "unfit")
      BY <1>4, SetGives DEF Unfit
    <3>2. LookedAfter(Looked(q, "unfit"), q, "unfit")
      BY <1>1, LookedType DEF Looks
    <3>3. Looked(q, "unfit").pc # "send"
      BY <3>2 DEF LookedAfter
    <3>4. QED
      BY <3>1, <3>3
  <2>4. [q EXCEPT !.body.asks = a] = b
    BY <1>1, <2>1 DEF State, Asked
  <2>5. request'[r] = Again(t, "unfit")
    BY <1>4, <2>3, <2>4, SetGives DEF Unfit
  <2>6. b = Asked(q, "unfit", adapted(q.body.asks, mark(q), scene.protocol))
        /\ t = encoded(b) /\ "unfit" \in Whys /\ "unfit" \in Pcs
    BY DEF Whys, Pcs
  <2> HIDE DEF a, b, t
  <2>7. mark(q) \in SUBSET Kinds
    BY <2>2, MarkType
  <2>8. AskedAfter(Asked(q, "unfit", adapted(q.body.asks, mark(q), scene.protocol)),
                   q, "unfit")
    BY <1>1, <2>6, <2>7, AskedType
  <2>9. t \in State
    BY <2>6, <2>8, EncodedType DEF AskedAfter
  <2>10. request'[r] \in State /\ request'[r].why = "unfit"
    <3>1. SentAgain(Again(t, "unfit"), t, "unfit")
      BY <2>5, <2>6, <2>9, AgainType
    <3>2. QED
      BY <2>5, <2>6, <2>9, <3>1 DEF SentAgain
  <2>11. QED
    BY <2>2, <2>10 DEF Rank
<1>5. CASE Trim(r)
  <2> DEFINE body == [q.body EXCEPT !.sealed = {}]
             b == [q EXCEPT !.body = body]
             t == encoded(b)
  <2>1. q.pc = "trim"
    BY <1>5 DEF Trim
  <2>2. q.why # "trim" /\ q.why \in Whys
    BY <1>1, <2>1 DEF Reasoned, State
  <2>3. [q EXCEPT !.body.sealed = {}] = b
    BY <1>1 DEF State
  <2>4. request'[r] = Again(t, "trim")
    BY <1>5, <2>3, SetGives DEF Trim
  <2>5. body \in Body
    BY <1>1 DEF State, Body
  <2> HIDE DEF body
  <2>6. b \in State
    BY <1>1, <2>5 DEF State
  <2>7. t = encoded(b) /\ "trim" \in Whys
    BY DEF Whys
  <2> HIDE DEF b, t
  <2>8. t \in State
    BY <2>6, <2>7, EncodedType
  <2>9. request'[r] \in State /\ request'[r].why = "trim"
    <3>1. SentAgain(Again(t, "trim"), t, "trim")
      BY <2>4, <2>7, <2>8, AgainType
    <3>2. QED
      BY <2>4, <2>7, <2>8, <3>1 DEF SentAgain
  <2>10. QED
    BY <2>2, <2>9 DEF Rank, Whys
<1>6. QED
  BY <1>2, <1>3, <1>4, <1>5

\* A request that is sent again has come further.
LEMMA ComesFurther ==
  ASSUME RelayInv, [Next]_vars, NEW r \in Requests,
         request[r].pc \notin {"fresh", "send"}, request'[r].pc = "send"
  PROVE  Further(request'[r], request[r])
<1> DEFINE q == request[r]
           s == request'[r]
<1>1. q \in State /\ SharedType /\ ToldRight(q)
  BY OfRequest DEF RelayInv, Alone
<1>2. CASE (BadFrame(r) /\ ~framesTried(q)) \/ Auth(r) \/ Unfit(r) \/ Trim(r)
  BY <1>1, <1>2, AnotherReason, LaterReason
<1>3. CASE Redial(r)
  <2>1. ~q.again /\ s = [q EXCEPT !.pc = "send", !.again = TRUE]
    BY <1>3, SetGives DEF Redial
  <2>2. s.why = q.why /\ s.url = q.url /\ s.again = TRUE
    BY <1>1, <2>1, RedialType
  <2>3. Round(s) = Round(q) /\ ~q.again
    BY <2>1, <2>2 DEF Round
  <2>4. QED
    BY <2>2, <2>3 DEF Further
<1>4. CASE HasNext(q) /\ s = NextUrl(q)
  <2>1. /\ s \in State /\ s.why = "round" /\ q.why = "round" /\ s.url = q.url + 1
    BY <1>1, <1>4, NextUrlType DEF HasNext
  <2>2. Round(s) = s.url /\ Round(q) = q.url
    BY <2>1 DEF Round
  <2>3. Round(s) > Round(q)
    BY <1>1, <2>1, <2>2, FarTyped
  <2>4. QED
    BY <2>1, <2>3 DEF Further
<1>5. CASE Clear(r)
  <2>1. s = Looked(q, "clear")
    BY <1>5, SetGives DEF Clear
  <2>2. LookedAfter(Looked(q, "clear"), q, "clear")
    BY <1>1, LookedType DEF Looks
  <2>3. QED
    BY <2>1, <2>2 DEF LookedAfter
<1>6. CASE Begin(r)
  <2>1. s = [Idle EXCEPT !.pc = "fresh", !.generation = generation, !.snapshot = chain,
                         !.body.sealed = scene.sealed \cup Replayed]
    BY <1>6, SetGives DEF Begin
  <2>2. s.pc = "fresh"
    BY <2>1 DEF Idle
  <2>3. QED
    BY <2>2
<1>7. CASE Answer(r) \/ Deliver(r) \/ Spoil(r) \/ Leave(r)
  BY <1>7, SetGives, EndedOver DEF Answer, Deliver, Spoil, Leave
<1>8. CASE Upstream(r)
  BY <1>2, <1>3, <1>4, <1>8, SentAnew
<1>9. Step(r) \/ Upstream(r) \/ Spoil(r) \/ Leave(r)
  BY OwnStep
<1>10. CASE Step(r)
  BY <1>2, <1>5, <1>6, <1>7, <1>10 DEF Step, Fresh, Send
<1>11. QED
  BY <1>7, <1>8, <1>9, <1>10

\* After a dead connection another client is taken.
LEMMA AnotherClient ==
  ASSUME RelayInv, [Next]_vars, NEW r \in Requests,
         request[r].pc = "send", request'[r].pc = "wait", request[r].again
  PROVE  request'[r].client # request[r].client
<1> DEFINE q == request[r]
           client == client_for(q.header)
<1>1. q \in State /\ PoolSound(q, pool, stale) /\ SharedType
  BY OfRequest
<1>2. Send(r)
  <2>1. Step(r) \/ Upstream(r) \/ Spoil(r) \/ Leave(r)
    BY OwnStep
  <2>2. ~Leave(r) /\ ~Spoil(r)
    BY SetGives, EndedOver DEF Leave, Spoil
  <2>3. ~Upstream(r)
    BY DEF Upstream, Redial, Lose, Accepted, Limited, Rejected, Refused, BadFrame, GoodFrame
  <2>4. QED
    BY <2>1, <2>2, <2>3
       DEF Step, Begin, Fresh, Auth, Unfit, Clear, Trim, Answer, Deliver
<1>3. request'[r] = [q EXCEPT !.pc = "wait", !.client = client]
  BY <1>2, SetGives DEF Send
<1>4. request'[r].client = client
  BY <1>1, <1>3 DEF State
<1>5. /\ q.client \in Nat /\ q.client <= stale /\ stale \in Nat
      /\ pool[q.header] = NoClient \/ pool[q.header] > q.client
      /\ q.header \in BOOLEAN
  BY <1>1, DeadNat DEF PoolSound, State, Clients
<1>6. pool[q.header] \in Nat
  BY <1>1, <1>5 DEF SharedType
<1>7. client # q.client
  BY <1>5, <1>6 DEF client_for
<1>8. QED
  BY <1>4, <1>7

\* Whenever a request is sent again it has come further, so that it is sent
\* finitely often, and never by the client whose connection was dead.
THEOREM RepetitionsProgress == Spec => RepeatsProgress
<1>1. RelayInv /\ [Next]_vars =>
        [\A r \in Requests :
           request[r].pc \notin {"fresh", "send"} /\ request'[r].pc = "send"
           => Further(request'[r], request[r])]_vars
  BY ComesFurther
<1>2. RelayInv /\ [Next]_vars =>
        [\A r \in Requests :
           /\ request[r].pc = "send" /\ request'[r].pc = "wait"
           /\ request[r].again
           => request'[r].client # request[r].client]_vars
  BY AnotherClient
<1>3. Spec => NothingRepeated
  BY <1>1, RelayInvariant, PTL DEF Spec, NothingRepeated
<1>4. Spec => FreshAfterStale
  BY <1>2, RelayInvariant, PTL DEF Spec, FreshAfterStale
<1>5. QED
  BY <1>3, <1>4 DEF RepeatsProgress
=============================================================================
