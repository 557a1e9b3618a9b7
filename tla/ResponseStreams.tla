--------------------------- MODULE ResponseStreams ---------------------------
(***************************************************************************)
(* One response, converted from the protocol of whichever upstream the     *)
(* request was routed to, and what its client is promised.                 *)
(***************************************************************************)
EXTENDS RelayedStream

CONSTANTS Protocols, \* the protocols upstreams may speak
          Habits     \* sets of what a Responses upstream may do besides

ASSUME HabitsAssumption ==
  /\ Protocols \subseteq {"chat", "responses", "gemini"}
  /\ Habits \subseteq SUBSET {"interleaves", "repeats", "interrupts"}

VARIABLE protocol

vars == <<client, relay, upstream, protocol>>

Chat == INSTANCE ChatRelay
Responses == INSTANCE ResponsesRelay
Gemini == INSTANCE GeminiRelay

Init ==
  /\ protocol \in Protocols
  /\ \/ protocol = "chat" /\ Chat!Init
     \/ /\ protocol = "responses"
        /\ \E habits \in Habits : Responses!Init(habits)
     \/ protocol = "gemini" /\ Gemini!Init

Receive ==
  /\ \/ protocol = "chat" /\ Chat!Receive
     \/ protocol = "responses" /\ Responses!Receive
     \/ protocol = "gemini" /\ Gemini!Receive
  /\ UNCHANGED protocol

Show == Yield /\ UNCHANGED protocol

Next == Receive \/ Show

\* When the upstream is silent for longer than the idle timeout.
Break ==
  /\ \/ protocol = "chat" /\ Chat!Break
     \/ protocol = "responses" /\ Responses!Break
     \/ protocol = "gemini" /\ Gemini!Break
  /\ UNCHANGED protocol

\* The client reads what is yielded, and silence does not go unnoticed.
Fairness == WF_vars(Show) /\ WF_vars(Break)

Spec == Init /\ [][Next]_vars /\ Fairness
-----------------------------------------------------------------------------
Ended == client.phase \in {"stopped", "failed"}
Stopped == client.phase = "stopped"

\* The calls that got a block, and the blocks of call k.
ToolBlocks(k) == SelectSeq(client.blocks,
                           LAMBDA b : b.kind = "tool_use" /\ b.of = k)

BlockType ==
  [index : Nat, kind : Kinds, of : Items \cup {None}, open : BOOLEAN,
   parts : Seq(Pieces \cup {None}), sig : {Commentary} \cup Nat]

\* The client's message is one a client can have.
TypeOK ==
  /\ protocol \in Protocols
  /\ client.phase \in {"waiting", "started", "told", "stopped", "failed"}
  /\ client.reason \in Reasons \cup {"none"}
  /\ \A n \in DOMAIN client.blocks : client.blocks[n] \in BlockType
  /\ relay.finished \in BOOLEAN
  /\ upstream.count \in 0..MaxPieces
  /\ upstream.named \subseteq Items

Stream == INSTANCE AnthropicStream

\* Every conversion shows a message as the Messages API has it: blocks one at
\* a time, each closed before the next and before the reason; nothing after
\* the end or after an error.
ImplementsAnthropicStream == Stream!Spec

Follows(shown, sent) == IsPrefix(shown, sent) /\ (Stopped => shown = sent)

\* Items that overlap and terminal events that repeat are for other properties.
Plain == protocol = "responses" => upstream.habits = {}

\* What is said in parts for the first time.
Novel(parts) ==
  FoldLeft(LAMBDA novel, part :
             IF part = None \/ part \in ToSet(novel) THEN novel
             ELSE Append(novel, part),
           <<>>, parts)

\* Where an upstream of chat completions repeats what it thought, deltas of it
\* are dropped, and what counts is what each says for the first time.
Thinking(parts) ==
  IF protocol = "chat" /\ upstream.echoes THEN Novel(parts) ELSE parts

\* Text and thinking are shown in the order they were sent, once, and wholly
\* if the message ends well, also what comes while a tool call is open, what
\* comes twice, and what comes only in an item or a terminal event.  Of the
\* thinking of chat completions no delta is lost that is neither blank nor the
\* same as an earlier one.  A turn of chat completions without text may show
\* its thinking as text.
ContentIntact ==
  LET thought == Thinking(FlattenSeq(upstream.thought))
      text    == PartsOf({"text"}) IN
  Plain => /\ Follows(Thinking(PartsOf({"thinking", "redacted"})), thought)
           /\ \/ Follows(text, upstream.said)
              \/ /\ protocol = "chat"
                 /\ upstream.said = <<>>
                 /\ Follows(Thinking(text), thought)

\* The arguments of a call are shown with that call, each piece once and in
\* order, and a message that ends well shows every call that has a name, once.
ArgumentsIntact ==
  \A k \in Items :
    LET blocks == ToolBlocks(k) IN
    /\ Len(blocks) <= 1
    /\ Stopped => Len(blocks) = IF k \in upstream.named THEN 1 ELSE 0
    /\ Stopped /\ blocks # <<>> => blocks[1].parts = upstream.args[k]

\* What the upstream sent is what the client is shown.
SentIsShown == ContentIntact /\ ArgumentsIntact

\* The client is told to use a tool if it was shown one, and only then, and
\* chat completions do not tell it to if some arguments broke off.
ToolUseReason ==
  LET tools == {k \in Items : ToolBlocks(k) # <<>>} IN
  Stopped =>
    /\ client.reason = "tool_use" => tools # {}
    /\ client.reason = "end_turn" => tools = {}
    /\ protocol = "chat" /\ client.reason = "tool_use" =>
         \A k \in tools : Len(upstream.args[k]) # 1

\* The indexes of a message that ended well are those of its blocks, without a
\* gap; and in their order, where calls are not gathered first.
IndexesDense ==
  Stopped =>
    LET n == Len(client.blocks) IN
    /\ {client.blocks[i].index : i \in 1..n} = 0..(n - 1)
    /\ protocol # "chat" => \A i \in 1..n : client.blocks[i].index = i - 1

\* A signature is shown on the thinking it came with, or on none at all: sent
\* back with other thinking it would be refused.
SignaturesBelong ==
  protocol = "responses" =>
    \A n \in DOMAIN client.blocks :
      LET block == client.blocks[n] IN
      /\ block.sig \in Items =>
           ToSet(block.parts) \subseteq ToSet(upstream.thought[block.sig])
      /\ block.sig > MaxItems =>
           ToSet(block.parts)
             \subseteq ToSet(upstream.thought[block.sig - MaxItems])

\* The client of every response is told how it ended.
StreamEnds == <>Ended
-----------------------------------------------------------------------------
\* What the code says of the text of the terminal event: it is shown only if
\* no text has been shown.
TextShownOnce == IsInjective(PartsOf({"text"}))
=============================================================================
