---------------------------- MODULE RelayedStream ----------------------------
(***************************************************************************)
(* What the three conversions of a response stream share: the upstream     *)
(* that sends events, the state machine that turns each event into a list  *)
(* of frames, and the client that is shown one frame after the other.  The *)
(* next event is taken when the frames of the last one have been yielded.  *)
(*                                                                         *)
(* Text, thinking and tool arguments are sent in pieces, numbered in the   *)
(* order they are sent, so that a piece lost, repeated or moved shows.  A  *)
(* block has the parts shown in it, the tool call it is about, if any, and *)
(* the item whose signature it carries.                                    *)
(***************************************************************************)
EXTENDS Integers, SequencesExt, FiniteSetsExt

CONSTANTS MaxPieces, \* bound on the pieces a response is sent in
          MaxItems   \* bound on its tool calls, or output items

ASSUME SizeAssumption == MaxPieces \in Nat /\ MaxItems \in Nat \ {0}

VARIABLES
  client,   \* the message as the client has it
  relay,    \* the state machine, with the frames not yet yielded
  upstream  \* what the upstream has sent

None == 0
Pieces == 1..MaxPieces
Items == 1..MaxItems

\* Signature of the blocks that show a commentary message.
Commentary == -1

Kinds == {"text", "thinking", "redacted", "tool_use", "search", "result"}
Reasons == {"end_turn", "max_tokens", "tool_use", "refusal"}
-----------------------------------------------------------------------------
(***************************************************************************)
(* Frames, and what a client makes of them.                                *)
(***************************************************************************)
MessageStart == [type |-> "message_start"]
BlockStart(index, kind, of) ==
  [type |-> "content_block_start",
   block |-> [index |-> index, kind |-> kind, of |-> of, open |-> TRUE,
              parts |-> <<>>, sig |-> None]]
BlockDelta(index, parts) ==
  [type |-> "content_block_delta", index |-> index, parts |-> parts]
SignatureDelta(index, sig) ==
  [type |-> "signature_delta", index |-> index, sig |-> sig]
BlockStop(index) == [type |-> "content_block_stop", index |-> index]
MessageDelta(reason) == [type |-> "message_delta", reason |-> reason]
MessageStop == [type |-> "message_stop"]
StreamError == [type |-> "error"]

Emit(s, frame) == [s EXCEPT !.out = Append(@, frame)]

\* Places of the block a frame is about.  A frame about no block confuses the
\* client.
Open(c, index) == {n \in DOMAIN c.blocks : /\ c.blocks[n].index = index
                                           /\ c.blocks[n].open}
Changed(block, frame) ==
  CASE frame.type = "content_block_delta" ->
         [block EXCEPT !.parts = @ \o frame.parts]
    [] frame.type = "signature_delta" -> [block EXCEPT !.sig = frame.sig]
    [] frame.type = "content_block_stop" -> [block EXCEPT !.open = FALSE]

Update(c, frame) ==
  IF Open(c, frame.index) = {} THEN [c EXCEPT !.phase = "confused"]
  ELSE [c EXCEPT !.blocks = [n \in DOMAIN @ |->
          IF n \in Open(c, frame.index) THEN Changed(@[n], frame) ELSE @[n]]]

Shown(c, frame) ==
  CASE frame.type = "message_start" -> [c EXCEPT !.phase = "started"]
    [] frame.type = "content_block_start" ->
         [c EXCEPT !.blocks = Append(@, frame.block)]
    [] frame.type = "message_delta" ->
         [c EXCEPT !.phase = "told", !.reason = frame.reason]
    [] frame.type = "message_stop" -> [c EXCEPT !.phase = "stopped"]
    [] frame.type = "error" -> [c EXCEPT !.phase = "failed"]
    [] OTHER -> Update(c, frame)

\* The next frame is yielded.
Yield ==
  /\ relay.out # <<>>
  /\ client' = Shown(client, Head(relay.out))
  /\ relay' = [relay EXCEPT !.out = Tail(@)]
  /\ UNCHANGED upstream

\* The stream is read on when all is yielded, and not after a terminal event.
Reads == relay.out = <<>> /\ ~relay.finished
-----------------------------------------------------------------------------
(***************************************************************************)
(* What has been shown.                                                    *)
(***************************************************************************)
BlocksOf(kinds) == SelectSeq(client.blocks, LAMBDA b : b.kind \in kinds)
PartsOf(kinds) == FlattenSeq([n \in DOMAIN BlocksOf(kinds) |->
                                BlocksOf(kinds)[n].parts])
=============================================================================
