--------------------------- MODULE AnthropicStream ---------------------------
(***************************************************************************)
(* What a client of the Messages API may be shown, whatever the upstream   *)
(* speaks: a message starts once; its content blocks are opened and closed *)
(* one at a time, each under an index of its own; what a block has shown   *)
(* is only added to; after the last block comes a stop reason and the end, *)
(* and until then the stream may fail, after which nothing follows.        *)
(***************************************************************************)
EXTENDS Naturals, SequencesExt

CONSTANTS Kinds,   \* the kinds of content block
          Reasons  \* the stop reasons

VARIABLE client  \* the message as the client has it

Opened(c) == {n \in DOMAIN c.blocks : c.blocks[n].open}

Waiting == [phase |-> "waiting", blocks |-> <<>>, reason |-> "none"]

Init == client = Waiting

MessageStart ==
  /\ client.phase = "waiting"
  /\ client' = [client EXCEPT !.phase = "started"]

BlockStart ==
  /\ client.phase = "started"
  /\ Opened(client) = {}
  /\ Len(client'.blocks) = Len(client.blocks) + 1
  /\ LET block == client'.blocks[Len(client'.blocks)] IN
       /\ block.kind \in Kinds
       /\ block.open
       /\ block.parts = <<>>
       /\ \A n \in DOMAIN client.blocks : client.blocks[n].index # block.index
       /\ client' = [client EXCEPT !.blocks = Append(@, block)]

\* Content is added to the block that is open, or it is signed.
BlockDelta ==
  /\ client.phase = "started"
  /\ Len(client'.blocks) = Len(client.blocks)
  /\ \E n \in Opened(client) :
       LET old == client.blocks[n]
           new == client'.blocks[n] IN
         /\ new = [old EXCEPT !.parts = new.parts, !.sig = new.sig]
         /\ IsPrefix(old.parts, new.parts)
         /\ client' = [client EXCEPT !.blocks[n] = new]

BlockStop ==
  /\ client.phase = "started"
  /\ \E n \in Opened(client) :
       client' = [client EXCEPT !.blocks[n].open = FALSE]

MessageDelta ==
  /\ client.phase = "started"
  /\ Opened(client) = {}
  /\ \E reason \in Reasons :
       client' = [client EXCEPT !.phase = "told", !.reason = reason]

MessageStop ==
  /\ client.phase = "told"
  /\ client' = [client EXCEPT !.phase = "stopped"]

Fail ==
  /\ client.phase \in {"waiting", "started", "told"}
  /\ client' = [client EXCEPT !.phase = "failed"]

Next == \/ MessageStart
        \/ BlockStart
        \/ BlockDelta
        \/ BlockStop
        \/ MessageDelta
        \/ MessageStop
        \/ Fail

Spec == Init /\ [][Next]_client
=============================================================================
