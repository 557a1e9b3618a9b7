------------------------ MODULE ResponseStreamsProofs ------------------------
(***************************************************************************)
(* Proofs about the conversions of response streams: for responses of any  *)
(* length, any number of tool calls and output items, and any mixture of   *)
(* the protocols.                                                          *)
(***************************************************************************)
EXTENDS ResponseStreams, FoldLemmas

-----------------------------------------------------------------------------
(***************************************************************************)
(* Messages, and the frames that fit them.                                 *)
(***************************************************************************)
Parts  == Seq(Int)
Phases == {"waiting", "started", "told", "stopped", "failed"}

Blocks == [index : Nat, kind : Kinds, of : Int, open : BOOLEAN, parts : Parts,
           sig : Int]

\* Blocks have indexes of their own, and one at most is open.
OneAtATime(blocks) ==
  \A m, n \in DOMAIN blocks :
    \/ blocks[m].index = blocks[n].index
    \/ blocks[m].open /\ blocks[n].open
    => m = n

BlockLists == {blocks \in Seq(Blocks) : OneAtATime(blocks)}

Messages == [phase : Phases, blocks : BlockLists, reason : Reasons \cup {"none"}]

\* Which blocks are open, their indexes and all indexes, and whether these are in
\* order.
OpenIn(blocks)    == {n \in DOMAIN blocks : blocks[n].open}
Opens(blocks)     == {blocks[n].index : n \in OpenIn(blocks)}
IndexesIn(blocks) == {blocks[n].index : n \in DOMAIN blocks}
Ordered(blocks)   == \A n \in DOMAIN blocks : blocks[n].index = n - 1

\* A frame that a client of the Messages API can be shown now.
Fits(d, frame) ==
  \/ frame = MessageStart /\ d.phase = "waiting"
  \/ \E i \in Nat, kind \in Kinds, of \in Int :
       /\ frame = BlockStart(i, kind, of)
       /\ d.phase = "started" /\ Opens(d.blocks) = {} /\ i \notin IndexesIn(d.blocks)
  \/ \E i \in Nat, parts \in Parts :
       frame = BlockDelta(i, parts) /\ d.phase = "started" /\ i \in Opens(d.blocks)
  \/ \E i \in Nat, sig \in Int :
       frame = SignatureDelta(i, sig) /\ d.phase = "started" /\ i \in Opens(d.blocks)
  \/ \E i \in Nat : frame = BlockStop(i) /\ d.phase = "started" /\ i \in Opens(d.blocks)
  \/ \E reason \in Reasons :
       frame = MessageDelta(reason) /\ d.phase = "started" /\ Opens(d.blocks) = {}
  \/ frame = MessageStop /\ d.phase = "told"
  \/ frame = StreamError /\ d.phase \in {"waiting", "started", "told"}

\* How a message looks to a conversion: its phase, the indexes of the blocks that
\* are open and of all, and whether they are in order if that is asked for.
Looks(d, phase, open, used, order) ==
  /\ d \in Messages
  /\ d.phase = phase
  /\ Opens(d.blocks) = open
  /\ IndexesIn(d.blocks) = used
  /\ order => Ordered(d.blocks)

LEMMA MessageFields ==
  ASSUME NEW d \in Messages
  PROVE  /\ d.blocks \in BlockLists
         /\ d.blocks \in Seq(Blocks)
         /\ \A n \in DOMAIN d.blocks : d.blocks[n] \in Blocks
         /\ d.phase \in Phases
         /\ d.reason \in Reasons \cup {"none"}
BY DEF Messages, BlockLists

LEMMA PhaseChanged ==
  ASSUME NEW d \in Messages, NEW phase \in Phases, NEW reason \in Reasons
  PROVE  /\ [d EXCEPT !.phase = phase] \in Messages
         /\ [d EXCEPT !.phase = phase, !.reason = reason] \in Messages
BY DEF Messages

LEMMA BlocksChanged ==
  ASSUME NEW d \in Messages, NEW blocks \in BlockLists
  PROVE  LET e == [d EXCEPT !.blocks = blocks] IN
         /\ e \in Messages
         /\ e.phase = d.phase /\ e.reason = d.reason /\ e.blocks = blocks
BY DEF Messages

\* A block that is started is the only one that is open.
LEMMA Appended ==
  ASSUME NEW blocks \in BlockLists, NEW block \in Blocks, block.open,
         Opens(blocks) = {}, block.index \notin IndexesIn(blocks)
  PROVE  LET more == Append(blocks, block) IN
         /\ more \in BlockLists
         /\ Opens(more) = {block.index}
         /\ IndexesIn(more) = IndexesIn(blocks) \cup {block.index}
         /\ Ordered(more) = (Ordered(blocks) /\ block.index = Len(blocks))
<1> DEFINE more == Append(blocks, block)
           n == Len(blocks)
<1>1. /\ n \in Nat
      /\ more \in Seq(Blocks)
      /\ DOMAIN more = 1..(n + 1) /\ DOMAIN blocks = 1..n
      /\ \A m \in 1..n : more[m] = blocks[m]
      /\ more[n + 1] = block
      /\ Len(more) = n + 1
  BY DEF BlockLists
<1> HIDE DEF more, n
<1>2. /\ \A m \in 1..(n + 1) : m \in 1..n \/ m = n + 1
      /\ n + 1 \in 1..(n + 1) /\ 1..n \subseteq 1..(n + 1) /\ (n + 1) - 1 = n
      /\ n + 1 \notin 1..n
  BY <1>1
<1>3. \A m \in 1..n : ~blocks[m].open /\ blocks[m].index # block.index
  BY <1>1 DEF Opens, IndexesIn, OpenIn
<1>4. OneAtATime(more)
  <2>1. \A m, k \in 1..n : more[m].index = more[k].index => m = k
    BY <1>1 DEF OneAtATime, BlockLists
  <2>2. \A m \in 1..n : ~more[m].open /\ more[m].index # more[n + 1].index
    BY <1>1, <1>3
  <2>3. SUFFICES ASSUME NEW m \in 1..(n + 1), NEW k \in 1..(n + 1),
                        \/ more[m].index = more[k].index
                        \/ more[m].open /\ more[k].open
                 PROVE  m = k
    BY <1>1 DEF OneAtATime
  <2>4. QED
    BY <1>2, <2>1, <2>2, <2>3
<1>5. OpenIn(more) = {n + 1}
  BY <1>1, <1>2, <1>3 DEF OpenIn
<1>6. Opens(more) = {block.index}
  BY <1>1, <1>5 DEF Opens
<1>7. IndexesIn(more) = IndexesIn(blocks) \cup {block.index}
  BY <1>1, <1>2 DEF IndexesIn
<1>8. Ordered(more) = (Ordered(blocks) /\ block.index = n)
  BY <1>1, <1>2 DEF Ordered
<1>9. more \in BlockLists
  BY <1>1, <1>4 DEF BlockLists
<1>10. QED
  BY <1>1, <1>6, <1>7, <1>8, <1>9 DEF more, n

\* A frame about the open block changes that block alone.
LEMMA OpenBlock ==
  ASSUME NEW blocks \in BlockLists, NEW i \in Opens(blocks)
  PROVE  \E n \in DOMAIN blocks :
           /\ OpenIn(blocks) = {n}
           /\ Opens(blocks) = {i}
           /\ blocks[n].index = i /\ blocks[n].open
<1>1. PICK n \in DOMAIN blocks : blocks[n].open /\ blocks[n].index = i
  BY DEF Opens, OpenIn
<1>2. \A m \in DOMAIN blocks : blocks[m].open => m = n
  BY <1>1 DEF OneAtATime, BlockLists
<1>3. OpenIn(blocks) = {n}
  BY <1>1, <1>2 DEF OpenIn
<1>4. QED
  BY <1>1, <1>3 DEF Opens

LEMMA BlockChanged ==
  ASSUME NEW blocks \in BlockLists, NEW n \in OpenIn(blocks), NEW block \in Blocks,
         block.index = blocks[n].index, block.kind = blocks[n].kind
  PROVE  LET new == [blocks EXCEPT ![n] = block] IN
         /\ new \in BlockLists
         /\ Opens(new) = IF block.open THEN Opens(blocks) ELSE {}
         /\ IndexesIn(new) = IndexesIn(blocks)
         /\ Ordered(new) = Ordered(blocks)
<1> DEFINE new == [blocks EXCEPT ![n] = block]
<1>1. /\ blocks \in Seq(Blocks) /\ n \in DOMAIN blocks /\ blocks[n].open
      /\ OneAtATime(blocks)
  BY DEF OpenIn, BlockLists
<1>2. /\ new \in Seq(Blocks) /\ Len(new) = Len(blocks)
      /\ DOMAIN new = DOMAIN blocks
      /\ new[n] = block
      /\ \A m \in DOMAIN blocks : m # n => new[m] = blocks[m]
      /\ \A m \in DOMAIN blocks : new[m].index = blocks[m].index
                                  /\ new[m].kind = blocks[m].kind
  <2>1. new \in Seq(Blocks) /\ Len(new) = Len(blocks) /\ DOMAIN new = DOMAIN blocks
    BY <1>1
  <2>2. QED
    BY <1>1, <2>1
<1> HIDE DEF new
<1>3. \A m \in DOMAIN blocks : new[m].open => blocks[m].open
  BY <1>1, <1>2
<1>4. OneAtATime(new)
  BY <1>1, <1>2, <1>3 DEF OneAtATime
<1>5. \A m \in DOMAIN blocks : blocks[m].open => m = n
  BY <1>1 DEF OneAtATime
<1>6. Opens(new) = IF block.open THEN Opens(blocks) ELSE {}
  BY <1>1, <1>2, <1>3, <1>5 DEF Opens, OpenIn
<1>7. /\ IndexesIn(new) = IndexesIn(blocks)
      /\ Ordered(new) = Ordered(blocks)
  BY <1>2 DEF IndexesIn, Ordered
<1>8. QED
  BY <1>2, <1>4, <1>6, <1>7 DEF new, BlockLists
-----------------------------------------------------------------------------
(***************************************************************************)
(* What is shown, frame by frame.                                          *)
(***************************************************************************)
\* A frame that changes the phase, and perhaps the reason, and no block.
LEMMA PhaseShown ==
  ASSUME NEW d \in Messages, NEW phase \in Phases, NEW reason \in Reasons,
         NEW open, NEW used, NEW order, Looks(d, d.phase, open, used, order),
         NEW e, \/ e = [d EXCEPT !.phase = phase]
                \/ e = [d EXCEPT !.phase = phase, !.reason = reason]
  PROVE  Looks(e, phase, open, used, order)
<1>1. e \in Messages
  BY PhaseChanged
<1>2. e.phase = phase /\ e.blocks = d.blocks
  BY DEF Messages
<1>3. QED
  BY <1>1, <1>2 DEF Looks

LEMMA MessageStartShown ==
  ASSUME NEW d, NEW open, NEW used, NEW order, Looks(d, "waiting", open, used, order)
  PROVE  /\ Fits(d, MessageStart)
         /\ Looks(Shown(d, MessageStart), "started", open, used, order)
<1>1. Shown(d, MessageStart) = [d EXCEPT !.phase = "started"]
  BY DEF Shown, MessageStart
<1>2. "started" \in Phases /\ "refusal" \in Reasons
  BY DEF Phases, Reasons
<1>3. d \in Messages /\ d.phase = "waiting" /\ Looks(d, d.phase, open, used, order)
  BY DEF Looks
<1>4. Fits(d, MessageStart)
  BY <1>3 DEF Fits
<1>5. Looks([d EXCEPT !.phase = "started"], "started", open, used, order)
  BY <1>2, <1>3, PhaseShown
<1>6. QED
  BY <1>1, <1>4, <1>5

LEMMA MessageStopShown ==
  ASSUME NEW d, NEW open, NEW used, NEW order, Looks(d, "told", open, used, order)
  PROVE  /\ Fits(d, MessageStop)
         /\ Looks(Shown(d, MessageStop), "stopped", open, used, order)
<1>1. Shown(d, MessageStop) = [d EXCEPT !.phase = "stopped"]
  BY DEF Shown, MessageStop
<1>2. "stopped" \in Phases /\ "refusal" \in Reasons
  BY DEF Phases, Reasons
<1>3. d \in Messages /\ d.phase = "told" /\ Looks(d, d.phase, open, used, order)
  BY DEF Looks
<1>4. Fits(d, MessageStop)
  BY <1>3 DEF Fits
<1>5. Looks([d EXCEPT !.phase = "stopped"], "stopped", open, used, order)
  BY <1>2, <1>3, PhaseShown
<1>6. QED
  BY <1>1, <1>4, <1>5

LEMMA ErrorShown ==
  ASSUME NEW d, NEW phase \in {"waiting", "started", "told"},
         NEW open, NEW used, NEW order, Looks(d, phase, open, used, order)
  PROVE  /\ Fits(d, StreamError)
         /\ Looks(Shown(d, StreamError), "failed", open, used, order)
<1>1. Shown(d, StreamError) = [d EXCEPT !.phase = "failed"]
  BY DEF Shown, StreamError
<1>2. "failed" \in Phases /\ "refusal" \in Reasons
  BY DEF Phases, Reasons
<1>3. d \in Messages /\ d.phase = phase /\ Looks(d, d.phase, open, used, order)
  BY DEF Looks
<1>4. Fits(d, StreamError)
  BY <1>3 DEF Fits
<1>5. Looks([d EXCEPT !.phase = "failed"], "failed", open, used, order)
  BY <1>2, <1>3, PhaseShown
<1>6. QED
  BY <1>1, <1>4, <1>5

LEMMA ReasonShown ==
  ASSUME NEW d, NEW reason \in Reasons, NEW used, NEW order,
         Looks(d, "started", {}, used, order)
  PROVE  /\ Fits(d, MessageDelta(reason))
         /\ Looks(Shown(d, MessageDelta(reason)), "told", {}, used, order)
<1>1. Shown(d, MessageDelta(reason)) = [d EXCEPT !.phase = "told", !.reason = reason]
  BY DEF Shown, MessageDelta
<1>2. "told" \in Phases
  BY DEF Phases
<1>3. d \in Messages /\ d.phase = "started" /\ Looks(d, d.phase, {}, used, order)
      /\ Opens(d.blocks) = {}
  BY DEF Looks
<1>4. Fits(d, MessageDelta(reason))
  BY <1>3 DEF Fits
<1>5. Looks([d EXCEPT !.phase = "told", !.reason = reason], "told", {}, used, order)
  BY <1>2, <1>3, PhaseShown
<1>6. QED
  BY <1>1, <1>4, <1>5

\* Blocks in order are as many as their indexes say.
LEMMA OrderedLength ==
  ASSUME NEW blocks \in Seq(Blocks), Ordered(blocks),
         NEW i \in Nat, IndexesIn(blocks) = 0..(i - 1)
  PROVE  Len(blocks) = i
<1> DEFINE n == Len(blocks)
<1>1. n \in Nat /\ DOMAIN blocks = 1..n
  OBVIOUS
<1> HIDE DEF n
<1>2. ASSUME n < i PROVE FALSE
  <2>1. n \in 0..(i - 1)
    BY <1>1, <1>2
  <2>2. PICK m \in 1..n : blocks[m].index = n
    BY <2>1, <1>1 DEF IndexesIn
  <2>3. QED
    BY <1>1, <2>2 DEF Ordered
<1>3. ASSUME i < n PROVE FALSE
  <2>1. i + 1 \in 1..n
    BY <1>1, <1>3
  <2>2. blocks[i + 1].index = i
    <3>1. \A m \in 1..n : blocks[m].index = m - 1
      BY <1>1 DEF Ordered
    <3>2. (i + 1) - 1 = i
      OBVIOUS
    <3>3. QED
      BY <2>1, <3>1, <3>2
  <2>3. i \in IndexesIn(blocks)
    BY <1>1, <2>1, <2>2 DEF IndexesIn
  <2>4. QED
    BY <2>3
<1>4. n = i
  BY <1>1, <1>2, <1>3
<1>5. QED
  BY <1>4 DEF n

LEMMA StartShown ==
  ASSUME NEW d, NEW i \in Nat, NEW kind \in Kinds, NEW of \in Int,
         NEW used, NEW order, Looks(d, "started", {}, used, order),
         i \notin used, order => used = 0..(i - 1)
  PROVE  LET frame == BlockStart(i, kind, of) IN
         /\ Fits(d, frame)
         /\ Looks(Shown(d, frame), "started", {i}, used \cup {i}, order)
<1> DEFINE block == BlockStart(i, kind, of).block
           more == Append(d.blocks, block)
           e == [d EXCEPT !.blocks = more]
<1>0. d \in Messages /\ d.phase = "started" /\ Opens(d.blocks) = {}
      /\ IndexesIn(d.blocks) = used /\ d.blocks \in BlockLists
      /\ d.blocks \in Seq(Blocks) /\ (order => Ordered(d.blocks))
  BY MessageFields DEF Looks
<1>1. /\ block \in Blocks /\ block.index = i /\ block.kind = kind /\ block.open
  <2>1. << >> \in Parts
    BY DEF Parts
  <2>2. QED
    BY <2>1 DEF BlockStart, Blocks, None
<1>2. Shown(d, BlockStart(i, kind, of)) = e
  BY DEF Shown, BlockStart
<1>3. Fits(d, BlockStart(i, kind, of))
  BY <1>0 DEF Fits
<1> HIDE DEF block
<1>4. /\ more \in BlockLists
      /\ Opens(more) = {i}
      /\ IndexesIn(more) = used \cup {i}
      /\ Ordered(more) = (Ordered(d.blocks) /\ i = Len(d.blocks))
  BY <1>0, <1>1, Appended
<1>5. order => Ordered(more)
  BY <1>0, <1>4, OrderedLength
<1> HIDE DEF more
<1>6. e \in Messages /\ e.phase = "started" /\ e.blocks = more
  BY <1>0, <1>4, BlocksChanged
<1>7. QED
  BY <1>2, <1>3, <1>4, <1>5, <1>6 DEF Looks

\* A frame about the block that is open changes it, and no other.
LEMMA Updated ==
  ASSUME NEW d \in Messages, NEW frame, NEW n \in OpenIn(d.blocks),
         frame.index = d.blocks[n].index
  PROVE  Update(d, frame)
           = [d EXCEPT !.blocks = [d.blocks EXCEPT ![n] = Changed(d.blocks[n], frame)]]
<1>1. n \in DOMAIN d.blocks /\ d.blocks[n].open
  BY DEF OpenIn
<1>2. \A m \in DOMAIN d.blocks : d.blocks[m].open => m = n
  BY <1>1, MessageFields DEF OneAtATime, BlockLists
<1>3. Open(d, frame.index) = {n}
  BY <1>1, <1>2 DEF Open
<1>4. [m \in DOMAIN d.blocks |-> IF m \in {n} THEN Changed(d.blocks[m], frame)
                                 ELSE d.blocks[m]]
        = [d.blocks EXCEPT ![n] = Changed(d.blocks[n], frame)]
  BY <1>1
<1>5. QED
  BY <1>3, <1>4 DEF Update

LEMMA ChangeShown ==
  ASSUME NEW d, NEW i \in Nat, NEW used, NEW order,
         Looks(d, "started", {i}, used, order),
         NEW frame, frame.index = i, Shown(d, frame) = Update(d, frame),
         NEW open \in BOOLEAN,
         \A block \in Blocks : block.open =>
           /\ Changed(block, frame) \in Blocks
           /\ Changed(block, frame).index = block.index
           /\ Changed(block, frame).kind = block.kind
           /\ Changed(block, frame).open = open
  PROVE  Looks(Shown(d, frame), "started", IF open THEN {i} ELSE {}, used, order)
<1>0. d \in Messages /\ d.phase = "started" /\ Opens(d.blocks) = {i}
      /\ IndexesIn(d.blocks) = used /\ d.blocks \in BlockLists
      /\ (order => Ordered(d.blocks))
  BY MessageFields DEF Looks
<1>1. PICK n \in DOMAIN d.blocks : OpenIn(d.blocks) = {n} /\ d.blocks[n].index = i
                                   /\ d.blocks[n].open
  BY <1>0, OpenBlock
<1>2. d.blocks[n] \in Blocks /\ n \in OpenIn(d.blocks)
  BY <1>0, <1>1, MessageFields
<1> DEFINE block == Changed(d.blocks[n], frame)
           new == [d.blocks EXCEPT ![n] = block]
           e == [d EXCEPT !.blocks = new]
<1>3. /\ block \in Blocks /\ block.index = d.blocks[n].index
      /\ block.kind = d.blocks[n].kind /\ block.open = open
  BY <1>1, <1>2
<1>4. Shown(d, frame) = e
  BY <1>0, <1>1, <1>2, Updated
<1> HIDE DEF block
<1>5. /\ new \in BlockLists
      /\ Opens(new) = IF block.open THEN Opens(d.blocks) ELSE {}
      /\ IndexesIn(new) = IndexesIn(d.blocks)
      /\ Ordered(new) = Ordered(d.blocks)
  BY <1>0, <1>2, <1>3, BlockChanged
<1> HIDE DEF new
<1>6. e \in Messages /\ e.phase = d.phase /\ e.blocks = new
  BY <1>0, <1>5, BlocksChanged
<1>7. Opens(new) = IF open THEN {i} ELSE {}
  BY <1>0, <1>3, <1>5
<1>8. QED
  BY <1>0, <1>4, <1>5, <1>6, <1>7 DEF Looks

LEMMA DeltaShown ==
  ASSUME NEW d, NEW parts \in Parts, NEW i \in Nat, NEW used, NEW order,
         Looks(d, "started", {i}, used, order)
  PROVE  LET frame == BlockDelta(i, parts) IN
         /\ Fits(d, frame)
         /\ Looks(Shown(d, frame), "started", {i}, used, order)
<1> DEFINE frame == BlockDelta(i, parts)
<1>1. frame.index = i /\ Shown(d, frame) = Update(d, frame)
  BY DEF BlockDelta, Shown
<1>2. ASSUME NEW block \in Blocks, block.open
      PROVE  /\ Changed(block, frame) \in Blocks
             /\ Changed(block, frame).index = block.index
             /\ Changed(block, frame).kind = block.kind
             /\ Changed(block, frame).open = TRUE
  <2>1. Changed(block, frame) = [block EXCEPT !.parts = @ \o parts]
    BY DEF Changed, BlockDelta
  <2>2. block.parts \o parts \in Parts
    BY DEF Parts, Blocks
  <2>3. QED
    BY <1>2, <2>1, <2>2 DEF Blocks
<1>3. Fits(d, frame)
  BY DEF Fits, Looks
<1> HIDE DEF frame
<1>4. Looks(Shown(d, frame), "started", IF TRUE THEN {i} ELSE {}, used, order)
  BY <1>1, <1>2, ChangeShown
<1>5. QED
  BY <1>3, <1>4 DEF frame

LEMMA SignatureShown ==
  ASSUME NEW d, NEW sig \in Int, NEW i \in Nat, NEW used, NEW order,
         Looks(d, "started", {i}, used, order)
  PROVE  LET frame == SignatureDelta(i, sig) IN
         /\ Fits(d, frame)
         /\ Looks(Shown(d, frame), "started", {i}, used, order)
<1> DEFINE frame == SignatureDelta(i, sig)
<1>1. frame.index = i /\ Shown(d, frame) = Update(d, frame)
  BY DEF SignatureDelta, Shown
<1>2. ASSUME NEW block \in Blocks, block.open
      PROVE  /\ Changed(block, frame) \in Blocks
             /\ Changed(block, frame).index = block.index
             /\ Changed(block, frame).kind = block.kind
             /\ Changed(block, frame).open = TRUE
  <2>1. Changed(block, frame) = [block EXCEPT !.sig = sig]
    BY DEF Changed, SignatureDelta
  <2>2. QED
    BY <1>2, <2>1 DEF Blocks
<1>3. Fits(d, frame)
  BY DEF Fits, Looks
<1> HIDE DEF frame
<1>4. Looks(Shown(d, frame), "started", IF TRUE THEN {i} ELSE {}, used, order)
  BY <1>1, <1>2, ChangeShown
<1>5. QED
  BY <1>3, <1>4 DEF frame

LEMMA StopShown ==
  ASSUME NEW d, NEW i \in Nat, NEW used, NEW order,
         Looks(d, "started", {i}, used, order)
  PROVE  LET frame == BlockStop(i) IN
         /\ Fits(d, frame)
         /\ Looks(Shown(d, frame), "started", {}, used, order)
<1> DEFINE frame == BlockStop(i)
<1>1. frame.index = i /\ Shown(d, frame) = Update(d, frame)
  BY DEF BlockStop, Shown
<1>2. ASSUME NEW block \in Blocks, block.open
      PROVE  /\ Changed(block, frame) \in Blocks
             /\ Changed(block, frame).index = block.index
             /\ Changed(block, frame).kind = block.kind
             /\ Changed(block, frame).open = FALSE
  <2>1. Changed(block, frame) = [block EXCEPT !.open = FALSE]
    BY DEF Changed, BlockStop
  <2>2. QED
    BY <1>2, <2>1 DEF Blocks
<1>3. Fits(d, frame)
  BY DEF Fits, Looks
<1> HIDE DEF frame
<1>4. Looks(Shown(d, frame), "started", IF FALSE THEN {i} ELSE {}, used, order)
  BY <1>1, <1>2, ChangeShown
<1>5. QED
  BY <1>3, <1>4 DEF frame
-----------------------------------------------------------------------------
(***************************************************************************)
(* What is shown by the frames that are to be yielded.                     *)
(***************************************************************************)
Frames ==
  {MessageStart, MessageStop, StreamError}
    \cup {BlockStart(i, kind, of) : i \in Nat, kind \in Kinds, of \in Int}
    \cup {BlockDelta(i, parts) : i \in Nat, parts \in Parts}
    \cup {SignatureDelta(i, sig) : i \in Nat, sig \in Int}
    \cup {BlockStop(i) : i \in Nat}
    \cup {MessageDelta(reason) : reason \in Reasons}

\* The messages in between: each frame of out fits the one it is shown to.
Between(c, out, d, w) ==
  /\ w \in [0..Len(out) -> Messages]
  /\ w[0] = c /\ w[Len(out)] = d
  /\ \A i \in 1..Len(out) : Fits(w[i - 1], out[i]) /\ w[i] = Shown(w[i - 1], out[i])

Becomes(c, out, d) == \E w : Between(c, out, d, w)

\* How message c looks when the frames of out have been shown.
Ends(c, out, phase, open, used, order) ==
  /\ out \in Seq(Frames)
  /\ \E d : Becomes(c, out, d) /\ Looks(d, phase, open, used, order)

LEMMA FrameTypes ==
  /\ MessageStart \in Frames /\ MessageStop \in Frames /\ StreamError \in Frames
  /\ \A i \in Nat, kind \in Kinds, of \in Int : BlockStart(i, kind, of) \in Frames
  /\ \A i \in Nat, parts \in Parts : BlockDelta(i, parts) \in Frames
  /\ \A i \in Nat, sig \in Int : SignatureDelta(i, sig) \in Frames
  /\ \A i \in Nat : BlockStop(i) \in Frames
  /\ \A reason \in Reasons : MessageDelta(reason) \in Frames
BY DEF Frames

LEMMA NothingEmitted ==
  ASSUME NEW c, NEW phase, NEW open, NEW used, NEW order,
         Looks(c, phase, open, used, order)
  PROVE  Ends(c, << >>, phase, open, used, order)
<1> DEFINE w == [i \in 0..0 |-> c]
<1>1. c \in Messages /\ Len(<< >>) = 0 /\ << >> \in Seq(Frames)
  BY DEF Looks
<1>2. Between(c, << >>, c, w)
  BY <1>1 DEF Between
<1>3. QED
  BY <1>1, <1>2 DEF Ends, Becomes

LEMMA Emitted ==
  ASSUME NEW c, NEW out \in Seq(Frames), NEW d, NEW frame \in Frames,
         Becomes(c, out, d), Fits(d, frame), Shown(d, frame) \in Messages
  PROVE  Becomes(c, Append(out, frame), Shown(d, frame))
<1> DEFINE n == Len(out)
           more == Append(out, frame)
           e == Shown(d, frame)
<1>1. PICK w : Between(c, out, d, w)
  BY DEF Becomes
<1> DEFINE v == [i \in 0..(n + 1) |-> IF i = n + 1 THEN e ELSE w[i]]
<1>2. /\ n \in Nat /\ Len(more) = n + 1
      /\ \A i \in 1..n : more[i] = out[i]
      /\ more[n + 1] = frame
  OBVIOUS
<1> HIDE DEF n, more, e
<1>3. /\ w \in [0..n -> Messages] /\ w[0] = c /\ w[n] = d
      /\ \A i \in 1..n : Fits(w[i - 1], out[i]) /\ w[i] = Shown(w[i - 1], out[i])
  BY <1>1 DEF Between, n
<1>4. v \in [0..(n + 1) -> Messages] /\ v[0] = c /\ v[n + 1] = e /\ v[n] = d
      /\ \A i \in 0..n : v[i] = w[i]
  <2>1. \A i \in 0..(n + 1) : i # n + 1 => i \in 0..n
    BY <1>2
  <2>2. e \in Messages /\ 0 # n + 1 /\ n # n + 1 /\ 0 \in 0..(n + 1) /\ n \in 0..(n + 1)
        /\ n + 1 \in 0..(n + 1)
    BY <1>2 DEF e
  <2>3. \A i \in 0..n : i \in 0..(n + 1) /\ i # n + 1
    BY <1>2
  <2>4. QED
    BY <1>3, <2>1, <2>2, <2>3
<1> HIDE DEF v
<1>5. ASSUME NEW i \in 1..(n + 1)
      PROVE  Fits(v[i - 1], more[i]) /\ v[i] = Shown(v[i - 1], more[i])
  <2>1. CASE i = n + 1
    <3>1. i - 1 = n
      BY <1>2, <2>1
    <3>2. QED
      BY <1>2, <1>4, <2>1, <3>1 DEF e
  <2>2. CASE i # n + 1
    <3>1. i \in 1..n /\ i \in 0..n /\ i - 1 \in 0..n
      BY <1>2, <2>2
    <3>2. QED
      BY <1>2, <1>3, <1>4, <3>1
  <2>3. QED
    BY <2>1, <2>2
<1>6. Between(c, more, e, v)
  BY <1>2, <1>4, <1>5 DEF Between
<1>7. QED
  BY <1>6 DEF Becomes, more, e

\* The first frame is shown, and the others after it.
LEMMA FirstShown ==
  ASSUME NEW c, NEW out \in Seq(Frames), out # << >>, NEW d, Becomes(c, out, d)
  PROVE  /\ c \in Messages
         /\ Fits(c, Head(out))
         /\ Shown(c, Head(out)) \in Messages
         /\ Becomes(Shown(c, Head(out)), Tail(out), d)
<1> DEFINE n == Len(out)
           rest == Tail(out)
<1>1. PICK w : Between(c, out, d, w)
  BY DEF Becomes
<1> DEFINE v == [i \in 0..(n - 1) |-> w[i + 1]]
<1>2. /\ n \in Nat \ {0} /\ Len(rest) = n - 1
      /\ \A i \in 1..(n - 1) : rest[i] = out[i + 1]
      /\ Head(out) = out[1]
  OBVIOUS
<1> HIDE DEF n, rest
<1>3. /\ w \in [0..n -> Messages] /\ w[0] = c /\ w[n] = d
      /\ \A i \in 1..n : Fits(w[i - 1], out[i]) /\ w[i] = Shown(w[i - 1], out[i])
  BY <1>1 DEF Between, n
<1>4. Fits(c, out[1]) /\ w[1] = Shown(c, out[1]) /\ w[1] \in Messages /\ c \in Messages
  <2>1. 1 \in 1..n /\ 1 \in 0..n /\ 0 \in 0..n /\ 1 - 1 = 0
    BY <1>2
  <2>2. QED
    BY <1>3, <2>1
<1>5. /\ v \in [0..(n - 1) -> Messages] /\ v[0] = w[1] /\ v[n - 1] = d
      /\ \A i \in 0..(n - 1) : v[i] = w[i + 1]
  <2>1. \A i \in 0..(n - 1) : i + 1 \in 0..n
    BY <1>2
  <2>2. 0 \in 0..(n - 1) /\ n - 1 \in 0..(n - 1) /\ 0 + 1 = 1 /\ (n - 1) + 1 = n
    BY <1>2
  <2>3. QED
    BY <1>3, <2>1, <2>2
<1> HIDE DEF v
<1>6. ASSUME NEW i \in 1..(n - 1)
      PROVE  Fits(v[i - 1], rest[i]) /\ v[i] = Shown(v[i - 1], rest[i])
  <2>1. /\ i - 1 \in 0..(n - 1) /\ i \in 0..(n - 1) /\ i + 1 \in 1..n
        /\ (i - 1) + 1 = i /\ (i + 1) - 1 = i
    BY <1>2
  <2>2. v[i - 1] = w[i] /\ v[i] = w[i + 1]
    BY <1>5, <2>1
  <2>3. Fits(w[i], out[i + 1]) /\ w[i + 1] = Shown(w[i], out[i + 1])
    BY <1>3, <2>1
  <2>4. QED
    BY <1>2, <2>2, <2>3
<1>7. Between(Shown(c, Head(out)), rest, d, v)
  BY <1>2, <1>4, <1>5, <1>6 DEF Between
<1>8. QED
  BY <1>2, <1>4, <1>7 DEF Becomes, rest

LEMMA EndsAppend ==
  ASSUME NEW c, NEW out, NEW phase, NEW open, NEW used, NEW order,
         Ends(c, out, phase, open, used, order),
         NEW frame \in Frames, NEW phase2, NEW open2, NEW used2,
         \A d : Looks(d, phase, open, used, order) =>
                  /\ Fits(d, frame)
                  /\ Looks(Shown(d, frame), phase2, open2, used2, order)
  PROVE  Ends(c, Append(out, frame), phase2, open2, used2, order)
<1>1. out \in Seq(Frames) /\ Append(out, frame) \in Seq(Frames)
  BY DEF Ends
<1>2. PICK d : Becomes(c, out, d) /\ Looks(d, phase, open, used, order)
  BY DEF Ends
<1>3. /\ Fits(d, frame)
      /\ Looks(Shown(d, frame), phase2, open2, used2, order)
      /\ Shown(d, frame) \in Messages
  BY <1>2 DEF Looks
<1>4. Becomes(c, Append(out, frame), Shown(d, frame))
  BY <1>1, <1>2, <1>3, Emitted
<1>5. QED
  BY <1>1, <1>3, <1>4 DEF Ends

LEMMA EndsStart ==
  ASSUME NEW c, NEW out, NEW order, NEW used, NEW i \in Nat, NEW kind \in Kinds,
         NEW of \in Int, Ends(c, out, "started", {}, used, order), i \notin used,
         order => used = 0..(i - 1)
  PROVE  Ends(c, Append(out, BlockStart(i, kind, of)), "started", {i}, used \cup {i}, order)
<1>1. BlockStart(i, kind, of) \in Frames
  BY FrameTypes
<1>2. \A d : Looks(d, "started", {}, used, order) =>
        /\ Fits(d, BlockStart(i, kind, of))
        /\ Looks(Shown(d, BlockStart(i, kind, of)), "started", {i}, used \cup {i}, order)
  BY StartShown
<1>3. QED
  BY <1>1, <1>2, EndsAppend

LEMMA EndsFrame ==
  ASSUME NEW c, NEW out, NEW order, NEW used
  PROVE  /\ \A open : Ends(c, out, "waiting", open, used, order) =>
              Ends(c, Append(out, MessageStart), "started", open, used, order)
         /\ \A i \in Nat, kind \in Kinds, of \in Int :
              Ends(c, out, "started", {}, used, order) /\ i \notin used
                /\ (order => used = 0..(i - 1)) =>
              Ends(c, Append(out, BlockStart(i, kind, of)),
                   "started", {i}, used \cup {i}, order)
         /\ \A i \in Nat, parts \in Parts :
              Ends(c, out, "started", {i}, used, order) =>
              Ends(c, Append(out, BlockDelta(i, parts)), "started", {i}, used, order)
         /\ \A i \in Nat, sig \in Int :
              Ends(c, out, "started", {i}, used, order) =>
              Ends(c, Append(out, SignatureDelta(i, sig)), "started", {i}, used, order)
         /\ \A i \in Nat :
              Ends(c, out, "started", {i}, used, order) =>
              Ends(c, Append(out, BlockStop(i)), "started", {}, used, order)
         /\ \A reason \in Reasons :
              Ends(c, out, "started", {}, used, order) =>
              Ends(c, Append(out, MessageDelta(reason)), "told", {}, used, order)
         /\ \A open : Ends(c, out, "told", open, used, order) =>
              Ends(c, Append(out, MessageStop), "stopped", open, used, order)
         /\ \A phase \in {"waiting", "started", "told"} : \A open :
              Ends(c, out, phase, open, used, order) =>
              Ends(c, Append(out, StreamError), "failed", open, used, order)
<1>1. ASSUME NEW open, Ends(c, out, "waiting", open, used, order)
      PROVE  Ends(c, Append(out, MessageStart), "started", open, used, order)
  <2>1. MessageStart \in Frames
    BY FrameTypes
  <2>2. QED
    BY <1>1, <2>1, MessageStartShown, EndsAppend
<1>2. ASSUME NEW i \in Nat, NEW kind \in Kinds, NEW of \in Int,
             Ends(c, out, "started", {}, used, order), i \notin used,
             order => used = 0..(i - 1)
      PROVE  Ends(c, Append(out, BlockStart(i, kind, of)),
                  "started", {i}, used \cup {i}, order)
  BY <1>2, EndsStart
<1>3. ASSUME NEW i \in Nat, NEW parts \in Parts, Ends(c, out, "started", {i}, used, order)
      PROVE  Ends(c, Append(out, BlockDelta(i, parts)), "started", {i}, used, order)
  <2>1. BlockDelta(i, parts) \in Frames
    BY FrameTypes
  <2>2. \A d : Looks(d, "started", {i}, used, order) =>
          /\ Fits(d, BlockDelta(i, parts))
          /\ Looks(Shown(d, BlockDelta(i, parts)), "started", {i}, used, order)
    BY DeltaShown
  <2>3. QED
    BY <1>3, <2>1, <2>2, EndsAppend
<1>4. ASSUME NEW i \in Nat, NEW sig \in Int, Ends(c, out, "started", {i}, used, order)
      PROVE  Ends(c, Append(out, SignatureDelta(i, sig)), "started", {i}, used, order)
  <2>1. SignatureDelta(i, sig) \in Frames
    BY FrameTypes
  <2>2. \A d : Looks(d, "started", {i}, used, order) =>
          /\ Fits(d, SignatureDelta(i, sig))
          /\ Looks(Shown(d, SignatureDelta(i, sig)), "started", {i}, used, order)
    BY SignatureShown
  <2>3. QED
    BY <1>4, <2>1, <2>2, EndsAppend
<1>5. ASSUME NEW i \in Nat, Ends(c, out, "started", {i}, used, order)
      PROVE  Ends(c, Append(out, BlockStop(i)), "started", {}, used, order)
  <2>1. BlockStop(i) \in Frames
    BY FrameTypes
  <2>2. \A d : Looks(d, "started", {i}, used, order) =>
          /\ Fits(d, BlockStop(i))
          /\ Looks(Shown(d, BlockStop(i)), "started", {}, used, order)
    BY StopShown
  <2>3. QED
    BY <1>5, <2>1, <2>2, EndsAppend
<1>6. ASSUME NEW reason \in Reasons, Ends(c, out, "started", {}, used, order)
      PROVE  Ends(c, Append(out, MessageDelta(reason)), "told", {}, used, order)
  <2>1. MessageDelta(reason) \in Frames
    BY FrameTypes
  <2>2. \A d : Looks(d, "started", {}, used, order) =>
          /\ Fits(d, MessageDelta(reason))
          /\ Looks(Shown(d, MessageDelta(reason)), "told", {}, used, order)
    BY ReasonShown
  <2>3. QED
    BY <1>6, <2>1, <2>2, EndsAppend
<1>7. ASSUME NEW open, Ends(c, out, "told", open, used, order)
      PROVE  Ends(c, Append(out, MessageStop), "stopped", open, used, order)
  <2>1. MessageStop \in Frames
    BY FrameTypes
  <2>2. QED
    BY <1>7, <2>1, MessageStopShown, EndsAppend
<1>8. ASSUME NEW phase \in {"waiting", "started", "told"}, NEW open,
             Ends(c, out, phase, open, used, order)
      PROVE  Ends(c, Append(out, StreamError), "failed", open, used, order)
  <2>1. StreamError \in Frames
    BY FrameTypes
  <2>2. QED
    BY <1>8, <2>1, ErrorShown, EndsAppend
<1>9. QED
  BY <1>1, <1>2, <1>3, <1>4, <1>5, <1>6, <1>7, <1>8
-----------------------------------------------------------------------------
(***************************************************************************)
(* A frame that fits is a step of the stream the client is promised.       *)
(***************************************************************************)
LEMMA PrefixOfMore ==
  ASSUME NEW s \in Parts, NEW t \in Parts
  PROVE  Stream!IsPrefix(s, s \o t)
<1> DEFINE n == Len(s)
           more == s \o t
<1>1. /\ n \in Nat /\ s \in Seq(Int) /\ more \in Seq(Int) /\ n <= Len(more)
      /\ \A i \in 1..n : more[i] = s[i]
  BY DEF Parts
<1> HIDE DEF more
<1>2. /\ SubSeq(s, 1, n) = [i \in 1..n |-> s[i]]
      /\ SubSeq(more, 1, n) = [i \in 1..n |-> more[i]]
  BY <1>1
<1>3. [i \in 1..n |-> s[i]] = [i \in 1..n |-> more[i]]
  BY <1>1
<1>4. QED
  BY <1>1, <1>2, <1>3 DEF Stream!IsPrefix, more

LEMMA FitsIsStep ==
  ASSUME client \in Messages, NEW frame, Fits(client, frame),
         client' = Shown(client, frame)
  PROVE  Stream!Next
<1>0. /\ client.blocks \in BlockLists /\ client.blocks \in Seq(Blocks)
      /\ \A n \in DOMAIN client.blocks : client.blocks[n] \in Blocks
      /\ Stream!Opened(client) = OpenIn(client.blocks)
      /\ Opens(client.blocks) = {} => OpenIn(client.blocks) = {}
  BY MessageFields DEF Stream!Opened, OpenIn, Opens
<1>1. CASE frame = MessageStart /\ client.phase = "waiting"
  BY <1>1 DEF Shown, MessageStart, Stream!Next, Stream!MessageStart
<1>2. CASE \E i \in Nat, kind \in Kinds, of \in Int :
             /\ frame = BlockStart(i, kind, of)
             /\ client.phase = "started" /\ Opens(client.blocks) = {}
             /\ i \notin IndexesIn(client.blocks)
  <2>1. PICK i \in Nat, kind \in Kinds, of \in Int :
          /\ frame = BlockStart(i, kind, of)
          /\ client.phase = "started" /\ Opens(client.blocks) = {}
          /\ i \notin IndexesIn(client.blocks)
    BY <1>2
  <2> DEFINE block == BlockStart(i, kind, of).block
             more == Append(client.blocks, block)
  <2>2. client' = [client EXCEPT !.blocks = more]
    BY <2>1 DEF Shown, BlockStart
  <2>3. /\ block.index = i /\ block.kind = kind /\ block.open /\ block.parts = << >>
    BY DEF BlockStart
  <2> HIDE DEF block
  <2>4. /\ Len(more) = Len(client.blocks) + 1
        /\ more[Len(more)] = block
    BY <1>0
  <2>5. client'.blocks = more
    BY <2>2 DEF Messages
  <2>6. \A n \in DOMAIN client.blocks : client.blocks[n].index # i
    BY <2>1 DEF IndexesIn
  <2>7. client'.blocks[Len(client'.blocks)] = block
    BY <2>4, <2>5
  <2>8. Stream!BlockStart
    BY <1>0, <2>1, <2>2, <2>3, <2>4, <2>5, <2>6, <2>7 DEF Stream!BlockStart
  <2>9. QED
    BY <2>8 DEF Stream!Next
<1>3. ASSUME NEW i \in Nat, frame.index = i, client.phase = "started",
             i \in Opens(client.blocks)
      PROVE  \E n \in DOMAIN client.blocks :
               /\ n \in OpenIn(client.blocks)
               /\ client.blocks[n] \in Blocks
               /\ Update(client, frame)
                    = [client EXCEPT !.blocks =
                         [client.blocks EXCEPT ![n] = Changed(client.blocks[n], frame)]]
  <2>1. PICK n \in DOMAIN client.blocks :
          OpenIn(client.blocks) = {n} /\ client.blocks[n].index = i
    BY <1>0, <1>3, OpenBlock
  <2>2. n \in OpenIn(client.blocks) /\ frame.index = client.blocks[n].index
    BY <1>3, <2>1
  <2>3. client \in Messages /\ client.blocks[n] \in Blocks
    BY <1>0, MessageFields
  <2>4. QED
    BY <2>2, <2>3, Updated
<1>4. ASSUME NEW i \in Nat, frame.index = i, client.phase = "started",
             i \in Opens(client.blocks),
             frame.type \in {"content_block_delta", "signature_delta"},
             frame.type = "content_block_delta" => frame.parts \in Parts
      PROVE  Stream!Next
  <2>1. PICK n \in DOMAIN client.blocks :
          /\ n \in OpenIn(client.blocks)
          /\ client.blocks[n] \in Blocks
          /\ Update(client, frame)
               = [client EXCEPT !.blocks =
                    [client.blocks EXCEPT ![n] = Changed(client.blocks[n], frame)]]
    BY <1>3, <1>4
  <2> DEFINE old == client.blocks[n]
             new == Changed(old, frame)
             blocks == [client.blocks EXCEPT ![n] = new]
  <2>2. client' = [client EXCEPT !.blocks = blocks]
    BY <1>4, <2>1 DEF Shown
  <2>3. /\ new = [old EXCEPT !.parts = new.parts, !.sig = new.sig]
        /\ Stream!IsPrefix(old.parts, new.parts)
    <3>1. CASE frame.type = "content_block_delta"
      <4>1. new = [old EXCEPT !.parts = @ \o frame.parts]
        BY <3>1 DEF Changed
      <4>2. new.parts = old.parts \o frame.parts /\ old.parts \in Parts
            /\ frame.parts \in Parts /\ new.sig = old.sig
        BY <1>4, <2>1, <3>1, <4>1 DEF Blocks
      <4>3. Stream!IsPrefix(old.parts, new.parts)
        BY <4>2, PrefixOfMore
      <4>4. new = [old EXCEPT !.parts = new.parts, !.sig = new.sig]
        <5> HIDE DEF new, old
        <5>1. old \in Blocks
          BY <2>1 DEF old
        <5>2. QED
          BY <4>1, <4>2, <5>1 DEF Blocks
      <4>5. QED
        BY <4>3, <4>4
    <3>2. CASE frame.type = "signature_delta"
      <4>1. new = [old EXCEPT !.sig = frame.sig]
        BY <3>2 DEF Changed
      <4>2. new.parts = old.parts /\ old.parts \in Parts /\ new.sig = frame.sig
        BY <2>1, <4>1 DEF Blocks
      <4>3. Stream!IsPrefix(old.parts, new.parts)
        <5>1. << >> \in Parts /\ old.parts \o << >> = old.parts
          BY <4>2 DEF Parts
        <5>2. QED
          BY <4>2, <5>1, PrefixOfMore
      <4>4. new = [old EXCEPT !.parts = new.parts, !.sig = new.sig]
        <5> HIDE DEF new, old
        <5>1. old \in Blocks
          BY <2>1 DEF old
        <5>2. QED
          BY <4>1, <4>2, <5>1 DEF Blocks
      <4>5. QED
        BY <4>3, <4>4
    <3>3. QED
      BY <1>4, <3>1, <3>2
  <2>4. client'.blocks = blocks /\ blocks[n] = new /\ Len(blocks) = Len(client.blocks)
    <3> HIDE DEF new
    <3>1. QED
      BY <1>0, <2>2 DEF Messages
  <2> HIDE DEF new
  <2>5. client' = [client EXCEPT !.blocks[n] = new]
    BY <2>2 DEF Messages
  <2>6. Stream!BlockDelta
    BY <1>0, <1>4, <2>1, <2>3, <2>4, <2>5 DEF Stream!BlockDelta
  <2>7. QED
    BY <2>6 DEF Stream!Next
<1>5. CASE \E i \in Nat, parts \in Parts :
             /\ frame = BlockDelta(i, parts) /\ client.phase = "started"
             /\ i \in Opens(client.blocks)
  BY <1>4, <1>5 DEF BlockDelta
<1>6. CASE \E i \in Nat, sig \in Int :
             /\ frame = SignatureDelta(i, sig) /\ client.phase = "started"
             /\ i \in Opens(client.blocks)
  BY <1>4, <1>6 DEF SignatureDelta
<1>7. CASE \E i \in Nat : /\ frame = BlockStop(i) /\ client.phase = "started"
                          /\ i \in Opens(client.blocks)
  <2>1. PICK i \in Nat : /\ frame = BlockStop(i) /\ client.phase = "started"
                         /\ i \in Opens(client.blocks)
    BY <1>7
  <2>2. frame.index = i /\ frame.type = "content_block_stop"
    BY <2>1 DEF BlockStop
  <2>3. PICK n \in DOMAIN client.blocks :
          /\ n \in OpenIn(client.blocks)
          /\ client.blocks[n] \in Blocks
          /\ Update(client, frame)
               = [client EXCEPT !.blocks =
                    [client.blocks EXCEPT ![n] = Changed(client.blocks[n], frame)]]
    BY <1>3, <2>1, <2>2
  <2>4. Changed(client.blocks[n], frame) = [client.blocks[n] EXCEPT !.open = FALSE]
    BY <2>2 DEF Changed
  <2>5. client' = [client EXCEPT !.blocks[n].open = FALSE]
    BY <2>2, <2>3, <2>4 DEF Shown, Messages
  <2>6. Stream!BlockStop
    BY <1>0, <2>1, <2>3, <2>5 DEF Stream!BlockStop
  <2>7. QED
    BY <2>6 DEF Stream!Next
<1>8. CASE \E reason \in Reasons :
             frame = MessageDelta(reason) /\ client.phase = "started"
               /\ Opens(client.blocks) = {}
  <2>1. PICK reason \in Reasons :
             frame = MessageDelta(reason) /\ client.phase = "started"
               /\ Opens(client.blocks) = {}
    BY <1>8
  <2>2. client' = [client EXCEPT !.phase = "told", !.reason = reason]
    BY <2>1 DEF Shown, MessageDelta
  <2>3. QED
    BY <1>0, <2>1, <2>2 DEF Stream!Next, Stream!MessageDelta
<1>9. CASE frame = MessageStop /\ client.phase = "told"
  BY <1>9 DEF Shown, MessageStop, Stream!Next, Stream!MessageStop
<1>10. CASE frame = StreamError /\ client.phase \in {"waiting", "started", "told"}
  BY <1>10 DEF Shown, StreamError, Stream!Next, Stream!Fail
<1>11. QED
  BY <1>1, <1>2, <1>5, <1>6, <1>7, <1>8, <1>9, <1>10 DEF Fits

\* Yielding a frame of those that end somewhere is such a step.
LEMMA YieldShown ==
  ASSUME NEW phase, NEW open, NEW used, NEW order,
         Ends(client, relay.out, phase, open, used, order), Yield
  PROVE  /\ Stream!Next
         /\ Ends(client', Tail(relay.out), phase, open, used, order)
<1>1. relay.out \in Seq(Frames) /\ relay.out # << >>
      /\ client' = Shown(client, Head(relay.out))
  BY DEF Yield, Ends
<1>2. PICK d : Becomes(client, relay.out, d) /\ Looks(d, phase, open, used, order)
  BY DEF Ends
<1>3. /\ client \in Messages
      /\ Fits(client, Head(relay.out))
      /\ Becomes(client', Tail(relay.out), d)
  BY <1>1, <1>2, FirstShown
<1>4. Stream!Next
  BY <1>1, <1>3, FitsIsStep
<1>5. Tail(relay.out) \in Seq(Frames)
  BY <1>1
<1>6. QED
  BY <1>2, <1>3, <1>4, <1>5 DEF Ends
-----------------------------------------------------------------------------
(***************************************************************************)
(* Gemini.                                                                 *)
(***************************************************************************)
LEMMA GeminiFrames ==
  /\ Gemini!MessageStart = MessageStart /\ Gemini!MessageStop = MessageStop
  /\ Gemini!StreamError = StreamError
  /\ \A i, kind, of : Gemini!BlockStart(i, kind, of) = BlockStart(i, kind, of)
  /\ \A i, parts : Gemini!BlockDelta(i, parts) = BlockDelta(i, parts)
  /\ \A i, sig : Gemini!SignatureDelta(i, sig) = SignatureDelta(i, sig)
  /\ \A i : Gemini!BlockStop(i) = BlockStop(i)
  /\ \A reason : Gemini!MessageDelta(reason) = MessageDelta(reason)
  /\ \A s, frame : Gemini!Emit(s, frame) = [s EXCEPT !.out = Append(@, frame)]
  /\ Gemini!None = 0 /\ Gemini!EmptyObject = 0
BY DEF Gemini!MessageStart, MessageStart, Gemini!MessageStop, MessageStop,
       Gemini!StreamError, StreamError, Gemini!BlockStart, BlockStart,
       Gemini!BlockDelta, BlockDelta, Gemini!SignatureDelta, SignatureDelta,
       Gemini!BlockStop, BlockStop, Gemini!MessageDelta, MessageDelta,
       Gemini!Emit, Gemini!None, None, Gemini!EmptyObject

GeminiStates ==
  [out : Seq(Frames), finished : BOOLEAN, payload : BOOLEAN, started : BOOLEAN,
   type : {"none", "content", "thinking", "function"}, index : Nat,
   hasContent : BOOLEAN, sawTool : BOOLEAN, finalSent : BOOLEAN,
   apiError : BOOLEAN, pending : BOOLEAN, emitted : BOOLEAN,
   hasUsage : BOOLEAN, hasFinish : BOOLEAN, finish : Gemini!Finishes]

\* In the midst of a message: the block of the current type is open, and the
\* blocks have the indexes up to its own.
GeminiOpen(s) == IF s.type = "none" THEN {} ELSE {s.index}
GeminiUsed(s) == IF s.type = "none" THEN 0..(s.index - 1) ELSE 0..s.index

GeminiMid(c, s) ==
  /\ s \in GeminiStates
  /\ Ends(c, s.out, "started", GeminiOpen(s), GeminiUsed(s), TRUE)
  /\ s.pending => s.type = "function"
  /\ s.type # "none" => s.hasContent

\* What the parts of a chunk leave alone.
Kept(s, t) ==
  /\ t.started = s.started /\ t.payload = s.payload /\ t.finished = s.finished
  /\ t.finalSent = s.finalSent /\ t.apiError = s.apiError
  /\ t.hasUsage = s.hasUsage /\ t.hasFinish = s.hasFinish /\ t.finish = s.finish
  /\ s.hasContent => t.hasContent

LEMMA FlushKept ==
  ASSUME NEW c, NEW s, GeminiMid(c, s)
  PROVE  LET t == Gemini!flush_pending_empty(s) IN
         /\ GeminiMid(c, t) /\ Kept(s, t) /\ ~t.pending
         /\ t.type = s.type /\ t.index = s.index /\ t.sawTool = s.sawTool
         /\ ~s.pending => t = s
<1> DEFINE t == Gemini!flush_pending_empty(s)
<1>1. s \in GeminiStates
  BY DEF GeminiMid
<1>2. CASE ~s.pending
  BY <1>2 DEF Gemini!flush_pending_empty, Kept
<1>3. CASE s.pending
  <2>1. t = [s EXCEPT !.out = Append(@, BlockDelta(s.index, <<0>>)),
                      !.pending = FALSE, !.emitted = TRUE]
    BY <1>1, <1>3, GeminiFrames DEF Gemini!flush_pending_empty, GeminiStates
  <2>2. <<0>> \in Parts /\ s.index \in Nat /\ s.type = "function"
        /\ Ends(c, s.out, "started", {s.index}, 0..s.index, TRUE)
    <3>1. <<0>> \in Parts
      BY DEF Parts
    <3>2. s.index \in Nat
      BY <1>1 DEF GeminiStates
    <3>3. s.type = "function"
      BY <1>3 DEF GeminiMid
    <3>4. GeminiOpen(s) = {s.index} /\ GeminiUsed(s) = 0..s.index
      BY <3>3 DEF GeminiOpen, GeminiUsed
    <3>5. QED
      BY <3>1, <3>2, <3>3, <3>4 DEF GeminiMid
  <2>3. /\ Ends(c, Append(s.out, BlockDelta(s.index, <<0>>)), "started",
                {s.index}, 0..s.index, TRUE)
        /\ Append(s.out, BlockDelta(s.index, <<0>>)) \in Seq(Frames)
    BY <2>2, EndsFrame DEF Ends
  <2>4. t \in GeminiStates
    BY <1>1, <2>1, <2>3 DEF GeminiStates
  <2>5. /\ t.out = Append(s.out, BlockDelta(s.index, <<0>>))
        /\ t.type = s.type /\ t.index = s.index /\ t.sawTool = s.sawTool
        /\ t.pending = FALSE /\ Kept(s, t) /\ t.hasContent = s.hasContent
    BY <1>1, <2>1 DEF GeminiStates, Kept
  <2> HIDE DEF t
  <2>6. GeminiMid(c, t)
    BY <2>2, <2>3, <2>4, <2>5 DEF GeminiMid, GeminiOpen, GeminiUsed
  <2>7. QED
    BY <1>3, <2>5, <2>6 DEF t
<1>4. QED
  BY <1>1, <1>2, <1>3 DEF GeminiStates

\* The current block is closed.
LEMMA StopKept ==
  ASSUME NEW c, NEW s, GeminiMid(c, s), s.type # "none"
  PROVE  LET t == Gemini!push_content_block_stop(s) IN
         /\ t \in GeminiStates /\ Kept(s, t) /\ ~t.pending
         /\ t.type = s.type /\ t.index = s.index /\ t.sawTool = s.sawTool
         /\ Ends(c, t.out, "started", {}, 0..s.index, TRUE)
         /\ t.hasContent
<1> DEFINE f == Gemini!flush_pending_empty(s)
           t == Gemini!push_content_block_stop(s)
<1>1. /\ GeminiMid(c, f) /\ Kept(s, f) /\ ~f.pending
      /\ f.type = s.type /\ f.index = s.index /\ f.sawTool = s.sawTool
  BY FlushKept
<1>2. f \in GeminiStates /\ f.index \in Nat /\ f.hasContent
  BY <1>1 DEF GeminiMid, GeminiStates
<1>3. t = [f EXCEPT !.out = Append(@, BlockStop(s.index))]
  BY GeminiFrames DEF Gemini!push_content_block_stop
<1> HIDE DEF f, t
<1>4. GeminiOpen(f) = {f.index} /\ GeminiUsed(f) = 0..f.index
  BY <1>1 DEF GeminiOpen, GeminiUsed
<1>5. Ends(c, f.out, "started", {f.index}, 0..f.index, TRUE)
  BY <1>1, <1>4 DEF GeminiMid
<1>6. Ends(c, Append(f.out, BlockStop(f.index)), "started", {}, 0..f.index, TRUE)
  BY <1>2, <1>5, EndsFrame
<1>7. Append(f.out, BlockStop(f.index)) \in Seq(Frames)
  BY <1>6 DEF Ends
<1>8. t \in GeminiStates
  BY <1>1, <1>2, <1>3, <1>7 DEF GeminiStates
<1>9. /\ t.out = Append(f.out, BlockStop(f.index)) /\ Kept(f, t)
      /\ t.pending = f.pending /\ t.type = f.type /\ t.index = f.index
      /\ t.sawTool = f.sawTool /\ t.hasContent = f.hasContent
  BY <1>1, <1>2, <1>3 DEF GeminiStates, Kept
<1>10. Kept(s, t)
  BY <1>1, <1>9 DEF Kept
<1>11. QED
  BY <1>1, <1>2, <1>6, <1>8, <1>9, <1>10 DEF t

LEMMA CloseKept ==
  ASSUME NEW c, NEW s, GeminiMid(c, s)
  PROVE  LET t == Gemini!CloseCurrent(s) IN
         /\ GeminiMid(c, t) /\ Kept(s, t) /\ t.type = "none" /\ t.sawTool = s.sawTool
<1> DEFINE t == Gemini!CloseCurrent(s)
<1>1. CASE s.type = "none"
  BY <1>1 DEF Gemini!CloseCurrent, Kept
<1>2. CASE s.type # "none"
  <2> DEFINE f == Gemini!push_content_block_stop(s)
  <2>1. /\ f \in GeminiStates /\ Kept(s, f) /\ ~f.pending
        /\ f.type = s.type /\ f.index = s.index /\ f.sawTool = s.sawTool
        /\ Ends(c, f.out, "started", {}, 0..s.index, TRUE)
        /\ f.hasContent
    BY <1>2, StopKept
  <2>2. t = [f EXCEPT !.index = @ + 1, !.type = "none"]
    BY <1>2 DEF Gemini!CloseCurrent
  <2> HIDE DEF f, t
  <2>3. f.index \in Nat /\ f.index + 1 \in Nat /\ (f.index + 1) - 1 = f.index
    BY <2>1 DEF GeminiStates
  <2>4. t \in GeminiStates
    BY <2>1, <2>2, <2>3 DEF GeminiStates
  <2>5. /\ t.out = f.out /\ t.index = f.index + 1 /\ t.type = "none"
        /\ t.pending = f.pending /\ t.sawTool = f.sawTool /\ Kept(f, t)
    BY <2>1, <2>2 DEF GeminiStates, Kept
  <2>6. GeminiOpen(t) = {} /\ GeminiUsed(t) = 0..s.index
    BY <2>1, <2>3, <2>5 DEF GeminiOpen, GeminiUsed
  <2>7. GeminiMid(c, t)
    BY <2>1, <2>4, <2>5, <2>6 DEF GeminiMid
  <2>8. Kept(s, t)
    BY <2>1, <2>5 DEF Kept
  <2>9. QED
    BY <2>1, <2>5, <2>7, <2>8 DEF t
<1>3. QED
  BY <1>1, <1>2

\* State t has a block open after those of s: the type may stay "none", for a
\* carrier.
GeminiOpens(c, s, t, type) ==
  /\ t \in GeminiStates /\ Kept(s, t) /\ t.hasContent
  /\ t.type = type /\ t.index = s.index /\ t.sawTool = s.sawTool /\ ~t.pending
  /\ Ends(c, t.out, "started", {s.index}, 0..s.index, TRUE)
  /\ type # "none" => GeminiMid(c, t)

GeminiTypes == {"none", "content", "thinking", "function"}

LEMMA OpenKept ==
  ASSUME NEW c, NEW s, GeminiMid(c, s), s.type = "none",
         NEW type \in GeminiTypes, NEW kind \in Kinds, NEW of \in Int
  PROVE  GeminiOpens(c, s, Gemini!OpenBlock(s, type, kind, of), type)
<1> DEFINE t == Gemini!OpenBlock(s, type, kind, of)
<1>1. /\ s \in GeminiStates /\ s.index \in Nat /\ s.pending = FALSE
      /\ Ends(c, s.out, "started", {}, 0..(s.index - 1), TRUE)
  <2>1. GeminiOpen(s) = {} /\ GeminiUsed(s) = 0..(s.index - 1)
    BY DEF GeminiOpen, GeminiUsed
  <2>2. s \in GeminiStates /\ s.pending \in BOOLEAN /\ ~s.pending
    BY DEF GeminiMid, GeminiStates
  <2>3. QED
    BY <2>1, <2>2 DEF GeminiMid, GeminiStates
<1>2. t = [s EXCEPT !.out = Append(@, BlockStart(s.index, kind, of)), !.type = type,
                    !.hasContent = TRUE]
  BY <1>1, GeminiFrames DEF Gemini!OpenBlock, GeminiStates
<1> HIDE DEF t
<1>3. s.index \notin 0..(s.index - 1)
      /\ (0..(s.index - 1)) \cup {s.index} = 0..s.index
  BY <1>1
<1>4. Ends(c, Append(s.out, BlockStart(s.index, kind, of)), "started", {s.index},
           0..s.index, TRUE)
  <2>1. Ends(c, Append(s.out, BlockStart(s.index, kind, of)), "started", {s.index},
             (0..(s.index - 1)) \cup {s.index}, TRUE)
    BY <1>1, <1>3, EndsFrame
  <2>2. QED
    BY <1>3, <2>1
<1>5. Append(s.out, BlockStart(s.index, kind, of)) \in Seq(Frames)
  BY <1>4 DEF Ends
<1>6. t \in GeminiStates
  BY <1>1, <1>2, <1>5 DEF GeminiStates, GeminiTypes
<1>7. /\ t.out = Append(s.out, BlockStart(s.index, kind, of)) /\ t.type = type
      /\ t.hasContent = TRUE /\ t.index = s.index /\ t.pending = s.pending
      /\ t.sawTool = s.sawTool /\ Kept(s, t)
  BY <1>1, <1>2 DEF GeminiStates, Kept
<1>8. ASSUME type # "none" PROVE GeminiMid(c, t)
  <2>1. GeminiOpen(t) = {s.index} /\ GeminiUsed(t) = 0..s.index
    BY <1>7, <1>8 DEF GeminiOpen, GeminiUsed
  <2>2. QED
    BY <1>1, <1>4, <1>6, <1>7, <2>1 DEF GeminiMid
<1>9. QED
  BY <1>1, <1>4, <1>6, <1>7, <1>8 DEF t, GeminiOpens

LEMMA SignKept ==
  ASSUME NEW c, NEW s \in GeminiStates, NEW sig \in Int, NEW used,
         Ends(c, s.out, "started", {s.index}, used, TRUE)
  PROVE  LET t == Gemini!append_signature_delta(s, sig) IN
         /\ t \in GeminiStates /\ Kept(s, t) /\ t.hasContent
         /\ t.type = s.type /\ t.index = s.index /\ t.sawTool = s.sawTool
         /\ t.pending = s.pending
         /\ Ends(c, t.out, "started", {s.index}, used, TRUE)
<1> DEFINE t == Gemini!append_signature_delta(s, sig)
<1>1. t = [s EXCEPT !.out = Append(@, SignatureDelta(s.index, sig)), !.hasContent = TRUE]
  BY GeminiFrames DEF Gemini!append_signature_delta, GeminiStates
<1> HIDE DEF t
<1>2. s.index \in Nat
  BY DEF GeminiStates
<1>3. Ends(c, Append(s.out, SignatureDelta(s.index, sig)), "started", {s.index}, used, TRUE)
  BY <1>2, EndsFrame
<1>4. Append(s.out, SignatureDelta(s.index, sig)) \in Seq(Frames)
  BY <1>3 DEF Ends
<1>5. t \in GeminiStates
  BY <1>1, <1>4 DEF GeminiStates
<1>6. /\ t.out = Append(s.out, SignatureDelta(s.index, sig)) /\ t.type = s.type
      /\ t.hasContent = TRUE /\ t.index = s.index /\ t.pending = s.pending
      /\ t.sawTool = s.sawTool /\ Kept(s, t)
  BY <1>1 DEF GeminiStates, Kept
<1>7. QED
  BY <1>3, <1>5, <1>6 DEF t

LEMMA CarrierKept ==
  ASSUME NEW c, NEW s, GeminiMid(c, s), NEW sig \in Int
  PROVE  LET t == Gemini!append_carrier_thinking_block(s, sig) IN
         /\ GeminiMid(c, t) /\ Kept(s, t) /\ t.sawTool = s.sawTool
         /\ t.type = "none" /\ t.hasContent
<1> DEFINE a == Gemini!CloseCurrent(s)
           b == Gemini!OpenBlock(a, "none", "thinking", 0)
           d == Gemini!append_signature_delta(b, sig)
           t == Gemini!append_carrier_thinking_block(s, sig)
<1>1. GeminiMid(c, a) /\ Kept(s, a) /\ a.type = "none" /\ a.sawTool = s.sawTool
  BY CloseKept
<1>2. /\ "thinking" \in Kinds /\ 0 \in Int
      /\ "none" \in GeminiTypes
  BY DEF Kinds, GeminiTypes
<1>3. t = [d EXCEPT !.out = Append(@, BlockStop(a.index)), !.index = @ + 1]
  BY GeminiFrames DEF Gemini!append_carrier_thinking_block
<1> HIDE DEF a
<1>4. /\ b \in GeminiStates /\ Kept(a, b) /\ b.hasContent
      /\ b.type = "none" /\ b.index = a.index /\ b.sawTool = a.sawTool /\ ~b.pending
      /\ Ends(c, b.out, "started", {a.index}, 0..a.index, TRUE)
  <2>1. GeminiOpens(c, a, b, "none")
    BY <1>1, <1>2, OpenKept
  <2>2. QED
    BY <2>1 DEF GeminiOpens
<1> HIDE DEF b
<1>5. /\ d \in GeminiStates /\ Kept(b, d) /\ d.hasContent
      /\ d.type = b.type /\ d.index = b.index /\ d.sawTool = b.sawTool
      /\ d.pending = b.pending
      /\ Ends(c, d.out, "started", {b.index}, 0..a.index, TRUE)
  BY <1>4, SignKept
<1> HIDE DEF d, t
<1>6. d.index \in Nat /\ d.index + 1 \in Nat /\ (d.index + 1) - 1 = d.index
  BY <1>5 DEF GeminiStates
<1>7. Ends(c, Append(d.out, BlockStop(d.index)), "started", {}, 0..d.index, TRUE)
  <2>1. Ends(c, d.out, "started", {d.index}, 0..d.index, TRUE)
    BY <1>4, <1>5
  <2>2. QED
    BY <1>6, <2>1, EndsFrame
<1>8. Append(d.out, BlockStop(d.index)) \in Seq(Frames)
  BY <1>7 DEF Ends
<1>9. t = [d EXCEPT !.out = Append(@, BlockStop(d.index)), !.index = @ + 1]
  BY <1>3, <1>4, <1>5
<1>10. t \in GeminiStates
  BY <1>5, <1>6, <1>8, <1>9 DEF GeminiStates
<1>11. /\ t.out = Append(d.out, BlockStop(d.index)) /\ t.type = d.type
       /\ t.hasContent = d.hasContent /\ t.index = d.index + 1
       /\ t.pending = d.pending /\ t.sawTool = d.sawTool /\ Kept(d, t)
  BY <1>5, <1>9 DEF GeminiStates, Kept
<1>12. GeminiOpen(t) = {} /\ GeminiUsed(t) = 0..d.index
  BY <1>4, <1>5, <1>6, <1>11 DEF GeminiOpen, GeminiUsed
<1>13. GeminiMid(c, t)
  BY <1>4, <1>5, <1>7, <1>10, <1>11, <1>12 DEF GeminiMid
<1>14. Kept(s, t)
  BY <1>1, <1>4, <1>5, <1>11 DEF Kept
<1>15. QED
  BY <1>1, <1>4, <1>5, <1>11, <1>13, <1>14 DEF t

\* More of the block of a type, which is opened if another is open.
LEMMA DeltaKept ==
  ASSUME NEW c, NEW s, GeminiMid(c, s), s.type # "none", NEW parts \in Parts
  PROVE  LET t == [s EXCEPT !.out = Append(@, BlockDelta(s.index, parts))] IN
         /\ GeminiMid(c, t) /\ Kept(s, t) /\ t.hasContent
         /\ t.type = s.type /\ t.index = s.index /\ t.sawTool = s.sawTool
<1> DEFINE t == [s EXCEPT !.out = Append(@, BlockDelta(s.index, parts))]
<1>1. s \in GeminiStates /\ s.index \in Nat /\ s.hasContent
  BY DEF GeminiMid, GeminiStates
<1>2. Ends(c, s.out, "started", {s.index}, 0..s.index, TRUE)
  <2>1. GeminiOpen(s) = {s.index} /\ GeminiUsed(s) = 0..s.index
    BY DEF GeminiOpen, GeminiUsed
  <2>2. QED
    BY <2>1 DEF GeminiMid
<1>3. Ends(c, Append(s.out, BlockDelta(s.index, parts)), "started", {s.index},
           0..s.index, TRUE)
  BY <1>1, <1>2, EndsFrame
<1>4. Append(s.out, BlockDelta(s.index, parts)) \in Seq(Frames)
  BY <1>3 DEF Ends
<1>5. t \in GeminiStates
  BY <1>1, <1>4 DEF GeminiStates
<1>6. /\ t.out = Append(s.out, BlockDelta(s.index, parts)) /\ t.type = s.type
      /\ t.hasContent = s.hasContent /\ t.index = s.index /\ t.pending = s.pending
      /\ t.sawTool = s.sawTool /\ Kept(s, t)
  BY <1>1 DEF GeminiStates, Kept
<1> HIDE DEF t
<1>7. GeminiOpen(t) = {s.index} /\ GeminiUsed(t) = 0..s.index
  BY <1>6 DEF GeminiOpen, GeminiUsed
<1>8. GeminiMid(c, t)
  BY <1>1, <1>3, <1>5, <1>6, <1>7 DEF GeminiMid
<1>9. QED
  BY <1>1, <1>6, <1>8 DEF t

LEMMA KeptTwice ==
  ASSUME NEW s, NEW t, NEW u, Kept(s, t), Kept(t, u)
  PROVE  Kept(s, u)
BY DEF Kept

LEMMA ContinueKept ==
  ASSUME NEW c, NEW s, GeminiMid(c, s), NEW type \in {"content", "thinking"},
         NEW kind \in Kinds, NEW parts \in Parts
  PROVE  LET t == Gemini!Continue(s, type, kind, parts) IN
         /\ GeminiMid(c, t) /\ Kept(s, t) /\ t.hasContent
         /\ t.type = type /\ t.sawTool = s.sawTool
<1> DEFINE a == Gemini!CloseCurrent(s)
           b == IF s.type = type THEN s ELSE Gemini!OpenBlock(a, type, kind, 0)
           t == Gemini!Continue(s, type, kind, parts)
<1>1. t = [b EXCEPT !.out = Append(@, BlockDelta(b.index, parts))]
  BY GeminiFrames DEF Gemini!Continue
<1>2. GeminiMid(c, a) /\ Kept(s, a) /\ a.type = "none" /\ a.sawTool = s.sawTool
  BY CloseKept
<1> HIDE DEF a, t
<1>3. GeminiMid(c, b) /\ Kept(s, b) /\ b.type = type /\ b.sawTool = s.sawTool
  <2>1. CASE s.type = type
    BY <2>1 DEF Kept
  <2>2. CASE s.type # type
    <3>1. type \in GeminiTypes /\ 0 \in Int /\ type # "none"
      BY DEF GeminiTypes
    <3>2. GeminiOpens(c, a, b, type)
      BY <1>2, <2>2, <3>1, OpenKept
    <3>3. GeminiMid(c, b) /\ Kept(a, b) /\ b.type = type /\ b.sawTool = a.sawTool
      BY <3>1, <3>2 DEF GeminiOpens
    <3>4. QED
      BY <1>2, <3>3, KeptTwice
  <2>3. QED
    BY <2>1, <2>2
<1> HIDE DEF b
<1>4. GeminiMid(c, t) /\ Kept(b, t) /\ t.hasContent
      /\ t.type = b.type /\ t.sawTool = b.sawTool
  BY <1>1, <1>3, DeltaKept
<1>5. QED
  BY <1>3, <1>4, KeptTwice DEF t

LEMMA CarryKept ==
  ASSUME NEW c, NEW s, GeminiMid(c, s), NEW sig \in Int
  PROVE  LET t == Gemini!Carry(s, sig) IN
         GeminiMid(c, t) /\ Kept(s, t) /\ t.sawTool = s.sawTool
<1>1. CASE sig = 0
  BY <1>1, GeminiFrames DEF Gemini!Carry, Kept
<1>2. CASE sig # 0
  BY <1>2, GeminiFrames, CarrierKept DEF Gemini!Carry
<1>3. QED
  BY <1>1, <1>2

\* A signature on the thinking block that is open.
LEMMA SignedKept ==
  ASSUME NEW c, NEW s, GeminiMid(c, s), s.type = "thinking", NEW sig \in Int
  PROVE  LET t == Gemini!append_signature_delta(s, sig) IN
         /\ GeminiMid(c, t) /\ Kept(s, t) /\ t.hasContent /\ t.sawTool = s.sawTool
<1> DEFINE t == Gemini!append_signature_delta(s, sig)
<1>1. s \in GeminiStates /\ GeminiOpen(s) = {s.index} /\ GeminiUsed(s) = 0..s.index
      /\ ~s.pending
  BY DEF GeminiMid, GeminiOpen, GeminiUsed
<1>2. Ends(c, s.out, "started", {s.index}, 0..s.index, TRUE)
  BY <1>1 DEF GeminiMid
<1>3. /\ t \in GeminiStates /\ Kept(s, t) /\ t.hasContent
      /\ t.type = s.type /\ t.index = s.index /\ t.sawTool = s.sawTool
      /\ t.pending = s.pending
      /\ Ends(c, t.out, "started", {s.index}, 0..s.index, TRUE)
  BY <1>1, <1>2, SignKept
<1> HIDE DEF t
<1>4. GeminiOpen(t) = {s.index} /\ GeminiUsed(t) = 0..s.index
  BY <1>3 DEF GeminiOpen, GeminiUsed
<1>5. GeminiMid(c, t)
  BY <1>1, <1>3, <1>4 DEF GeminiMid
<1>6. QED
  BY <1>3, <1>5 DEF t

LEMMA ArgsKept ==
  ASSUME NEW c, NEW s, GeminiMid(c, s), s.type = "function", NEW args \in Parts
  PROVE  LET t == Gemini!clean_emitted_args(s, args) IN
         /\ GeminiMid(c, t) /\ Kept(s, t) /\ t.hasContent /\ t.sawTool = s.sawTool
         /\ t.type = "function"
<1> DEFINE t == Gemini!clean_emitted_args(s, args)
<1>1. s \in GeminiStates /\ s.hasContent
  BY DEF GeminiMid
<1>2. CASE args = << >>
  <2>1. t = s
    BY <1>2 DEF Gemini!clean_emitted_args
  <2>2. QED
    BY <1>1, <2>1 DEF Kept
<1>3. CASE args = <<0>>
  <2>1. t = [s EXCEPT !.pending = ~s.emitted]
    BY <1>3, GeminiFrames DEF Gemini!clean_emitted_args
  <2> HIDE DEF t
  <2>2. t \in GeminiStates /\ t.out = s.out /\ t.type = s.type /\ t.index = s.index
        /\ t.hasContent = s.hasContent /\ t.sawTool = s.sawTool /\ Kept(s, t)
    BY <1>1, <2>1 DEF GeminiStates, Kept
  <2>3. GeminiMid(c, t)
    BY <1>1, <2>2 DEF GeminiMid, GeminiOpen, GeminiUsed
  <2>4. QED
    BY <1>1, <2>2, <2>3 DEF t
<1>4. CASE args \notin {<< >>, <<0>>}
  <2> DEFINE d == [s EXCEPT !.out = Append(@, BlockDelta(s.index, args))]
  <2>1. t = [d EXCEPT !.emitted = TRUE, !.pending = FALSE]
    BY <1>4, GeminiFrames DEF Gemini!clean_emitted_args
  <2>2. /\ GeminiMid(c, d) /\ Kept(s, d) /\ d.hasContent
        /\ d.type = s.type /\ d.index = s.index /\ d.sawTool = s.sawTool
    BY DeltaKept
  <2> HIDE DEF d, t
  <2>3. d \in GeminiStates
    BY <2>2 DEF GeminiMid
  <2>4. t \in GeminiStates /\ t.out = d.out /\ t.type = d.type /\ t.index = d.index
        /\ t.hasContent = d.hasContent /\ t.sawTool = d.sawTool /\ Kept(d, t)
        /\ t.pending = FALSE
    BY <2>1, <2>3 DEF GeminiStates, Kept
  <2>5. GeminiMid(c, t)
    BY <2>2, <2>4 DEF GeminiMid, GeminiOpen, GeminiUsed
  <2>6. QED
    BY <2>2, <2>4, <2>5, KeptTwice DEF t
<1>5. QED
  BY <1>2, <1>3, <1>4

LEMMA FunctionCallKept ==
  ASSUME NEW c, NEW s, GeminiMid(c, s), NEW name \in Int, NEW args \in Parts,
         NEW sig \in Int
  PROVE  LET t == Gemini!FunctionCall(s, name, args, sig) IN
         GeminiMid(c, t) /\ Kept(s, t) /\ t.hasContent
<1> DEFINE a == [s EXCEPT !.sawTool = TRUE]
           b == Gemini!Carry(a, sig)
           d == Gemini!CloseCurrent(b)
           e == Gemini!OpenBlock(d, "function", "tool_use", name)
           f == [e EXCEPT !.emitted = FALSE, !.pending = FALSE]
           t == Gemini!FunctionCall(s, name, args, sig)
<1>1. t = Gemini!clean_emitted_args(f, args)
  BY DEF Gemini!FunctionCall
<1>2. GeminiMid(c, a) /\ Kept(s, a)
  <2>1. s \in GeminiStates
    BY DEF GeminiMid
  <2>2. a \in GeminiStates /\ a.out = s.out /\ a.type = s.type /\ a.index = s.index
        /\ a.hasContent = s.hasContent /\ a.pending = s.pending /\ Kept(s, a)
    BY <2>1 DEF GeminiStates, Kept
  <2> HIDE DEF a
  <2>3. QED
    BY <2>2 DEF GeminiMid, GeminiOpen, GeminiUsed
<1> HIDE DEF a, t
<1>3. GeminiMid(c, b) /\ Kept(a, b)
  BY <1>2, CarryKept
<1> HIDE DEF b
<1>4. GeminiMid(c, d) /\ Kept(b, d) /\ d.type = "none"
  BY <1>3, CloseKept
<1> HIDE DEF d
<1>5. GeminiMid(c, e) /\ Kept(d, e) /\ e.type = "function" /\ e.hasContent
  <2>1. "tool_use" \in Kinds /\ "function" \in GeminiTypes
    BY DEF Kinds, GeminiTypes
  <2>2. GeminiOpens(c, d, e, "function")
    BY <1>4, <2>1, OpenKept
  <2>3. QED
    BY <2>2 DEF GeminiOpens
<1> HIDE DEF e
<1>6. GeminiMid(c, f) /\ Kept(e, f) /\ f.type = "function"
  <2>1. e \in GeminiStates
    BY <1>5 DEF GeminiMid
  <2>2. f \in GeminiStates /\ f.out = e.out /\ f.type = e.type /\ f.index = e.index
        /\ f.hasContent = e.hasContent /\ f.pending = FALSE /\ Kept(e, f)
    BY <2>1 DEF GeminiStates, Kept
  <2> HIDE DEF f
  <2>3. QED
    BY <1>5, <2>2 DEF GeminiMid, GeminiOpen, GeminiUsed
<1> HIDE DEF f
<1>7. GeminiMid(c, t) /\ Kept(f, t) /\ t.hasContent
  BY <1>1, <1>6, ArgsKept
<1>8. Kept(s, b)
  BY <1>2, <1>3, KeptTwice
<1>9. Kept(s, e)
  BY <1>4, <1>5, <1>8, KeptTwice
<1>10. Kept(s, t)
  BY <1>6, <1>7, <1>9, KeptTwice
<1>11. QED
  BY <1>7, <1>10 DEF t

GeminiParts ==
  [type : {"none", "signature", "thought", "text", "call"}, name : Int, parts : Parts,
   sig : Int]

\* A chunk goes on with the message.  It calls a tool only if its part does, and
\* there is content unless there is no part, or a call goes on.
LEMMA ConvertKept ==
  ASSUME NEW c, NEW s, GeminiMid(c, s), NEW part \in GeminiParts
  PROVE  LET t == Gemini!convert_gemini_stream_chunk(s, part) IN
         /\ GeminiMid(c, t) /\ Kept(s, t)
         /\ part.type # "call" => t.sawTool = s.sawTool
         /\ part.type # "none" => t.hasContent
<1> DEFINE a == CASE part.type = "none" -> s
                  [] part.type = "signature" -> Gemini!SignatureOnly(s, part.sig)
                  [] part.type = "thought" -> Gemini!Thought(s, part.parts, part.sig)
                  [] part.type = "text" -> Gemini!Text(s, part.parts, part.sig)
                  [] part.type = "call" ->
                       IF part.name = 0 /\ s.type = "function"
                       THEN Gemini!Continuation(s, part.parts, part.sig)
                       ELSE Gemini!FunctionCall(s, part.name, part.parts, part.sig)
           t == Gemini!convert_gemini_stream_chunk(s, part)
<1>1. t = IF s.hasFinish THEN Gemini!flush_pending_empty(a) ELSE a
  BY GeminiFrames DEF Gemini!convert_gemini_stream_chunk
<1>2. /\ part.type \in {"none", "signature", "thought", "text", "call"}
      /\ part.name \in Int /\ part.parts \in Parts /\ part.sig \in Int
  BY DEF GeminiParts
<1>3. /\ GeminiMid(c, a) /\ Kept(s, a)
      /\ part.type # "call" => a.sawTool = s.sawTool
      /\ part.type # "none" => a.hasContent
  <2>1. CASE part.type = "none"
    BY <2>1 DEF Kept
  <2>2. CASE part.type = "signature"
    <3>1. a = Gemini!SignatureOnly(s, part.sig)
      BY <2>2
    <3> HIDE DEF a
    <3>2. CASE s.type = "thinking"
      BY <1>2, <3>1, <3>2, SignedKept DEF Gemini!SignatureOnly
    <3>3. CASE s.type # "thinking"
      BY <1>2, <3>1, <3>3, CarrierKept DEF Gemini!SignatureOnly
    <3>4. QED
      BY <3>2, <3>3
  <2>3. CASE part.type = "thought"
    <3> DEFINE b == Gemini!Continue(s, "thinking", "thinking", part.parts)
    <3>1. a = IF part.sig = 0 THEN b ELSE Gemini!append_signature_delta(b, part.sig)
      BY <2>3, GeminiFrames DEF Gemini!Thought
    <3> HIDE DEF a
    <3>2. /\ GeminiMid(c, b) /\ Kept(s, b) /\ b.hasContent
          /\ b.type = "thinking" /\ b.sawTool = s.sawTool
      <4>1. "thinking" \in {"content", "thinking"} /\ "thinking" \in Kinds
        BY DEF Kinds
      <4>2. QED
        BY <1>2, <4>1, ContinueKept
    <3> HIDE DEF b
    <3>3. CASE part.sig = 0
      BY <3>1, <3>2, <3>3
    <3>4. CASE part.sig # 0
      <4>1. a = Gemini!append_signature_delta(b, part.sig)
        BY <3>1, <3>4
      <4>2. GeminiMid(c, a) /\ Kept(b, a) /\ a.hasContent /\ a.sawTool = b.sawTool
        BY <1>2, <3>2, <4>1, SignedKept
      <4>3. QED
        BY <3>2, <4>2, KeptTwice
    <3>5. QED
      BY <3>3, <3>4
  <2>4. CASE part.type = "text"
    <3> DEFINE b == Gemini!Carry(s, part.sig)
    <3>1. a = Gemini!Continue(b, "content", "text", part.parts)
      BY <2>4 DEF Gemini!Text
    <3> HIDE DEF a
    <3>2. GeminiMid(c, b) /\ Kept(s, b) /\ b.sawTool = s.sawTool
      BY <1>2, CarryKept
    <3> HIDE DEF b
    <3>3. /\ GeminiMid(c, a) /\ Kept(b, a) /\ a.hasContent
          /\ a.sawTool = b.sawTool
      <4>1. "content" \in {"content", "thinking"} /\ "text" \in Kinds
        BY DEF Kinds
      <4>2. QED
        BY <1>2, <3>1, <3>2, <4>1, ContinueKept
    <3>4. QED
      BY <3>2, <3>3, KeptTwice
  <2>5. CASE part.type = "call" /\ part.name = 0 /\ s.type = "function"
    <3> DEFINE b == Gemini!clean_emitted_args(s, part.parts)
    <3>1. a = Gemini!Carry(b, part.sig)
      BY <2>5 DEF Gemini!Continuation
    <3> HIDE DEF a
    <3>2. GeminiMid(c, b) /\ Kept(s, b) /\ b.hasContent
      BY <1>2, <2>5, ArgsKept
    <3> HIDE DEF b
    <3>3. GeminiMid(c, a) /\ Kept(b, a)
      BY <1>2, <3>1, <3>2, CarryKept
    <3>4. a.hasContent
      BY <3>2, <3>3 DEF Kept
    <3>5. QED
      BY <2>5, <3>2, <3>3, <3>4, KeptTwice
  <2>6. CASE part.type = "call" /\ ~(part.name = 0 /\ s.type = "function")
    <3>1. a = Gemini!FunctionCall(s, part.name, part.parts, part.sig)
      BY <2>6
    <3> HIDE DEF a
    <3>2. QED
      BY <1>2, <2>6, <3>1, FunctionCallKept
  <2>7. QED
    BY <1>2, <2>1, <2>2, <2>3, <2>4, <2>5, <2>6
<1> HIDE DEF a, t
<1>4. CASE s.hasFinish
  <2>1. t = Gemini!flush_pending_empty(a)
    BY <1>1, <1>4
  <2>2. GeminiMid(c, t) /\ Kept(a, t) /\ t.sawTool = a.sawTool
    BY <1>3, <2>1, FlushKept
  <2>3. Kept(s, t) /\ (a.hasContent => t.hasContent)
    BY <1>3, <2>2, KeptTwice DEF Kept
  <2>4. QED
    BY <1>3, <2>2, <2>3 DEF t
<1>5. CASE ~s.hasFinish
  <2>1. t = a
    BY <1>1, <1>5
  <2>2. QED
    BY <1>3, <2>1 DEF t
<1>6. QED
  BY <1>4, <1>5

\* How the conversion stands between two chunks: nothing is shown yet, or the
\* message has begun, or its end is shown but for the last frame; or it is over.
\* Then a message that is complete has its blocks under the first indexes.
Over(c, out, order) ==
  \E phase \in {"stopped", "failed"} : \E open, used :
    /\ Ends(c, out, phase, open, used, order)
    /\ phase = "stopped" => \E n \in Nat : used = 0..(n - 1)

GeminiWaiting(c, s) ==
  /\ s \in GeminiStates
  /\ ~s.started /\ ~s.payload /\ s.type = "none" /\ s.index = 0 /\ ~s.pending
  /\ Ends(c, s.out, "waiting", {}, {}, TRUE)

GeminiBegun(c, s) ==
  /\ ~s.finished /\ ~s.finalSent /\ ~s.apiError /\ ~s.hasFinish /\ s.finish = ""
  /\ \/ GeminiWaiting(c, s)
     \/ GeminiMid(c, s) /\ s.started /\ s.payload

GeminiTold(c, s) ==
  /\ s \in GeminiStates
  /\ ~s.finished /\ s.finalSent /\ ~s.apiError /\ s.hasFinish
  /\ s.started /\ s.payload /\ s.type = "none" /\ ~s.pending
  /\ \E n \in Nat : Ends(c, s.out, "told", {}, 0..(n - 1), TRUE)

GeminiOver(c, s) == s \in GeminiStates /\ s.finished /\ Over(c, s.out, TRUE)

LEMMA FailedIsOver ==
  ASSUME NEW c, NEW out, NEW phase \in {"waiting", "started", "told"}, NEW open,
         NEW used, NEW order, Ends(c, out, phase, open, used, order)
  PROVE  Over(c, Append(out, StreamError), order) /\ Append(out, StreamError) \in Seq(Frames)
<1>1. Ends(c, Append(out, StreamError), "failed", open, used, order)
  BY EndsFrame
<1>2. Append(out, StreamError) \in Seq(Frames)
  BY <1>1 DEF Ends
<1>3. QED
  BY <1>1, <1>2 DEF Over

LEMMA StoppedIsOver ==
  ASSUME NEW c, NEW out, NEW n \in Nat, NEW order,
         Ends(c, out, "told", {}, 0..(n - 1), order)
  PROVE  Over(c, Append(out, MessageStop), order) /\ Append(out, MessageStop) \in Seq(Frames)
<1>1. Ends(c, Append(out, MessageStop), "stopped", {}, 0..(n - 1), order)
  BY EndsFrame
<1>2. Append(out, MessageStop) \in Seq(Frames)
  BY <1>1 DEF Ends
<1>3. QED
  BY <1>1, <1>2 DEF Over

LEMMA CloseLastKept ==
  ASSUME NEW c, NEW s, GeminiMid(c, s)
  PROVE  LET t == Gemini!CloseLast(s) IN
         /\ t \in GeminiStates /\ Kept(s, t) /\ ~t.pending /\ t.type = "none"
         /\ t.sawTool = s.sawTool
         /\ \E n \in Nat : Ends(c, t.out, "started", {}, 0..(n - 1), TRUE)
<1> DEFINE t == Gemini!CloseLast(s)
<1>1. s \in GeminiStates /\ s.index \in Nat
  BY DEF GeminiMid, GeminiStates
<1>2. CASE s.type = "none"
  <2>1. t = s /\ Kept(s, s)
    BY <1>2 DEF Gemini!CloseLast, Kept
  <2>2. GeminiOpen(s) = {} /\ GeminiUsed(s) = 0..(s.index - 1)
    BY <1>2 DEF GeminiOpen, GeminiUsed
  <2>3. Ends(c, s.out, "started", {}, 0..(s.index - 1), TRUE) /\ ~s.pending
    BY <1>2, <2>2 DEF GeminiMid
  <2>4. QED
    BY <1>1, <1>2, <2>1, <2>3
<1>3. CASE s.type # "none"
  <2> DEFINE f == Gemini!push_content_block_stop(s)
  <2>1. /\ f \in GeminiStates /\ Kept(s, f) /\ ~f.pending
        /\ f.sawTool = s.sawTool
        /\ Ends(c, f.out, "started", {}, 0..s.index, TRUE)
    BY <1>3, StopKept
  <2>2. t = [f EXCEPT !.type = "none"]
    BY <1>3 DEF Gemini!CloseLast
  <2> HIDE DEF f, t
  <2>3. /\ t \in GeminiStates /\ t.out = f.out /\ t.type = "none" /\ t.pending = f.pending
        /\ t.sawTool = f.sawTool /\ Kept(f, t)
    BY <2>1, <2>2 DEF GeminiStates, Kept
  <2>4. s.index + 1 \in Nat /\ (s.index + 1) - 1 = s.index
    BY <1>1
  <2>5. Ends(c, t.out, "started", {}, 0..((s.index + 1) - 1), TRUE)
    BY <2>1, <2>3, <2>4
  <2>6. QED
    BY <2>1, <2>3, <2>4, <2>5, KeptTwice DEF t
<1>4. QED
  BY <1>2, <1>3

LEMMA FinalShown ==
  ASSUME NEW c, NEW s, GeminiMid(c, s), ~s.finalSent, s.hasContent,
         ~Gemini!is_malformed(s)
  PROVE  LET t == Gemini!append_final_events(s) IN
         /\ t \in GeminiStates /\ ~t.pending /\ t.type = "none" /\ t.finalSent
         /\ t.sawTool = s.sawTool /\ t.hasContent = s.hasContent
         /\ t.started = s.started /\ t.payload = s.payload /\ t.finished = s.finished
         /\ t.apiError = s.apiError /\ t.hasUsage = s.hasUsage
         /\ t.hasFinish = s.hasFinish
         /\ \E n \in Nat : Ends(c, t.out, "told", {}, 0..(n - 1), TRUE)
<1> DEFINE a == Gemini!CloseLast(s)
           t == Gemini!append_final_events(s)
           reason == Gemini!stop_reason_of(s)
<1>1. /\ a \in GeminiStates /\ Kept(s, a) /\ ~a.pending /\ a.type = "none"
      /\ a.sawTool = s.sawTool
      /\ \E n \in Nat : Ends(c, a.out, "started", {}, 0..(n - 1), TRUE)
  BY CloseLastKept
<1>2. t = [a EXCEPT !.out = Append(@, MessageDelta(reason)), !.finalSent = TRUE]
  BY GeminiFrames DEF Gemini!append_final_events
<1>3. reason \in Reasons
  <2>1. \/ reason = "tool_use" \/ reason = "max_tokens" \/ reason = "refusal"
        \/ reason = "end_turn"
    BY DEF Gemini!stop_reason_of
  <2>2. QED
    BY <2>1 DEF Reasons
<1> HIDE DEF a, reason, t
<1>4. PICK n \in Nat : Ends(c, a.out, "started", {}, 0..(n - 1), TRUE)
  BY <1>1
<1>5. Ends(c, Append(a.out, MessageDelta(reason)), "told", {}, 0..(n - 1), TRUE)
  BY <1>3, <1>4, EndsFrame
<1>6. Append(a.out, MessageDelta(reason)) \in Seq(Frames)
  BY <1>5 DEF Ends
<1>7. t \in GeminiStates
  BY <1>1, <1>2, <1>6 DEF GeminiStates
<1>8. /\ t.out = Append(a.out, MessageDelta(reason)) /\ t.finalSent = TRUE
      /\ t.type = a.type /\ t.pending = a.pending /\ t.sawTool = a.sawTool
      /\ t.started = a.started /\ t.payload = a.payload /\ t.finished = a.finished
      /\ t.apiError = a.apiError /\ t.hasUsage = a.hasUsage
      /\ t.hasFinish = a.hasFinish /\ t.hasContent = a.hasContent
  BY <1>1, <1>2 DEF GeminiStates
<1>9. a.hasContent = TRUE /\ s.hasContent = TRUE
  BY <1>1 DEF Kept, GeminiStates, GeminiMid
<1>10. QED
  BY <1>1, <1>5, <1>7, <1>8, <1>9 DEF t, Kept

LEMMA MalformedShown ==
  ASSUME NEW c, NEW s, GeminiMid(c, s), ~s.finalSent
  PROVE  LET t == [Gemini!append_malformed_api_error(s) EXCEPT !.finished = TRUE] IN
         GeminiOver(c, t)
<1> DEFINE a == Gemini!CloseLast(s)
           t == [Gemini!append_malformed_api_error(s) EXCEPT !.finished = TRUE]
<1>1. /\ a \in GeminiStates
      /\ \E n \in Nat : Ends(c, a.out, "started", {}, 0..(n - 1), TRUE)
  BY CloseLastKept
<1>2. t = [[[a EXCEPT !.out = Append(@, StreamError)] EXCEPT !.finalSent = TRUE,
                 !.apiError = TRUE] EXCEPT !.finished = TRUE]
  BY GeminiFrames DEF Gemini!append_malformed_api_error
<1> HIDE DEF a, t
<1>3. Over(c, Append(a.out, StreamError), TRUE)
      /\ Append(a.out, StreamError) \in Seq(Frames)
  BY <1>1, FailedIsOver
<1>4. t \in GeminiStates /\ t.finished /\ t.out = Append(a.out, StreamError)
  BY <1>1, <1>2, <1>3 DEF GeminiStates
<1>5. QED
  BY <1>3, <1>4 DEF GeminiOver, t

\* The first chunk starts the message.
GeminiStarted(s) ==
  [IF s.started THEN s ELSE Gemini!Emit(s, Gemini!MessageStart)
     EXCEPT !.payload = TRUE, !.started = TRUE]

LEMMA StartedMid ==
  ASSUME NEW c, NEW s, GeminiBegun(c, s)
  PROVE  LET t == GeminiStarted(s) IN
         /\ GeminiMid(c, t) /\ t.started /\ t.payload
         /\ ~t.finished /\ ~t.finalSent /\ ~t.apiError /\ ~t.hasFinish /\ t.finish = ""
         /\ t.hasUsage = s.hasUsage /\ t.sawTool = s.sawTool /\ t.hasContent = s.hasContent
<1> DEFINE t == GeminiStarted(s)
<1>1. CASE GeminiWaiting(c, s)
  <2>1. s \in GeminiStates /\ s.index = 0 /\ s.type = "none" /\ ~s.started /\ ~s.pending
        /\ Ends(c, s.out, "waiting", {}, {}, TRUE)
    BY <1>1 DEF GeminiWaiting
  <2>2. t = [[s EXCEPT !.out = Append(@, MessageStart)] EXCEPT !.payload = TRUE,
                                                               !.started = TRUE]
    BY <2>1, GeminiFrames DEF GeminiStarted
  <2>3. Ends(c, Append(s.out, MessageStart), "started", {}, {}, TRUE)
    BY <2>1, EndsFrame
  <2>4. Append(s.out, MessageStart) \in Seq(Frames)
    BY <2>3 DEF Ends
  <2> HIDE DEF t
  <2>5. t \in GeminiStates
    BY <2>1, <2>2, <2>4 DEF GeminiStates
  <2>6. /\ t.out = Append(s.out, MessageStart) /\ t.type = "none" /\ t.index = 0
        /\ ~t.pending /\ t.started /\ t.payload
        /\ t.finished = s.finished /\ t.finalSent = s.finalSent
        /\ t.apiError = s.apiError /\ t.hasFinish = s.hasFinish /\ t.finish = s.finish
        /\ t.hasUsage = s.hasUsage /\ t.sawTool = s.sawTool /\ t.hasContent = s.hasContent
    BY <2>1, <2>2 DEF GeminiStates
  <2>7. 0..(0 - 1) = {}
    OBVIOUS
  <2>8. GeminiOpen(t) = {} /\ GeminiUsed(t) = {}
    BY <2>6, <2>7 DEF GeminiOpen, GeminiUsed
  <2>9. GeminiMid(c, t)
    BY <2>3, <2>5, <2>6, <2>8 DEF GeminiMid
  <2>10. QED
    BY <2>6, <2>9 DEF t, GeminiBegun
<1>2. CASE GeminiMid(c, s) /\ s.started /\ s.payload
  <2>1. s \in GeminiStates
    BY <1>2 DEF GeminiMid
  <2>2. t = s
    BY <1>2, <2>1 DEF GeminiStarted, GeminiStates
  <2>3. QED
    BY <1>2, <2>2 DEF GeminiBegun
<1>3. QED
  BY <1>1, <1>2 DEF GeminiBegun

\* A chunk that comes before the end has been shown.  The last one needs usage,
\* and content or a call that is malformed.
GeminiChunks ==
  [part : GeminiParts, finish : Gemini!Finishes, usage : BOOLEAN]

GeminiFit(s, chunk) ==
  chunk.finish # "" =>
    \/ chunk.finish = "MALFORMED_FUNCTION_CALL" /\ ~s.sawTool /\ chunk.part.type # "call"
    \/ /\ s.hasUsage \/ chunk.usage
       /\ s.hasContent \/ chunk.part.type # "none"

GeminiGoesOn(c, s, chunk, t) ==
  \/ GeminiOver(c, t)
  \/ /\ IF chunk.finish = "" THEN GeminiBegun(c, t) ELSE GeminiTold(c, t)
     /\ t.hasUsage = (s.hasUsage \/ chunk.usage)
     /\ chunk.part.type # "call" => t.sawTool = s.sawTool
     /\ s.hasContent \/ chunk.part.type # "none" => t.hasContent

LEMMA ChunkShown ==
  ASSUME NEW c, NEW s, GeminiBegun(c, s), NEW chunk \in GeminiChunks, GeminiFit(s, chunk)
  PROVE  GeminiGoesOn(c, s, chunk, Gemini!process_gemini_events(s, chunk))
<1> DEFINE a == GeminiStarted(s)
           b == Gemini!convert_gemini_stream_chunk(a, chunk.part)
           d == [b EXCEPT !.hasFinish = @ \/ chunk.finish # "",
                          !.finish = IF @ = "" THEN chunk.finish ELSE @,
                          !.hasUsage = @ \/ chunk.usage]
           t == Gemini!process_gemini_events(s, chunk)
<1>1. t = CASE d.finalSent -> d
            [] ~d.finalSent /\ Gemini!is_malformed(d) ->
                 [Gemini!append_malformed_api_error(d) EXCEPT !.finished = TRUE]
            [] ~d.finalSent /\ ~Gemini!is_malformed(d) ->
                 IF d.hasFinish /\ d.hasUsage THEN Gemini!append_final_events(d) ELSE d
  BY DEF Gemini!process_gemini_events, Gemini!finalize_gemini_stream, GeminiStarted
<1>2. /\ GeminiMid(c, a) /\ a.started /\ a.payload
      /\ ~a.finished /\ ~a.finalSent /\ ~a.apiError /\ ~a.hasFinish /\ a.finish = ""
      /\ a.hasUsage = s.hasUsage /\ a.sawTool = s.sawTool /\ a.hasContent = s.hasContent
  BY StartedMid
<1>3. /\ chunk.part \in GeminiParts /\ chunk.finish \in Gemini!Finishes
      /\ chunk.usage \in BOOLEAN
  BY DEF GeminiChunks
<1> HIDE DEF a, t
<1>4. /\ GeminiMid(c, b) /\ Kept(a, b)
      /\ chunk.part.type # "call" => b.sawTool = a.sawTool
      /\ chunk.part.type # "none" => b.hasContent
  BY <1>2, <1>3, ConvertKept
<1> HIDE DEF b
<1>5. /\ b \in GeminiStates
      /\ b.started /\ b.payload /\ ~b.finished /\ ~b.finalSent /\ ~b.apiError
      /\ ~b.hasFinish /\ b.finish = "" /\ b.hasUsage = s.hasUsage
      /\ s.hasContent \/ chunk.part.type # "none" => b.hasContent
  BY <1>2, <1>4 DEF Kept, GeminiMid
<1>6. /\ d \in GeminiStates
      /\ d.hasFinish = (chunk.finish # "") /\ d.finish = chunk.finish
      /\ d.hasUsage = (s.hasUsage \/ chunk.usage)
      /\ d.out = b.out /\ d.type = b.type /\ d.index = b.index /\ d.pending = b.pending
      /\ d.hasContent = b.hasContent /\ d.sawTool = b.sawTool
      /\ d.started /\ d.payload /\ ~d.finished /\ ~d.finalSent /\ ~d.apiError
  BY <1>3, <1>5 DEF GeminiStates
<1> HIDE DEF d
<1>7. GeminiMid(c, d)
  BY <1>4, <1>6 DEF GeminiMid, GeminiOpen, GeminiUsed
<1>8. /\ chunk.part.type # "call" => d.sawTool = s.sawTool
      /\ s.hasContent \/ chunk.part.type # "none" => d.hasContent
  BY <1>2, <1>4, <1>5, <1>6
<1>9. CASE Gemini!is_malformed(d)
  <2>1. t = [Gemini!append_malformed_api_error(d) EXCEPT !.finished = TRUE]
    BY <1>1, <1>6, <1>9
  <2>2. GeminiOver(c, t)
    BY <1>6, <1>7, <2>1, MalformedShown
  <2>3. QED
    BY <2>2 DEF t, GeminiGoesOn
<1>10. CASE ~Gemini!is_malformed(d) /\ chunk.finish = ""
  <2>1. t = d
    BY <1>1, <1>6, <1>10
  <2>2. GeminiBegun(c, d)
    BY <1>6, <1>7, <1>10 DEF GeminiBegun
  <2>3. QED
    BY <1>6, <1>8, <1>10, <2>1, <2>2 DEF t, GeminiGoesOn
<1>11. CASE ~Gemini!is_malformed(d) /\ chunk.finish # ""
  <2>1. ~(chunk.finish = "MALFORMED_FUNCTION_CALL" /\ ~s.sawTool
          /\ chunk.part.type # "call")
    BY <1>6, <1>8, <1>11 DEF Gemini!is_malformed
  <2>2. d.hasUsage /\ d.hasContent /\ d.hasFinish
    BY <1>6, <1>8, <1>11, <2>1 DEF GeminiFit
  <2>3. t = Gemini!append_final_events(d)
    BY <1>1, <1>6, <1>11, <2>2
  <2>4. /\ t \in GeminiStates /\ ~t.pending /\ t.type = "none" /\ t.finalSent
        /\ t.sawTool = d.sawTool /\ t.hasContent = d.hasContent
        /\ t.started = d.started /\ t.payload = d.payload /\ t.finished = d.finished
        /\ t.apiError = d.apiError /\ t.hasUsage = d.hasUsage
        /\ t.hasFinish = d.hasFinish
        /\ \E n \in Nat : Ends(c, t.out, "told", {}, 0..(n - 1), TRUE)
    BY <1>6, <1>7, <1>11, <2>2, <2>3, FinalShown
  <2>5. GeminiTold(c, t)
    BY <1>6, <2>2, <2>4 DEF GeminiTold
  <2>6. QED
    BY <1>6, <1>8, <1>11, <2>4, <2>5 DEF t, GeminiGoesOn
<1>12. QED
  BY <1>9, <1>10, <1>11

\* After the finish reason only usage comes.
LEMMA UsageShown ==
  ASSUME NEW c, NEW s, GeminiTold(c, s), NEW chunk \in GeminiChunks,
         chunk.part.type = "none", chunk.finish = ""
  PROVE  LET t == Gemini!process_gemini_events(s, chunk) IN
         /\ GeminiTold(c, t)
         /\ t.hasUsage = (s.hasUsage \/ chunk.usage)
         /\ t.sawTool = s.sawTool /\ t.hasContent = s.hasContent
<1> DEFINE d == [s EXCEPT !.hasFinish = @ \/ chunk.finish # "",
                          !.finish = IF @ = "" THEN chunk.finish ELSE @,
                          !.hasUsage = @ \/ chunk.usage]
           t == Gemini!process_gemini_events(s, chunk)
<1>1. /\ s \in GeminiStates
      /\ ~s.finished /\ s.finalSent /\ ~s.apiError /\ s.hasFinish
      /\ s.started /\ s.payload /\ s.type = "none" /\ ~s.pending
  BY DEF GeminiTold
<1>2. [IF s.started THEN s ELSE Gemini!Emit(s, Gemini!MessageStart)
         EXCEPT !.payload = TRUE, !.started = TRUE] = s
  BY <1>1 DEF GeminiStates
<1>3. Gemini!convert_gemini_stream_chunk(s, chunk.part) = s
  <2>1. Gemini!flush_pending_empty(s) = s
    BY <1>1 DEF Gemini!flush_pending_empty
  <2>2. QED
    BY <2>1 DEF Gemini!convert_gemini_stream_chunk
<1>4. chunk.usage \in BOOLEAN
  BY DEF GeminiChunks
<1>5. /\ d \in GeminiStates /\ d.finalSent /\ d.out = s.out
      /\ d.hasUsage = (s.hasUsage \/ chunk.usage)
      /\ d.sawTool = s.sawTool /\ d.hasContent = s.hasContent
      /\ ~d.finished /\ ~d.apiError /\ d.hasFinish
      /\ d.started /\ d.payload /\ d.type = "none" /\ ~d.pending
  BY <1>1, <1>4 DEF GeminiStates
<1>6. t = d
  <2>1. t = Gemini!finalize_gemini_stream(s, chunk.finish, chunk.usage)
    BY <1>2, <1>3 DEF Gemini!process_gemini_events
  <2>2. QED
    BY <1>5, <2>1 DEF Gemini!finalize_gemini_stream
<1> HIDE DEF d, t
<1>7. GeminiTold(c, d)
  BY <1>5 DEF GeminiTold
<1>8. QED
  BY <1>5, <1>6, <1>7 DEF t

LEMMA OverByStop ==
  ASSUME NEW c, NEW s \in GeminiStates, NEW n \in Nat,
         Ends(c, s.out, "told", {}, 0..(n - 1), TRUE)
  PROVE  GeminiOver(c, [Gemini!Emit(s, Gemini!MessageStop) EXCEPT !.finished = TRUE])
<1> DEFINE t == [[s EXCEPT !.out = Append(@, MessageStop)] EXCEPT !.finished = TRUE]
<1>1. Over(c, Append(s.out, MessageStop), TRUE)
      /\ Append(s.out, MessageStop) \in Seq(Frames)
  BY StoppedIsOver
<1>2. t \in GeminiStates /\ t.finished /\ t.out = Append(s.out, MessageStop)
  BY <1>1 DEF GeminiStates
<1>3. GeminiOver(c, t)
  BY <1>1, <1>2 DEF GeminiOver
<1>4. QED
  BY <1>3, GeminiFrames

LEMMA OverByError ==
  ASSUME NEW c, NEW s, GeminiBegun(c, s) \/ GeminiTold(c, s)
  PROVE  GeminiOver(c, [Gemini!Emit(s, Gemini!StreamError) EXCEPT !.finished = TRUE])
<1> DEFINE t == [[s EXCEPT !.out = Append(@, StreamError)] EXCEPT !.finished = TRUE]
<1>1. s \in GeminiStates
  BY DEF GeminiBegun, GeminiTold, GeminiMid, GeminiWaiting
<1>2. \E phase \in {"waiting", "started", "told"} : \E open, used :
        Ends(c, s.out, phase, open, used, TRUE)
  BY DEF GeminiBegun, GeminiTold, GeminiMid, GeminiWaiting
<1>3. Over(c, Append(s.out, StreamError), TRUE)
      /\ Append(s.out, StreamError) \in Seq(Frames)
  BY <1>2, FailedIsOver
<1>4. t \in GeminiStates /\ t.finished /\ t.out = Append(s.out, StreamError)
  BY <1>1, <1>3 DEF GeminiStates
<1>5. GeminiOver(c, t)
  BY <1>3, <1>4 DEF GeminiOver
<1>6. QED
  BY <1>5, GeminiFrames

\* [DONE], or the end of the stream.
LEMMA GeminiFinished ==
  ASSUME NEW c, NEW s, GeminiBegun(c, s) \/ GeminiTold(c, s)
  PROVE  GeminiOver(c, Gemini!finish_gemini_relay(s))
<1> DEFINE t == Gemini!finish_gemini_relay(s)
<1>1. CASE GeminiTold(c, s)
  <2>1. t = [Gemini!Emit(s, Gemini!MessageStop) EXCEPT !.finished = TRUE]
    BY <1>1 DEF GeminiTold, Gemini!finish_gemini_relay
  <2>2. s \in GeminiStates /\ \E n \in Nat : Ends(c, s.out, "told", {}, 0..(n - 1), TRUE)
    BY <1>1 DEF GeminiTold
  <2>3. QED
    BY <2>1, <2>2, OverByStop
<1>2. CASE GeminiBegun(c, s) /\ GeminiWaiting(c, s)
  <2>1. t = [Gemini!Emit(s, Gemini!StreamError) EXCEPT !.finished = TRUE]
    BY <1>2 DEF GeminiWaiting, Gemini!finish_gemini_relay
  <2>2. QED
    BY <1>2, <2>1, OverByError
<1>3. CASE GeminiBegun(c, s) /\ GeminiMid(c, s) /\ s.started /\ s.payload
  <2> DEFINE a == IF s.hasContent THEN s ELSE Gemini!OpenBlock(s, "content", "text", 0)
             b == Gemini!append_final_events(a)
  <2>1. ~s.hasFinish /\ ~s.finalSent /\ s.finish = "" /\ ~s.apiError
    BY <1>3 DEF GeminiBegun
  <2>2. Gemini!force_finalize_gemini_stream(s) = b
    BY <2>1, GeminiFrames DEF Gemini!force_finalize_gemini_stream, Gemini!is_malformed
  <2>3. GeminiMid(c, a) /\ Kept(s, a) /\ a.hasContent
    <3>1. CASE s.hasContent
      BY <1>3, <3>1 DEF Kept
    <3>2. CASE ~s.hasContent
      <4>1. s.type = "none"
        BY <1>3, <3>2 DEF GeminiMid
      <4>2. "content" \in GeminiTypes /\ "text" \in Kinds /\ 0 \in Int
            /\ "content" # "none"
        BY DEF GeminiTypes, Kinds
      <4>3. GeminiOpens(c, s, a, "content")
        BY <1>3, <3>2, <4>1, <4>2, OpenKept
      <4>4. QED
        BY <4>2, <4>3 DEF GeminiOpens
    <3>3. QED
      BY <3>1, <3>2
  <2> HIDE DEF a
  <2>4. ~a.finalSent /\ ~Gemini!is_malformed(a) /\ ~a.apiError
    BY <2>1, <2>3 DEF Kept, Gemini!is_malformed
  <2>5. /\ b \in GeminiStates
        /\ b.apiError = a.apiError
        /\ \E n \in Nat : Ends(c, b.out, "told", {}, 0..(n - 1), TRUE)
    BY <2>3, <2>4, FinalShown
  <2> HIDE DEF b
  <2>6. t = [Gemini!Emit(b, Gemini!MessageStop) EXCEPT !.finished = TRUE]
    BY <1>3, <2>1, <2>2, <2>4, <2>5 DEF Gemini!finish_gemini_relay
  <2>7. QED
    BY <2>5, <2>6, OverByStop
<1>4. QED
  BY <1>1, <1>2, <1>3 DEF GeminiBegun

\* What is known of the upstream.
GeminiUpstreams ==
  [count : Nat, said : Parts, thought : [Items -> Parts], args : [Items -> Parts],
   named : SUBSET Int, calls : Nat, last : Nat, parts : BOOLEAN,
   finish : Gemini!Finishes, usage : BOOLEAN, ended : BOOLEAN]

\* The conversion has seen what the upstream has sent.
GeminiAgrees(s, u) ==
  /\ s.hasUsage = u.usage
  /\ u.parts => s.hasContent
  /\ u.calls = 0 => ~s.sawTool /\ u.last = 0

GeminiInv(c, s, u) ==
  /\ u \in GeminiUpstreams
  /\ \/ GeminiOver(c, s)
     \/ /\ IF u.finish = "" THEN GeminiBegun(c, s) ELSE GeminiTold(c, s)
        /\ GeminiAgrees(s, u)

LEMMA GeminiReads ==
  ASSUME GeminiInv(client, relay, upstream), Gemini!Reads
  PROVE  /\ upstream \in GeminiUpstreams
         /\ IF upstream.finish = "" THEN GeminiBegun(client, relay)
            ELSE GeminiTold(client, relay)
         /\ GeminiAgrees(relay, upstream)
BY DEF GeminiInv, Gemini!Reads, GeminiOver

\* A chunk with a part.
LEMMA GeminiChunk ==
  ASSUME GeminiInv(client, relay, upstream),
         NEW part \in GeminiParts, part.type # "none",
         NEW sent \in GeminiUpstreams,
         part.type = "call" => sent.calls # 0,
         sent.calls = 0 => upstream.calls = 0 /\ sent.last = 0,
         sent.usage = upstream.usage,
         Gemini!Chunk(part, sent)
  PROVE  client' = client /\ GeminiInv(client, relay', upstream')
<1>1. PICK finish \in Gemini!Finishes, usage \in BOOLEAN :
        /\ Gemini!Reads
        /\ upstream.finish = ""
        /\ finish # "" => usage \/ upstream.usage
        /\ relay' = Gemini!process_gemini_events(relay,
                      [part |-> part, finish |-> finish, usage |-> usage])
        /\ upstream' = [sent EXCEPT !.parts = TRUE, !.finish = finish, !.usage = @ \/ usage]
        /\ UNCHANGED client
  BY DEF Gemini!Chunk
<1> DEFINE chunk == [part |-> part, finish |-> finish, usage |-> usage]
<1>2. chunk \in GeminiChunks /\ chunk.part = part /\ chunk.finish = finish
      /\ chunk.usage = usage
  BY DEF GeminiChunks
<1> HIDE DEF chunk
<1>3. GeminiBegun(client, relay) /\ GeminiAgrees(relay, upstream)
  BY <1>1, GeminiReads
<1>4. GeminiFit(relay, chunk)
  BY <1>1, <1>2, <1>3 DEF GeminiFit, GeminiAgrees
<1>5. \/ GeminiOver(client, relay')
      \/ /\ IF finish = "" THEN GeminiBegun(client, relay')
            ELSE GeminiTold(client, relay')
         /\ relay'.hasUsage = (relay.hasUsage \/ usage)
         /\ part.type # "call" => relay'.sawTool = relay.sawTool
         /\ relay'.hasContent
  <2>1. relay' = Gemini!process_gemini_events(relay, chunk)
    BY <1>1 DEF chunk
  <2>2. QED
    <3>1. GeminiGoesOn(client, relay, chunk, relay')
      BY <1>2, <1>3, <1>4, <2>1, ChunkShown
    <3>2. QED
      BY <1>2, <3>1 DEF GeminiGoesOn
<1>6. /\ upstream' \in GeminiUpstreams
      /\ upstream'.finish = finish /\ upstream'.usage = (upstream.usage \/ usage)
      /\ upstream'.calls = sent.calls /\ upstream'.last = sent.last
  BY <1>1 DEF GeminiUpstreams
<1>7. ASSUME ~GeminiOver(client, relay') PROVE GeminiAgrees(relay', upstream')
  <2>1. relay'.hasUsage = upstream'.usage
    BY <1>3, <1>5, <1>6, <1>7 DEF GeminiAgrees
  <2>2. sent.calls = 0 => ~relay'.sawTool /\ sent.last = 0
    BY <1>3, <1>5, <1>7 DEF GeminiAgrees
  <2>3. QED
    BY <1>5, <1>6, <1>7, <2>1, <2>2 DEF GeminiAgrees
<1>8. QED
  BY <1>1, <1>5, <1>6, <1>7 DEF GeminiInv

LEMMA PartIsOne ==
  ASSUME NEW parts \in Parts, NEW sig \in Int
  PROVE  LET none      == Gemini!NoPart
             text      == [none EXCEPT !.type = "text", !.parts = parts, !.sig = sig]
             thought   == [none EXCEPT !.type = "thought", !.parts = parts, !.sig = sig]
             signature == [none EXCEPT !.type = "signature", !.sig = sig] IN
         /\ none \in GeminiParts /\ none.type = "none"
         /\ text \in GeminiParts /\ text.type = "text"
         /\ thought \in GeminiParts /\ thought.type = "thought"
         /\ signature \in GeminiParts /\ signature.type = "signature"
<1>1. << >> \in Parts
  BY DEF Parts
<1>2. Gemini!NoPart = [type |-> "none", name |-> 0, parts |-> << >>, sig |-> 0]
  BY GeminiFrames DEF Gemini!NoPart
<1>3. Gemini!NoPart \in GeminiParts /\ Gemini!NoPart.type = "none"
  BY <1>1, <1>2 DEF GeminiParts
<1>4. QED
  BY <1>3 DEF GeminiParts

\* Every step of the conversion goes on with the message, or ends it.
LEMMA GeminiStep ==
  ASSUME GeminiInv(client, relay, upstream), Gemini!Receive
  PROVE  client' = client /\ GeminiInv(client, relay', upstream')
<1>0. /\ upstream \in GeminiUpstreams /\ upstream.count \in Nat
      /\ Gemini!Next1 \in Int
      /\ <<Gemini!Next1>> \in Parts /\ << >> \in Parts /\ <<0>> \in Parts
      /\ Gemini!Next1 \in Nat
      /\ \A k \in Nat : \A sig \in Gemini!Signed(k) : sig \in Int
      /\ Gemini!None = 0 /\ Gemini!EmptyObject = 0 /\ Gemini!Items = Items
      /\ Items \subseteq Nat \ {0}
  <2>1. upstream \in GeminiUpstreams /\ upstream.count \in Nat
    BY DEF GeminiInv, GeminiUpstreams
  <2>2. Gemini!Next1 \in Nat
    BY <2>1 DEF Gemini!Next1
  <2>3. \A i \in Int : <<i>> \in Parts
    BY DEF Parts
  <2>4. << >> \in Parts
    BY DEF Parts
  <2>5. \A k \in Nat : \A sig \in Gemini!Signed(k) : sig \in Int
    BY GeminiFrames DEF Gemini!Signed
  <2>6. Gemini!Items = Items /\ Items \subseteq Nat \ {0}
    BY SizeAssumption DEF Gemini!Items, Items
  <2>7. QED
    BY <2>1, <2>2, <2>3, <2>4, <2>5, <2>6, GeminiFrames
<1>1. CASE Gemini!TextPart
  <2>1. PICK sig \in Gemini!Signed(Gemini!Next1) :
          Gemini!Chunk([Gemini!NoPart EXCEPT !.type = "text", !.parts = <<Gemini!Next1>>,
                                             !.sig = sig],
                       [upstream EXCEPT !.count = Gemini!Next1,
                          !.said = Append(@, Gemini!Next1), !.last = Gemini!None])
    BY <1>1 DEF Gemini!TextPart
  <2> DEFINE part == [Gemini!NoPart EXCEPT !.type = "text", !.parts = <<Gemini!Next1>>,
                                           !.sig = sig]
             sent == [upstream EXCEPT !.count = Gemini!Next1,
                          !.said = Append(@, Gemini!Next1), !.last = Gemini!None]
  <2>2. part \in GeminiParts /\ part.type = "text"
    <3>1. sig \in Int
      BY <1>0
    <3>2. QED
      BY <1>0, <3>1, PartIsOne
  <2>3. Append(upstream.said, Gemini!Next1) \in Parts
    BY <1>0 DEF GeminiUpstreams, Parts
  <2>4. sent \in GeminiUpstreams /\ sent.calls = upstream.calls /\ sent.last = 0
        /\ sent.usage = upstream.usage
    BY <1>0, <2>3 DEF GeminiUpstreams
  <2> HIDE DEF part, sent
  <2>5. Gemini!Chunk(part, sent)
    BY <2>1 DEF part, sent
  <2>6. QED
    BY <2>2, <2>4, <2>5, GeminiChunk
<1>2. CASE Gemini!ThoughtPart
  <2>1. PICK sig \in Gemini!Signed(Gemini!Next1) :
          Gemini!Chunk([Gemini!NoPart EXCEPT !.type = "thought", !.parts = <<Gemini!Next1>>,
                                             !.sig = sig],
                       [upstream EXCEPT !.count = Gemini!Next1,
                          !.thought[1] = Append(@, Gemini!Next1), !.last = Gemini!None])
    BY <1>2 DEF Gemini!ThoughtPart
  <2> DEFINE part == [Gemini!NoPart EXCEPT !.type = "thought", !.parts = <<Gemini!Next1>>,
                                           !.sig = sig]
             thought == [upstream.thought EXCEPT ![1] = Append(@, Gemini!Next1)]
             sent == [upstream EXCEPT !.count = Gemini!Next1, !.thought = thought,
                                      !.last = Gemini!None]
  <2>2. part \in GeminiParts /\ part.type = "thought"
    <3>1. sig \in Int
      BY <1>0
    <3>2. QED
      BY <1>0, <3>1, PartIsOne
  <2>3. thought \in [Items -> Parts]
    <3>1. upstream.thought \in [Items -> Parts]
      BY <1>0 DEF GeminiUpstreams
    <3>2. 1 \in Items => Append(upstream.thought[1], Gemini!Next1) \in Parts
      BY <1>0, <3>1 DEF Parts
    <3>3. QED
      BY <3>1, <3>2
  <2>4. Gemini!Chunk(part, sent)
    BY <2>1
  <2> HIDE DEF thought
  <2>5. sent \in GeminiUpstreams /\ sent.calls = upstream.calls /\ sent.last = 0
        /\ sent.usage = upstream.usage
    BY <1>0, <2>3 DEF GeminiUpstreams
  <2> HIDE DEF part, sent
  <2>6. QED
    BY <2>2, <2>4, <2>5, GeminiChunk
<1>3. CASE Gemini!SignaturePart
  <2> DEFINE part == [Gemini!NoPart EXCEPT !.type = "signature", !.sig = Gemini!Next1]
             sent == [upstream EXCEPT !.count = Gemini!Next1, !.last = Gemini!None]
  <2>1. Gemini!Chunk(part, sent)
    BY <1>3 DEF Gemini!SignaturePart
  <2>2. part \in GeminiParts /\ part.type = "signature"
    BY <1>0, PartIsOne
  <2>3. sent \in GeminiUpstreams /\ sent.calls = upstream.calls /\ sent.last = 0
        /\ sent.usage = upstream.usage
    BY <1>0 DEF GeminiUpstreams
  <2> HIDE DEF part, sent
  <2>4. QED
    BY <2>1, <2>2, <2>3, GeminiChunk
<1>4. CASE Gemini!CallPart
  <2> DEFINE k == upstream.calls + 1
  <2>1. PICK sig \in Gemini!Signed(Gemini!Next1),
             args \in {<< >>, <<Gemini!EmptyObject>>, <<Gemini!Next1>>} :
          /\ k \in Gemini!Items
          /\ Gemini!Chunk([type |-> "call", name |-> k, parts |-> args, sig |-> sig],
               [upstream EXCEPT !.count = Gemini!Next1, !.calls = k, !.args[k] = args,
                  !.named = @ \cup {k},
                  !.last = IF args = <<Gemini!Next1>> THEN Gemini!None ELSE k])
    BY <1>4 DEF Gemini!CallPart
  <2> DEFINE part == [type |-> "call", name |-> k, parts |-> args, sig |-> sig]
             all == [upstream.args EXCEPT ![k] = args]
             last == IF args = <<Gemini!Next1>> THEN Gemini!None ELSE k
             sent == [upstream EXCEPT !.count = Gemini!Next1, !.calls = k,
                        !.args = all, !.named = @ \cup {k}, !.last = last]
  <2>2. Gemini!Chunk(part, sent)
    BY <2>1
  <2>3. k \in Nat \ {0} /\ k \in Int
    BY <1>0, <2>1
  <2>4. args \in Parts
    BY <1>0, <2>1
  <2>5. all \in [Items -> Parts]
    BY <1>0, <2>4 DEF GeminiUpstreams
  <2>6. last \in Nat
    BY <1>0, <2>3
  <2> HIDE DEF k, all, last
  <2>7. part \in GeminiParts /\ part.type = "call"
    BY <1>0, <2>1, <2>3, <2>4 DEF GeminiParts
  <2>8. sent \in GeminiUpstreams /\ sent.calls = k /\ sent.usage = upstream.usage
    BY <1>0, <2>3, <2>5, <2>6 DEF GeminiUpstreams
  <2> HIDE DEF part, sent
  <2>9. QED
    BY <2>2, <2>3, <2>7, <2>8, GeminiChunk
<1>5. CASE Gemini!ContinuedPart
  <2> DEFINE k == upstream.last
  <2>1. PICK sig \in Gemini!Signed(Gemini!Next1) :
          /\ k # Gemini!None
          /\ Gemini!Chunk([type |-> "call", name |-> Gemini!None,
                           parts |-> <<Gemini!Next1>>, sig |-> sig],
               [upstream EXCEPT !.count = Gemini!Next1, !.args[k] = <<Gemini!Next1>>,
                                !.last = Gemini!None])
    BY <1>5 DEF Gemini!ContinuedPart
  <2> DEFINE part == [type |-> "call", name |-> Gemini!None, parts |-> <<Gemini!Next1>>,
                      sig |-> sig]
             all == [upstream.args EXCEPT ![k] = <<Gemini!Next1>>]
             sent == [upstream EXCEPT !.count = Gemini!Next1, !.args = all,
                                      !.last = Gemini!None]
  <2>2. Gemini!Chunk(part, sent)
    BY <2>1
  <2>3. GeminiAgrees(relay, upstream)
    <3>1. Gemini!Reads
      BY <2>1 DEF Gemini!Chunk
    <3>2. QED
      BY <3>1, GeminiReads
  <2>4. upstream.calls # 0
    BY <1>0, <2>1, <2>3 DEF GeminiAgrees
  <2>5. all \in [Items -> Parts]
    BY <1>0 DEF GeminiUpstreams
  <2> HIDE DEF all
  <2>6. part \in GeminiParts /\ part.type = "call"
    BY <1>0, <2>1 DEF GeminiParts
  <2>7. sent \in GeminiUpstreams /\ sent.calls = upstream.calls
        /\ sent.usage = upstream.usage
    BY <1>0, <2>5 DEF GeminiUpstreams
  <2> HIDE DEF part, sent
  <2>8. QED
    BY <2>2, <2>4, <2>6, <2>7, GeminiChunk
<1>6. CASE Gemini!Metadata
  <2>1. PICK finish \in Gemini!Finishes, usage \in BOOLEAN :
          /\ Gemini!Reads
          /\ finish # "" => upstream.finish = ""
          /\ finish # "" =>
               \/ finish = "MALFORMED_FUNCTION_CALL" /\ upstream.calls = 0
               \/ upstream.parts /\ (usage \/ upstream.usage)
          /\ relay' = Gemini!process_gemini_events(relay,
                        [part |-> Gemini!NoPart, usage |-> usage, finish |-> finish])
          /\ upstream' = [upstream EXCEPT !.usage = @ \/ usage,
                                          !.finish = IF @ = "" THEN finish ELSE @]
          /\ UNCHANGED client
    BY <1>6 DEF Gemini!Metadata
  <2> DEFINE chunk == [part |-> Gemini!NoPart, usage |-> usage, finish |-> finish]
  <2>2. Gemini!NoPart \in GeminiParts /\ Gemini!NoPart.type = "none"
    BY <1>0, PartIsOne
  <2>3. chunk \in GeminiChunks /\ chunk.part = Gemini!NoPart /\ chunk.finish = finish
        /\ chunk.usage = usage
    BY <2>1, <2>2 DEF GeminiChunks
  <2>4. relay' = Gemini!process_gemini_events(relay, chunk)
    BY <2>1
  <2> HIDE DEF chunk
  <2>5. /\ IF upstream.finish = "" THEN GeminiBegun(client, relay)
           ELSE GeminiTold(client, relay)
        /\ GeminiAgrees(relay, upstream)
    BY <2>1, GeminiReads
  <2>6. /\ upstream' \in GeminiUpstreams
        /\ upstream'.finish = IF upstream.finish = "" THEN finish ELSE upstream.finish
        /\ upstream'.usage = (upstream.usage \/ usage)
        /\ upstream'.calls = upstream.calls /\ upstream'.last = upstream.last
        /\ upstream'.parts = upstream.parts
    BY <1>0, <2>1 DEF GeminiUpstreams
  <2>7. CASE upstream.finish # ""
    <3>1. finish = "" /\ GeminiTold(client, relay)
      BY <2>1, <2>5, <2>7
    <3>2. /\ GeminiTold(client, relay')
          /\ relay'.hasUsage = (relay.hasUsage \/ usage)
          /\ relay'.sawTool = relay.sawTool /\ relay'.hasContent = relay.hasContent
      BY <2>2, <2>3, <2>4, <3>1, UsageShown
    <3>3. GeminiAgrees(relay', upstream')
      BY <2>5, <2>6, <3>2 DEF GeminiAgrees
    <3>4. QED
      BY <2>1, <2>6, <2>7, <3>2, <3>3 DEF GeminiInv
  <2>8. CASE upstream.finish = ""
    <3>1. GeminiBegun(client, relay)
      BY <2>5, <2>8
    <3>2. GeminiFit(relay, chunk)
      BY <2>1, <2>2, <2>3, <2>5 DEF GeminiFit, GeminiAgrees
    <3>3. \/ GeminiOver(client, relay')
          \/ /\ IF finish = "" THEN GeminiBegun(client, relay')
                ELSE GeminiTold(client, relay')
             /\ relay'.hasUsage = (relay.hasUsage \/ usage)
             /\ relay'.sawTool = relay.sawTool
             /\ relay.hasContent => relay'.hasContent
      <4>1. GeminiGoesOn(client, relay, chunk, relay')
        BY <2>3, <2>4, <3>1, <3>2, ChunkShown
      <4>2. QED
        BY <2>2, <2>3, <4>1 DEF GeminiGoesOn
    <3>4. GeminiOver(client, relay') \/ GeminiAgrees(relay', upstream')
      BY <2>5, <2>6, <3>3 DEF GeminiAgrees
    <3>5. QED
      BY <2>1, <2>6, <2>8, <3>3, <3>4 DEF GeminiInv
  <2>9. QED
    BY <2>7, <2>8
<1>7. CASE Gemini!Finish
  <2>1. /\ Gemini!Reads /\ relay' = Gemini!finish_gemini_relay(relay)
        /\ upstream' = [upstream EXCEPT !.ended = TRUE] /\ UNCHANGED client
    BY <1>7 DEF Gemini!Finish
  <2>2. GeminiOver(client, relay')
    BY <2>1, GeminiReads, GeminiFinished
  <2>3. upstream' \in GeminiUpstreams
    BY <1>0, <2>1 DEF GeminiUpstreams
  <2>4. QED
    BY <2>1, <2>2, <2>3 DEF GeminiInv
<1>8. CASE Gemini!Break
  <2>1. /\ Gemini!Reads
        /\ relay' = [Gemini!Emit(relay, Gemini!StreamError) EXCEPT !.finished = TRUE]
        /\ UNCHANGED <<client, upstream>>
    BY <1>8 DEF Gemini!Break
  <2>2. GeminiOver(client, relay')
    BY <2>1, GeminiReads, OverByError
  <2>3. QED
    BY <1>0, <2>1, <2>2 DEF GeminiInv
<1>9. QED
  BY <1>1, <1>2, <1>3, <1>4, <1>5, <1>6, <1>7, <1>8 DEF Gemini!Receive
-----------------------------------------------------------------------------
(***************************************************************************)
(* Chat completions.                                                       *)
(***************************************************************************)
LEMMA ChatFrames ==
  /\ Chat!MessageStart = MessageStart /\ Chat!MessageStop = MessageStop
  /\ Chat!StreamError = StreamError
  /\ \A i, kind, of : Chat!BlockStart(i, kind, of) = BlockStart(i, kind, of)
  /\ \A i, parts : Chat!BlockDelta(i, parts) = BlockDelta(i, parts)
  /\ \A i : Chat!BlockStop(i) = BlockStop(i)
  /\ \A reason : Chat!MessageDelta(reason) = MessageDelta(reason)
  /\ \A s, frame : Chat!Emit(s, frame) = [s EXCEPT !.out = Append(@, frame)]
  /\ Chat!None = 0
BY DEF Chat!MessageStart, MessageStart, Chat!MessageStop, MessageStop,
       Chat!StreamError, StreamError, Chat!BlockStart, BlockStart,
       Chat!BlockDelta, BlockDelta, Chat!BlockStop, BlockStop,
       Chat!MessageDelta, MessageDelta, Chat!Emit, Chat!None, None

ChatCall == [id : Int, name : Int, args : Parts, index : Int, started : BOOLEAN,
             emitted : BOOLEAN, closed : BOOLEAN]

\* Calls under numbers from 1 up to some bound.
ChatCalls ==
  UNION {[D -> ChatCall] : D \in {D \in SUBSET (Nat \ {0}) :
                                    \E n \in Nat : D \subseteq 1..n}}

ChatChunk == [kind : {"text", "thinking"}, parts : Parts]

ChatFinishes == {"", "stop", "tool_calls", "length", "content_filter"}

ChatStates ==
  [out : Seq(Frames), finished : BOOLEAN, started : BOOLEAN, finish : ChatFinishes,
   active : [kind : {"none", "text", "thinking"}, index : Int], next : Nat,
   calls : ChatCalls, omitted : Nat \ {0}, saw : BOOLEAN, open : Nat,
   interleaved : Seq(ChatChunk), thinking : Seq(Parts), hasText : BOOLEAN]

\* The indexes given to calls that are not shown yet, and the indexes shown.
Reserved(calls) ==
  {calls[i].index : i \in {j \in DOMAIN calls : calls[j].started /\ ~calls[j].closed}}
ChatUsed(s) == (0..(s.next - 1)) \ Reserved(s.calls)

ChatOpen(s) == IF s.active = Chat!NoBlock THEN {} ELSE {s.active.index}

\* Calls that are started have a name, and an index of their own.
CallsNumbered(calls, next) ==
  /\ \A i \in DOMAIN calls :
       calls[i].started => calls[i].index \in 0..(next - 1) /\ calls[i].name # 0
  /\ \A i, j \in DOMAIN calls :
       /\ calls[i].started /\ calls[j].started
       /\ calls[i].index = calls[j].index
       => i = j

\* In the midst of a message: the active block is open, and those shown have
\* the indexes but for the reserved ones.
ChatMid(c, s) ==
  /\ s \in ChatStates
  /\ Ends(c, s.out, "started", ChatOpen(s), ChatUsed(s), FALSE)
  /\ CallsNumbered(s.calls, s.next)
  /\ \/ s.active = Chat!NoBlock
     \/ s.active.kind # "none" /\ s.active.index \in Nat

\* Calls are closed at the end only, and not started as long as none is open.
CallsWait(s) ==
  /\ \A i \in DOMAIN s.calls : ~s.calls[i].closed /\ ~s.calls[i].emitted
  /\ s.open = 0 => \A i \in DOMAIN s.calls : ~s.calls[i].started
  /\ ~s.saw => s.open = 0

\* What text and thinking leave alone.
ChatKept(s, t) ==
  /\ t.calls = s.calls /\ t.open = s.open /\ t.saw = s.saw /\ t.started = s.started
  /\ t.finished = s.finished /\ t.finish = s.finish

\* States that show the same.
LEMMA ChatMidKept ==
  ASSUME NEW c, NEW s, NEW t \in ChatStates, ChatMid(c, s), t.out = s.out,
         t.next = s.next, t.active = s.active, t.calls = s.calls
  PROVE  ChatMid(c, t)
<1>1. ChatOpen(t) = ChatOpen(s) /\ ChatUsed(t) = ChatUsed(s)
  BY Zenon DEF ChatOpen, ChatUsed
<1>2. QED
  BY <1>1, Zenon DEF ChatMid

LEMMA ChatCallsFields ==
  ASSUME NEW calls \in ChatCalls
  PROVE  /\ calls = [i \in DOMAIN calls |-> calls[i]]
         /\ \A i \in DOMAIN calls : i \in Nat \ {0} /\ calls[i] \in ChatCall
         /\ \E n \in Nat : DOMAIN calls \subseteq 1..n
BY DEF ChatCalls

LEMMA CloseBlockKept ==
  ASSUME NEW c, NEW s, ChatMid(c, s)
  PROVE  LET t == Chat!close_active_block(s) IN
         /\ ChatMid(c, t) /\ ChatKept(s, t) /\ t.active = Chat!NoBlock
         /\ t.next = s.next /\ t.interleaved = s.interleaved /\ t.thinking = s.thinking
         /\ t.hasText = s.hasText /\ t.omitted = s.omitted
<1> DEFINE t == Chat!close_active_block(s)
<1>1. s \in ChatStates /\ CallsNumbered(s.calls, s.next)
      /\ Ends(c, s.out, "started", ChatOpen(s), ChatUsed(s), FALSE)
  BY DEF ChatMid
<1>2. CASE s.active = Chat!NoBlock
  BY <1>2 DEF Chat!close_active_block, ChatKept
<1>3. CASE s.active # Chat!NoBlock
  <2>1. t = [s EXCEPT !.out = Append(@, BlockStop(s.active.index)), !.active = Chat!NoBlock]
    BY <1>1, <1>3, ChatFrames DEF Chat!close_active_block, ChatStates
  <2>2. s.active.index \in Nat /\ ChatOpen(s) = {s.active.index}
    BY <1>3 DEF ChatMid, ChatOpen
  <2>3. Ends(c, Append(s.out, BlockStop(s.active.index)), "started", {}, ChatUsed(s), FALSE)
    BY <1>1, <2>2, EndsFrame
  <2>4. Append(s.out, BlockStop(s.active.index)) \in Seq(Frames)
    BY <2>3 DEF Ends
  <2>5. Chat!NoBlock \in [kind : {"none", "text", "thinking"}, index : Int]
    BY DEF Chat!NoBlock
  <2> HIDE DEF t
  <2>6. t \in ChatStates
    BY <1>1, <2>1, <2>4, <2>5 DEF ChatStates
  <2>7. /\ t.out = Append(s.out, BlockStop(s.active.index)) /\ t.active = Chat!NoBlock
        /\ ChatKept(s, t) /\ t.next = s.next /\ t.interleaved = s.interleaved
        /\ t.thinking = s.thinking /\ t.hasText = s.hasText /\ t.omitted = s.omitted
    BY <1>1, <2>1 DEF ChatStates, ChatKept
  <2>8. t.calls = s.calls
    BY <2>7 DEF ChatKept
  <2>9. ChatOpen(t) = {} /\ ChatUsed(t) = ChatUsed(s)
    BY <2>7, <2>8 DEF ChatOpen, ChatUsed
  <2>10. ChatMid(c, t)
    BY <1>1, <2>3, <2>6, <2>7, <2>8, <2>9 DEF ChatMid
  <2>11. QED
    BY <2>7, <2>10 DEF t
<1>4. QED
  BY <1>2, <1>3

\* The index of a block that is started is given to no call.
LEMMA NextIsFree ==
  ASSUME NEW s \in ChatStates, CallsNumbered(s.calls, s.next)
  PROVE  /\ s.next \in Nat /\ s.next \notin Reserved(s.calls)
         /\ s.next \notin ChatUsed(s)
         /\ ChatUsed(s) \cup {s.next} = (0..((s.next + 1) - 1)) \ Reserved(s.calls)
         /\ CallsNumbered(s.calls, s.next + 1)
<1>1. s.next \in Nat
  BY DEF ChatStates
<1>2. \A x \in Reserved(s.calls) : x \in 0..(s.next - 1)
  BY DEF Reserved, CallsNumbered
<1>3. s.next \notin Reserved(s.calls)
  BY <1>1, <1>2
<1>4. 0..((s.next + 1) - 1) = (0..(s.next - 1)) \cup {s.next}
  BY <1>1
<1>5. CallsNumbered(s.calls, s.next + 1)
  <2>1. \A x \in 0..(s.next - 1) : x \in 0..((s.next + 1) - 1)
    BY <1>1
  <2>2. QED
    BY <2>1 DEF CallsNumbered
<1>6. QED
  BY <1>1, <1>3, <1>4, <1>5 DEF ChatUsed

LEMMA EnsureBlockKept ==
  ASSUME NEW c, NEW s, ChatMid(c, s), NEW kind \in {"text", "thinking"}
  PROVE  LET t == Chat!ensure_block(s, kind) IN
         /\ ChatMid(c, t) /\ ChatKept(s, t) /\ t.active # Chat!NoBlock
<1> DEFINE a == Chat!close_active_block(s)
           t == Chat!ensure_block(s, kind)
<1>1. s \in ChatStates
  BY DEF ChatMid
<1>2. CASE s.active.kind = kind
  <2>1. t = s
    BY <1>2 DEF Chat!ensure_block
  <2>2. s.active # Chat!NoBlock
    BY <1>2 DEF Chat!NoBlock
  <2>3. QED
    BY <2>1, <2>2 DEF ChatKept
<1>3. CASE s.active.kind # kind
  <2>1. ChatMid(c, a) /\ ChatKept(s, a) /\ a.active = Chat!NoBlock
    BY CloseBlockKept
  <2> DEFINE i == a.next
             block == [kind |-> kind, index |-> i]
  <2>2. t = [[a EXCEPT !.out = Append(@, BlockStart(i, kind, 0))]
               EXCEPT !.active = block, !.next = @ + 1]
    BY <1>3, ChatFrames DEF Chat!ensure_block
  <2> HIDE DEF a, t
  <2>3. a \in ChatStates /\ i \in Nat /\ kind \in Kinds /\ ChatOpen(a) = {}
        /\ Ends(c, a.out, "started", {}, ChatUsed(a), FALSE)
    BY <2>1 DEF ChatMid, ChatStates, Kinds, ChatOpen
  <2>4. /\ i \notin ChatUsed(a)
        /\ ChatUsed(a) \cup {i} = (0..((i + 1) - 1)) \ Reserved(a.calls)
        /\ CallsNumbered(a.calls, i + 1)
    BY <2>1, <2>3, NextIsFree DEF ChatMid
  <2>5. Ends(c, Append(a.out, BlockStart(i, kind, 0)), "started", {i},
             ChatUsed(a) \cup {i}, FALSE)
    <3> DEFINE out == a.out
               used == ChatUsed(a)
    <3>1. Ends(c, out, "started", {}, used, FALSE) /\ i \notin used
          /\ i \in Nat /\ kind \in Kinds
      BY <2>3, <2>4, Zenon
    <3>2. 0 \in Int
      OBVIOUS
    <3> HIDE DEF out, used, i
    <3>3. Ends(c, Append(out, BlockStart(i, kind, 0)), "started", {i}, used \cup {i}, FALSE)
      BY <3>1, <3>2, EndsStart, Zenon
    <3>4. QED
      BY <3>3, Zenon DEF out, used, i
  <2>6. Append(a.out, BlockStart(i, kind, 0)) \in Seq(Frames)
    BY <2>5 DEF Ends
  <2>7. block \in [kind : {"none", "text", "thinking"}, index : Int]
        /\ block.kind = kind /\ block.index = i /\ i + 1 \in Nat
    BY <2>3
  <2>8. block # Chat!NoBlock
    BY <2>7 DEF Chat!NoBlock
  <2> HIDE DEF block, i
  <2>9. t \in ChatStates
    BY <2>2, <2>3, <2>6, <2>7 DEF ChatStates, i
  <2>10. /\ t.out = Append(a.out, BlockStart(i, kind, 0)) /\ t.active = block
         /\ t.next = i + 1 /\ ChatKept(a, t)
    BY <2>2, <2>3 DEF ChatStates, ChatKept, i
  <2>11. t.calls = a.calls
    BY <2>10 DEF ChatKept
  <2>12. ChatOpen(t) = {i} /\ ChatUsed(t) = ChatUsed(a) \cup {i}
    BY <2>4, <2>7, <2>8, <2>10, <2>11 DEF ChatOpen, ChatUsed
  <2>13. ChatMid(c, t)
    BY <2>3, <2>4, <2>5, <2>7, <2>9, <2>10, <2>11, <2>12 DEF ChatMid
  <2>14. ChatKept(s, t)
    BY <2>1, <2>10 DEF ChatKept
  <2>15. QED
    BY <2>8, <2>10, <2>13, <2>14 DEF t
<1>4. QED
  BY <1>2, <1>3

-----------------------------------------------------------------------------
LEMMA CallsChanged ==
  ASSUME NEW calls \in ChatCalls, NEW i \in DOMAIN calls, NEW call \in ChatCall
  PROVE  LET new == [calls EXCEPT ![i] = call] IN
         /\ new \in ChatCalls /\ DOMAIN new = DOMAIN calls
         /\ new[i] = call
         /\ \A j \in DOMAIN calls : j # i => new[j] = calls[j]
BY DEF ChatCalls

LEMMA CallsAdded ==
  ASSUME NEW calls \in ChatCalls, NEW i \in Nat \ {0}, NEW call \in ChatCall
  PROVE  LET new == [j \in {i} \cup DOMAIN calls |-> IF j = i THEN call ELSE calls[j]] IN
         /\ new \in ChatCalls /\ DOMAIN new = {i} \cup DOMAIN calls
         /\ new[i] = call
         /\ \A j \in DOMAIN calls : j # i => new[j] = calls[j]
<1> DEFINE D == {i} \cup DOMAIN calls
           new == [j \in D |-> IF j = i THEN call ELSE calls[j]]
<1>1. PICK n \in Nat : DOMAIN calls \subseteq 1..n
  BY ChatCallsFields
<1>2. PICK m \in Nat : n <= m /\ i <= m
  <2>1. CASE n <= i
    BY <2>1
  <2>2. CASE ~(n <= i)
    BY <2>2
  <2>3. QED
    BY <2>1, <2>2
<1>3. D \in SUBSET (Nat \ {0}) /\ D \subseteq 1..m
  BY <1>1, <1>2
<1>4. new \in [D -> ChatCall]
  BY ChatCallsFields
<1>5. QED
  BY <1>2, <1>3, <1>4 DEF ChatCalls

\* A call is given the next index.
LEMMA IndexGiven ==
  ASSUME NEW old \in ChatCall, NEW n \in Nat
  PROVE  LET call == [old EXCEPT !.index = n, !.started = TRUE] IN
         /\ call \in ChatCall /\ call.index = n /\ call.started
         /\ call.name = old.name /\ call.closed = old.closed
         /\ call.emitted = old.emitted
<1>1. n \in Int
  OBVIOUS
<1>2. [old EXCEPT !.index = n, !.started = TRUE] \in ChatCall
  BY <1>1, Zenon DEF ChatCall
<1>3. QED
  BY <1>2 DEF ChatCall

LEMMA StartKept ==
  ASSUME NEW c, NEW s, ChatMid(c, s), NEW i \in DOMAIN s.calls, s.calls[i].name # 0,
         ~s.calls[i].closed
  PROVE  LET t == Chat!emit_tool_use_start(s, i) IN
         /\ ChatMid(c, t)
         /\ DOMAIN t.calls = DOMAIN s.calls
         /\ \A j \in DOMAIN s.calls :
              /\ j # i => t.calls[j] = s.calls[j]
              /\ t.calls[j].name = s.calls[j].name
              /\ t.calls[j].closed = s.calls[j].closed
              /\ t.calls[j].emitted = s.calls[j].emitted
         /\ t.calls[i].started
         /\ t.started = s.started /\ t.finished = s.finished /\ t.finish = s.finish
         /\ s.active = Chat!NoBlock => t.active = Chat!NoBlock
         /\ IF s.calls[i].started THEN t = s ELSE t.open # 0 /\ t.saw
<1> DEFINE a == Chat!close_active_block(s)
           t == Chat!emit_tool_use_start(s, i)
<1>0. s \in ChatStates
  BY DEF ChatMid
<1>1. CASE s.calls[i].started
  BY <1>1 DEF Chat!emit_tool_use_start
<1>2. CASE ~s.calls[i].started
  <2>1. ChatMid(c, a) /\ ChatKept(s, a) /\ a.active = Chat!NoBlock
    BY CloseBlockKept
  <2> DEFINE n == a.next
             call == [s.calls[i] EXCEPT !.index = n, !.started = TRUE]
             calls == [s.calls EXCEPT ![i] = call]
  <2> HIDE DEF a
  <2>2. a \in ChatStates /\ a.calls = s.calls /\ n \in Nat /\ s.calls \in ChatCalls
    BY <2>1 DEF ChatMid, ChatStates, ChatKept
  <2>3. s.calls[i] \in ChatCall /\ i \in Nat \ {0} /\ i \in Nat
    BY <2>2, ChatCallsFields
  <2>4. /\ call \in ChatCall /\ call.index = n /\ call.started
        /\ call.name = s.calls[i].name /\ call.closed = s.calls[i].closed
        /\ call.emitted = s.calls[i].emitted
    BY <2>2, <2>3, IndexGiven
  <2>5. t = [a EXCEPT !.calls = calls, !.next = n + 1, !.saw = TRUE, !.open = i]
    <3>1. t = [a EXCEPT !.calls[i] = [@ EXCEPT !.index = n, !.started = TRUE],
                        !.next = @ + 1, !.saw = TRUE, !.open = i]
      BY <1>2 DEF Chat!emit_tool_use_start, a
    <3>2. QED
      BY <2>2, <3>1 DEF ChatStates
  <2> HIDE DEF t, call
  <2>6. /\ calls \in ChatCalls /\ DOMAIN calls = DOMAIN s.calls /\ calls[i] = call
        /\ \A j \in DOMAIN s.calls : j # i => calls[j] = s.calls[j]
    BY <2>2, <2>4, CallsChanged
  <2> HIDE DEF calls
  <2>7. n + 1 \in Nat
    BY <2>2
  <2>8. t \in ChatStates
    BY <2>2, <2>3, <2>5, <2>6, <2>7 DEF ChatStates
  <2>9. /\ t.calls = calls /\ t.next = n + 1 /\ t.saw /\ t.open = i /\ t.out = a.out
        /\ t.active = a.active /\ t.started = s.started /\ t.finished = s.finished
        /\ t.finish = s.finish
    BY <2>1, <2>2, <2>5 DEF ChatStates, ChatKept
  <2>10. CallsNumbered(s.calls, n) /\ Ends(c, a.out, "started", {}, ChatUsed(a), FALSE)
    BY <2>1, <2>2 DEF ChatMid, ChatOpen
  <2>11. n \in 0..((n + 1) - 1) /\ n \notin 0..(n - 1)
         /\ 0..((n + 1) - 1) = (0..(n - 1)) \cup {n}
    BY <2>2
  <2> HIDE DEF n
  <2>12. CallsNumbered(calls, n + 1)
    <3>1. \A j \in DOMAIN s.calls : j # i /\ calls[j].started =>
            calls[j].index \in 0..(n - 1) /\ calls[j].name # 0
      BY <2>6, <2>10, Zenon DEF CallsNumbered
    <3>2. \A j, k \in DOMAIN s.calls :
            /\ j # i /\ k # i /\ calls[j].started /\ calls[k].started
            /\ calls[j].index = calls[k].index
            => j = k
      <4>1. TAKE j, k \in DOMAIN s.calls
      <4>2. HAVE /\ j # i /\ k # i /\ calls[j].started /\ calls[k].started
                 /\ calls[j].index = calls[k].index
      <4>3. calls[j] = s.calls[j] /\ calls[k] = s.calls[k]
        BY <2>6, <4>2
      <4>4. QED
        BY <2>10, <4>2, <4>3 DEF CallsNumbered
    <3>3. calls[i].index = n /\ calls[i].name # 0
      BY <2>4, <2>6
    <3>4. \A j \in DOMAIN s.calls : j # i /\ calls[j].started => calls[j].index # n
      BY <2>11, <3>1
    <3>5. QED
      BY <2>6, <2>11, <3>1, <3>2, <3>3, <3>4 DEF CallsNumbered
  <2>13. ChatUsed(t) = ChatUsed(a)
    <3>1. Reserved(calls) = Reserved(s.calls) \cup {n}
      <4>1. \A j \in DOMAIN s.calls :
              /\ j # i => calls[j] = s.calls[j]
              /\ calls[i].started /\ ~calls[i].closed /\ calls[i].index = n
              /\ ~s.calls[i].started
        BY <1>2, <2>4, <2>6
      <4>2. QED
        BY <2>6, <4>1 DEF Reserved
    <3>2. a.next = n /\ t.next = n + 1 /\ t.calls = calls /\ a.calls = s.calls
      BY <2>2, <2>9 DEF n
    <3>3. ChatUsed(t) = ((0..(n - 1)) \cup {n}) \ (Reserved(s.calls) \cup {n})
      BY <2>11, <3>1, <3>2 DEF ChatUsed
    <3>4. QED
      BY <2>11, <3>2, <3>3 DEF ChatUsed
  <2>14. ChatMid(c, t)
    <3>1. ChatOpen(t) = {} /\ t.active = Chat!NoBlock
      BY <2>1, <2>9 DEF ChatOpen
    <3>2. QED
      BY <2>8, <2>9, <2>10, <2>12, <2>13, <3>1 DEF ChatMid
  <2>15. \A j \in DOMAIN s.calls :
           /\ j # i => calls[j] = s.calls[j]
           /\ calls[j].name = s.calls[j].name
           /\ calls[j].closed = s.calls[j].closed
           /\ calls[j].emitted = s.calls[j].emitted
    BY <2>4, <2>6
  <2>16. QED
    BY <1>2, <2>1, <2>3, <2>4, <2>6, <2>9, <2>14, <2>15 DEF t
<1>3. QED
  BY <1>1, <1>2

LEMMA CallClosed ==
  ASSUME NEW old \in ChatCall
  PROVE  LET call == [old EXCEPT !.emitted = TRUE, !.closed = TRUE] IN
         /\ call \in ChatCall /\ call.closed /\ call.name = old.name
         /\ call.index = old.index /\ call.started = old.started
<1>1. [old EXCEPT !.emitted = TRUE, !.closed = TRUE] \in ChatCall
  BY Zenon DEF ChatCall
<1>2. QED
  BY <1>1 DEF ChatCall

\* A call is shown under the index it was given.
LEMMA CloseCallKept ==
  ASSUME NEW c, NEW s, ChatMid(c, s), s.active = Chat!NoBlock,
         NEW i \in DOMAIN s.calls, s.calls[i].started, ~s.calls[i].closed
  PROVE  LET t == Chat!close_tool_call(s, i) IN
         /\ ChatMid(c, t)
         /\ DOMAIN t.calls = DOMAIN s.calls
         /\ \A j \in DOMAIN s.calls : j # i => t.calls[j] = s.calls[j]
         /\ t.calls[i].closed /\ t.calls[i].name = s.calls[i].name
         /\ t.started = s.started /\ t.finished = s.finished /\ t.finish = s.finish
         /\ t.active = Chat!NoBlock
<1> DEFINE t == Chat!close_tool_call(s, i)
           call == s.calls[i]
           n == call.index
           a == Append(s.out, BlockStart(n, "tool_use", call.name))
           b == IF call.args = << >> THEN a ELSE Append(a, BlockDelta(n, call.args))
           out == Append(b, BlockStop(n))
           shut == [call EXCEPT !.emitted = TRUE, !.closed = TRUE]
           calls == [s.calls EXCEPT ![i] = shut]
<1>1. s \in ChatStates /\ s.calls \in ChatCalls /\ CallsNumbered(s.calls, s.next)
      /\ s.next \in Nat
  BY DEF ChatMid, ChatStates
<1>2. call \in ChatCall
  BY <1>1, ChatCallsFields
<1>3. n \in 0..(s.next - 1) /\ n \in Nat /\ call.name \in Int /\ call.args \in Parts
      /\ call.name # 0
  BY <1>1, <1>2 DEF CallsNumbered, ChatCall
<1>4. t = [s EXCEPT !.out = out, !.calls = calls]
  <2>1. t = [s EXCEPT !.out = out, !.calls[i] = [@ EXCEPT !.emitted = TRUE, !.closed = TRUE]]
    BY <1>1, ChatFrames DEF Chat!close_tool_call, ChatStates
  <2>2. QED
    BY <1>1, <2>1 DEF ChatStates
<1>5. Ends(c, s.out, "started", {}, ChatUsed(s), FALSE)
  BY DEF ChatMid, ChatOpen
<1>6. n \in Reserved(s.calls) /\ n \notin ChatUsed(s)
  BY DEF Reserved, ChatUsed
<1>7. /\ shut \in ChatCall /\ shut.closed /\ shut.name = call.name
      /\ shut.index = n /\ shut.started = call.started
  BY <1>2, CallClosed
<1> HIDE DEF t, shut
<1>8. /\ calls \in ChatCalls /\ DOMAIN calls = DOMAIN s.calls /\ calls[i] = shut
      /\ \A j \in DOMAIN s.calls : j # i => calls[j] = s.calls[j]
  BY <1>1, <1>7, CallsChanged
<1> HIDE DEF calls
<1>9. Ends(c, out, "started", {}, ChatUsed(s) \cup {n}, FALSE)
  <2>1. Ends(c, a, "started", {n}, ChatUsed(s) \cup {n}, FALSE)
    <3>1. "tool_use" \in Kinds
      BY DEF Kinds
    <3>2. QED
      BY <1>3, <1>5, <1>6, <3>1, EndsFrame
  <2> HIDE DEF a, call, n
  <2>2. Ends(c, b, "started", {n}, ChatUsed(s) \cup {n}, FALSE)
    BY <1>3, <2>1, EndsFrame
  <2> HIDE DEF b
  <2>3. QED
    BY <1>3, <2>2, EndsFrame
<1>10. out \in Seq(Frames)
  BY <1>9 DEF Ends
<1> HIDE DEF out
<1>11. t \in ChatStates
  BY <1>1, <1>4, <1>8, <1>10 DEF ChatStates
<1>12. /\ t.out = out /\ t.calls = calls /\ t.next = s.next /\ t.active = s.active
       /\ t.started = s.started /\ t.finished = s.finished /\ t.finish = s.finish
  BY <1>1, <1>4 DEF ChatStates
<1>13. \A j \in DOMAIN s.calls : calls[j].index = s.calls[j].index
         /\ calls[j].started = s.calls[j].started /\ calls[j].name = s.calls[j].name
  BY <1>7, <1>8
<1>14. CallsNumbered(calls, s.next)
  <2>1. \A j \in DOMAIN s.calls : calls[j].started =>
          calls[j].index \in 0..(s.next - 1) /\ calls[j].name # 0
    BY <1>1, <1>13 DEF CallsNumbered
  <2>2. \A j, k \in DOMAIN s.calls :
          /\ calls[j].started /\ calls[k].started
          /\ calls[j].index = calls[k].index
          => j = k
    BY <1>1, <1>13 DEF CallsNumbered
  <2>3. QED
    BY <1>8, <2>1, <2>2 DEF CallsNumbered
<1>15. Reserved(calls) = Reserved(s.calls) \ {n}
  <2>1. \A x : x \in Reserved(calls) => x \in Reserved(s.calls) /\ x # n
    <3>1. TAKE x
    <3>2. HAVE x \in Reserved(calls)
    <3>3. PICK j \in DOMAIN s.calls :
                 x = calls[j].index /\ calls[j].started /\ ~calls[j].closed
      BY <1>8, <3>2 DEF Reserved
    <3>4. j # i
      BY <1>7, <1>8, <3>3
    <3>5. calls[j] = s.calls[j]
      BY <1>8, <3>4
    <3>6. x # n
      BY <1>1, <3>3, <3>4, <3>5 DEF CallsNumbered
    <3>7. QED
      BY <3>3, <3>5, <3>6 DEF Reserved
  <2>2. \A x : x \in Reserved(s.calls) /\ x # n => x \in Reserved(calls)
    <3>1. TAKE x
    <3>2. HAVE x \in Reserved(s.calls) /\ x # n
    <3>3. PICK j \in DOMAIN s.calls :
                 x = s.calls[j].index /\ s.calls[j].started /\ ~s.calls[j].closed
      BY <3>2 DEF Reserved
    <3>4. j # i
      BY <3>2, <3>3
    <3>5. calls[j] = s.calls[j]
      BY <1>8, <3>4
    <3>6. QED
      BY <1>8, <3>3, <3>5 DEF Reserved
  <2>3. QED
    BY <2>1, <2>2
<1>16. ChatUsed(t) = ChatUsed(s) \cup {n}
  BY <1>3, <1>12, <1>15 DEF ChatUsed
<1>17. ChatMid(c, t)
  <2>1. ChatOpen(t) = {}
    BY <1>12 DEF ChatOpen
  <2>2. QED
    BY <1>9, <1>11, <1>12, <1>14, <1>16, <2>1 DEF ChatMid
<1>18. QED
  BY <1>7, <1>8, <1>12, <1>17 DEF t
-----------------------------------------------------------------------------
\* The indexes that are gone through are those of all calls.
LEMMA IndexesOfAll ==
  ASSUME NEW s \in ChatStates
  PROVE  \E n \in Nat : /\ Chat!Indexes(s) = [i \in 1..n |-> i]
                        /\ DOMAIN s.calls \subseteq 1..n
<1> DEFINE D == DOMAIN s.calls
           n == Chat!Max(D \cup {0})
<1>1. PICK m \in Nat : D \subseteq 1..m
  BY ChatCallsFields DEF ChatStates
<1>2. \E x \in D \cup {0} : \A y \in D \cup {0} : x >= y
  <2>1. CASE D = {}
    BY <2>1
  <2>2. CASE D # {}
    <3>1. Max(D) \in D /\ \A y \in D : y <= Max(D)
      BY <1>1, <2>2, MaxIsIn
    <3>2. Max(D) \in 1..m /\ \A y \in D : y \in 1..m
      BY <1>1, <3>1
    <3>3. QED
      BY <3>1, <3>2
  <2>3. QED
    BY <2>1, <2>2
<1>3. n \in D \cup {0} /\ \A y \in D : n >= y
  BY <1>2 DEF Chat!Max
<1>4. n \in Nat /\ D \subseteq 1..n
  <2>1. n \in Nat
    BY <1>1, <1>3
  <2>2. \A y \in D : y \in 1..m /\ n >= y
    BY <1>1, <1>3
  <2>3. QED
    BY <2>1, <2>2
<1>5. Chat!Indexes(s) = [i \in 1..n |-> i]
  BY DEF Chat!Indexes
<1> HIDE DEF n
<1>6. QED
  BY <1>4, <1>5

\* What is kept when the calls are shown that have not been.
Flushed(c, s, t) ==
  /\ ChatMid(c, t) /\ t.active = Chat!NoBlock
  /\ DOMAIN t.calls = DOMAIN s.calls
  /\ \A i \in DOMAIN s.calls : t.calls[i].name = s.calls[i].name
  /\ t.started = s.started /\ t.finished = s.finished /\ t.finish = s.finish

FlushOne(t, i) ==
  IF \/ i \notin DOMAIN t.calls
     \/ t.calls[i].closed
     \/ t.calls[i].name = Chat!None
  THEN t
  ELSE Chat!close_tool_call(Chat!emit_tool_use_start(t, i), i)

LEMMA FlushOneKept ==
  ASSUME NEW c, NEW s, NEW t, Flushed(c, s, t), NEW i \in Nat
  PROVE  LET u == FlushOne(t, i) IN
         /\ Flushed(c, s, u)
         /\ i \in DOMAIN s.calls /\ s.calls[i].name # 0 => u.calls[i].closed
         /\ \A j \in DOMAIN s.calls : j # i => u.calls[j].closed = t.calls[j].closed
<1> DEFINE u == FlushOne(t, i)
           a == Chat!emit_tool_use_start(t, i)
<1>1. Chat!None = 0
  BY ChatFrames
<1>2. CASE i \notin DOMAIN t.calls
  BY <1>2 DEF FlushOne, Flushed
<1>3. CASE i \in DOMAIN t.calls /\ (t.calls[i].closed \/ t.calls[i].name = 0)
  BY <1>1, <1>3 DEF FlushOne, Flushed
<1>4. CASE i \in DOMAIN t.calls /\ ~t.calls[i].closed /\ t.calls[i].name # 0
  <2>1. u = Chat!close_tool_call(a, i)
    BY <1>1, <1>4 DEF FlushOne
  <2>2. /\ ChatMid(c, a) /\ DOMAIN a.calls = DOMAIN t.calls
        /\ \A j \in DOMAIN t.calls :
             /\ j # i => a.calls[j] = t.calls[j]
             /\ a.calls[j].name = t.calls[j].name
             /\ a.calls[j].closed = t.calls[j].closed
        /\ a.calls[i].started
        /\ a.started = t.started /\ a.finished = t.finished /\ a.finish = t.finish
        /\ a.active = Chat!NoBlock
    BY <1>4, StartKept DEF Flushed
  <2>3. ~a.calls[i].closed
    BY <1>4, <2>2
  <2> HIDE DEF a
  <2>4. /\ ChatMid(c, u) /\ DOMAIN u.calls = DOMAIN a.calls
        /\ \A j \in DOMAIN a.calls : j # i => u.calls[j] = a.calls[j]
        /\ u.calls[i].closed /\ u.calls[i].name = a.calls[i].name
        /\ u.started = a.started /\ u.finished = a.finished /\ u.finish = a.finish
        /\ u.active = Chat!NoBlock
    BY <1>4, <2>1, <2>2, <2>3, CloseCallKept
  <2> HIDE DEF u
  <2>5. \A j \in DOMAIN t.calls : u.calls[j].name = t.calls[j].name
    BY <2>2, <2>4
  <2>6. \A j \in DOMAIN t.calls : j # i => u.calls[j] = t.calls[j]
    BY <2>2, <2>4
  <2>7. Flushed(c, s, u)
    BY <2>2, <2>4, <2>5 DEF Flushed
  <2>8. DOMAIN t.calls = DOMAIN s.calls
    BY DEF Flushed
  <2>9. QED
    BY <2>4, <2>6, <2>7, <2>8 DEF u
<1>5. QED
  BY <1>2, <1>3, <1>4

\* In the end every call that was given an index is shown.
LEMMA FlushKept2 ==
  ASSUME NEW c, NEW s, ChatMid(c, s), s.active = Chat!NoBlock
  PROVE  LET t == Chat!flush_pending_tool_calls(s) IN
         Flushed(c, s, t) /\ Reserved(t.calls) = {}
<1> DEFINE S == {t \in ChatStates : Flushed(c, s, t)}
<1>1. s \in S
  BY DEF ChatMid, Flushed
<1>2. PICK n \in Nat : /\ Chat!Indexes(s) = [i \in 1..n |-> i]
                       /\ DOMAIN s.calls \subseteq 1..n
  BY <1>1, IndexesOfAll
<1> DEFINE q == Chat!Indexes(s)
           step == [p \in S \X (1..n) |-> FlushOne(p[1], q[p[2]])]
           IsFold(it) == it = [u \in SUBSET DOMAIN q |->
                                 IF u = {} THEN s
                                 ELSE FlushOne(it[u \ {Max(u)}], q[Max(u)])]
           fold == CHOOSE it : IsFold(it)
<1>3. Chat!flush_pending_tool_calls(s) = fold[DOMAIN q]
  BY DEF Chat!flush_pending_tool_calls, FlushOne, Chat!FoldLeft, Chat!MapThenFoldSet,
         Chat!Max, Max
<1>4. DOMAIN q = 1..n /\ \A i \in 1..n : q[i] = i
  BY <1>2
<1> HIDE DEF q
<1>5. \A t \in S, i \in 1..n : FlushOne(t, q[i]) \in S
  <2>1. TAKE t \in S, i \in 1..n
  <2>2. Flushed(c, s, FlushOne(t, i))
    BY FlushOneKept
  <2>3. FlushOne(t, i) \in ChatStates
    BY <2>2 DEF Flushed, ChatMid
  <2>4. QED
    BY <1>4, <2>2, <2>3
<1>6. IsFold(fold)
  <2>1. step \in [S \X (1..n) -> S]
    BY <1>5
  <2>2. PICK g \in [SUBSET (1..n) -> S] : Staged(n, g, s, step)
    BY <1>1, <2>1, StagesExist
  <2>3. \A t \in S, k \in 1..n : step[<<t, k>>] = FlushOne(t, q[k])
    OBVIOUS
  <2> HIDE DEF step
  <2>4. \A u \in SUBSET (1..n) : u # {} =>
          step[<<g[u \ {Max(u)}], Max(u)>>] = FlushOne(g[u \ {Max(u)}], q[Max(u)])
    BY <2>3, FirstNumbers
  <2>5. \A u \in SUBSET (1..n) :
          g[u] = IF u = {} THEN s ELSE FlushOne(g[u \ {Max(u)}], q[Max(u)])
    BY <2>2, <2>4 DEF Staged
  <2>6. IsFold(g)
    BY <1>4, <2>5
  <2>7. QED
    BY <2>6
<1> HIDE DEF fold, S
<1>7. fold[{}] = s
  <2>1. {} \in SUBSET (DOMAIN q)
    OBVIOUS
  <2>2. QED
    BY <1>6, <2>1
<1>8. \A k \in 1..n : fold[1..k] = FlushOne(fold[1..(k - 1)], k)
  <2>1. TAKE k \in 1..n
  <2> DEFINE all == 1..k
             less == 1..(k - 1)
  <2>2. all \in SUBSET (1..n) /\ all # {} /\ Max(all) = k /\ all \ {k} = less
    BY <1>4, FirstNumbers
  <2> HIDE DEF all, less
  <2>3. fold[all] = FlushOne(fold[all \ {Max(all)}], Max(all))
    BY <1>4, <1>6, <2>2
  <2>4. QED
    BY <2>2, <2>3 DEF all, less
<1> DEFINE P == {k \in 0..n : /\ fold[1..k] \in S
                              /\ \A i \in DOMAIN s.calls :
                                   i <= k /\ s.calls[i].name # 0 => fold[1..k].calls[i].closed}
<1>9. 0 \in P
  BY <1>1, <1>2, <1>7, FirstNumbers
<1>10. ASSUME NEW k \in 1..n, k - 1 \in P PROVE k \in P
  <2>1. fold[1..(k - 1)] \in S /\ Flushed(c, s, fold[1..(k - 1)])
    BY <1>10 DEF S
  <2>2. fold[1..k] \in S
    BY <1>4, <1>5, <1>8, <2>1
  <2>3. /\ k \in DOMAIN s.calls /\ s.calls[k].name # 0 => fold[1..k].calls[k].closed
        /\ \A j \in DOMAIN s.calls : j # k =>
             fold[1..k].calls[j].closed = fold[1..(k - 1)].calls[j].closed
    BY <1>8, <2>1, FlushOneKept
  <2>4. ASSUME NEW i \in DOMAIN s.calls, i <= k, s.calls[i].name # 0
        PROVE  fold[1..k].calls[i].closed
    <3>1. i \in 1..n /\ (i = k \/ i <= k - 1)
      BY <1>2, <2>4
    <3>2. QED
      BY <1>10, <2>3, <2>4, <3>1
  <2>5. k \in 0..n
    OBVIOUS
  <2>6. QED
    BY <2>2, <2>4, <2>5
<1> HIDE DEF P
<1>11. n \in P
  BY <1>9, <1>10, LastStage
<1> DEFINE t == fold[1..n]
<1>12. /\ Flushed(c, s, t)
       /\ \A i \in DOMAIN s.calls : s.calls[i].name # 0 => t.calls[i].closed
  BY <1>2, <1>11 DEF P, S
<1>13. Reserved(t.calls) = {}
  <2>1. \A i \in DOMAIN s.calls : t.calls[i].started => s.calls[i].name # 0
    BY <1>12 DEF Flushed, ChatMid, CallsNumbered
  <2>2. DOMAIN t.calls = DOMAIN s.calls
    BY <1>12 DEF Flushed
  <2>3. QED
    BY <1>12, <2>1, <2>2 DEF Reserved
<1>14. QED
  BY <1>3, <1>4, <1>12, <1>13
-----------------------------------------------------------------------------
ShowChunk(t, chunk) ==
  [Chat!Emit(Chat!Emit(Chat!Emit(t, Chat!BlockStart(t.next, chunk.kind, Chat!None)),
                       Chat!BlockDelta(t.next, chunk.parts)),
             Chat!BlockStop(t.next)) EXCEPT !.next = @ + 1]

\* What is kept when the chunks are shown that waited.
Released(c, s, t) ==
  /\ ChatMid(c, t) /\ t.active = Chat!NoBlock
  /\ t.calls = s.calls
  /\ t.started = s.started /\ t.finished = s.finished /\ t.finish = s.finish

LEMMA ShowChunkKept ==
  ASSUME NEW c, NEW s, NEW t, Released(c, s, t), NEW chunk \in ChatChunk
  PROVE  Released(c, s, ShowChunk(t, chunk))
<1> DEFINE u == ShowChunk(t, chunk)
           n == t.next
           kind == chunk.kind
           parts == chunk.parts
           x == Append(t.out, BlockStart(n, kind, 0))
           y == Append(x, BlockDelta(n, parts))
           z == Append(y, BlockStop(n))
<1>1. t \in ChatStates /\ n \in Nat /\ CallsNumbered(t.calls, n)
  BY DEF Released, ChatMid, ChatStates
<1>2. kind \in Kinds /\ parts \in Parts
  BY DEF ChatChunk, Kinds
<1>3. u = [t EXCEPT !.out = z, !.next = n + 1]
  BY <1>1, ChatFrames DEF ShowChunk, ChatStates
<1>4. /\ n \notin ChatUsed(t)
      /\ ChatUsed(t) \cup {n} = (0..((n + 1) - 1)) \ Reserved(t.calls)
      /\ CallsNumbered(t.calls, n + 1)
  BY <1>1, NextIsFree
<1>5. Ends(c, t.out, "started", {}, ChatUsed(t), FALSE)
  BY DEF Released, ChatMid, ChatOpen
<1> HIDE DEF u, n, kind, parts
<1>6. Ends(c, x, "started", {n}, ChatUsed(t) \cup {n}, FALSE)
  <2>1. 0 \in Int
    OBVIOUS
  <2> DEFINE used == ChatUsed(t)
  <2>2. Ends(c, t.out, "started", {}, used, FALSE) /\ n \notin used
    BY <1>4, <1>5, Zenon
  <2> HIDE DEF used
  <2>3. Ends(c, Append(t.out, BlockStart(n, kind, 0)), "started", {n}, used \cup {n}, FALSE)
    BY <1>1, <1>2, <2>1, <2>2, EndsStart, Zenon
  <2>4. QED
    BY <2>3, Zenon DEF used
<1> HIDE DEF x
<1>7. Ends(c, y, "started", {n}, ChatUsed(t) \cup {n}, FALSE)
  BY <1>1, <1>2, <1>6, EndsFrame
<1> HIDE DEF y
<1>8. Ends(c, z, "started", {}, ChatUsed(t) \cup {n}, FALSE)
  BY <1>1, <1>7, EndsFrame
<1>9. z \in Seq(Frames) /\ n + 1 \in Nat
  BY <1>1, <1>8 DEF Ends
<1> HIDE DEF z
<1>10. u \in ChatStates
  BY <1>1, <1>3, <1>9 DEF ChatStates
<1>11. /\ u.out = z /\ u.next = n + 1 /\ u.calls = t.calls /\ u.active = t.active
       /\ u.started = t.started /\ u.finished = t.finished /\ u.finish = t.finish
  BY <1>1, <1>3 DEF ChatStates
<1>12. ChatUsed(u) = ChatUsed(t) \cup {n} /\ ChatOpen(u) = {} /\ u.active = Chat!NoBlock
  BY <1>4, <1>11 DEF ChatUsed, ChatOpen, Released
<1>13. ChatMid(c, u)
  BY <1>4, <1>8, <1>10, <1>11, <1>12 DEF ChatMid
<1>14. QED
  BY <1>11, <1>12, <1>13 DEF Released, u

LEMMA ReleasedAll ==
  ASSUME NEW c, NEW s, ChatMid(c, s), s.active = Chat!NoBlock
  PROVE  Released(c, s, Chat!flush_interleaved(s))
<1> DEFINE S == {t \in ChatStates : Released(c, s, t)}
           q == s.interleaved
           n == Len(q)
           step == [p \in S \X (1..n) |-> ShowChunk(p[1], q[p[2]])]
           IsFold(it) == it = [u \in SUBSET DOMAIN q |->
                                 IF u = {} THEN s
                                 ELSE ShowChunk(it[u \ {Max(u)}], q[Max(u)])]
           fold == CHOOSE it : IsFold(it)
<1>1. s \in S /\ s \in ChatStates
  BY DEF ChatMid, Released
<1>2. Chat!flush_interleaved(s) = [fold[DOMAIN q] EXCEPT !.interleaved = << >>]
  BY DEF Chat!flush_interleaved, ShowChunk, Chat!FoldLeft, Chat!MapThenFoldSet,
         Chat!Max, Max
<1>3. n \in Nat /\ DOMAIN q = 1..n /\ \A i \in 1..n : q[i] \in ChatChunk
  BY <1>1 DEF ChatStates
<1> HIDE DEF q, n
<1>4. \A t \in S, i \in 1..n : ShowChunk(t, q[i]) \in S
  <2>1. TAKE t \in S, i \in 1..n
  <2>2. Released(c, s, ShowChunk(t, q[i]))
    BY <1>3, ShowChunkKept
  <2>3. ShowChunk(t, q[i]) \in ChatStates
    BY <2>2 DEF Released, ChatMid
  <2>4. QED
    BY <2>2, <2>3
<1>5. IsFold(fold)
  <2>1. step \in [S \X (1..n) -> S]
    BY <1>4
  <2>2. PICK g \in [SUBSET (1..n) -> S] : Staged(n, g, s, step)
    BY <1>1, <1>3, <2>1, StagesExist
  <2>3. \A t \in S, k \in 1..n : step[<<t, k>>] = ShowChunk(t, q[k])
    OBVIOUS
  <2> HIDE DEF step
  <2>4. \A u \in SUBSET (1..n) : u # {} =>
          step[<<g[u \ {Max(u)}], Max(u)>>] = ShowChunk(g[u \ {Max(u)}], q[Max(u)])
    BY <1>3, <2>3, FirstNumbers
  <2>5. \A u \in SUBSET (1..n) :
          g[u] = IF u = {} THEN s ELSE ShowChunk(g[u \ {Max(u)}], q[Max(u)])
    BY <2>2, <2>4 DEF Staged
  <2>6. IsFold(g)
    BY <1>3, <2>5
  <2>7. QED
    BY <2>6
<1> HIDE DEF fold
<1>6. fold[{}] = s
  <2>1. {} \in SUBSET (DOMAIN q)
    OBVIOUS
  <2>2. QED
    BY <1>5, <2>1
<1>7. \A k \in 1..n : fold[1..k] = ShowChunk(fold[1..(k - 1)], q[k])
  <2>1. TAKE k \in 1..n
  <2> DEFINE all == 1..k
             less == 1..(k - 1)
  <2>2. all \in SUBSET (1..n) /\ all # {} /\ Max(all) = k /\ all \ {k} = less
    BY <1>3, FirstNumbers
  <2> HIDE DEF all, less
  <2>3. fold[all] = ShowChunk(fold[all \ {Max(all)}], q[Max(all)])
    BY <1>3, <1>5, <2>2
  <2>4. QED
    BY <2>2, <2>3 DEF all, less
<1> DEFINE P == {k \in 0..n : fold[1..k] \in S}
<1>8. 0 \in P
  BY <1>1, <1>3, <1>6, FirstNumbers
<1>9. \A k \in 1..n : k - 1 \in P => k \in P
  BY <1>4, <1>7
<1> HIDE DEF P
<1>10. n \in P
  BY <1>3, <1>8, <1>9, LastStage
<1> DEFINE t == fold[1..n]
           u == [t EXCEPT !.interleaved = << >>]
<1>11. Released(c, s, t) /\ t \in ChatStates /\ Chat!flush_interleaved(s) = u
  BY <1>2, <1>3, <1>10 DEF P
<1> HIDE DEF t
<1>12. u \in ChatStates
  <2>1. t \in ChatStates /\ << >> \in Seq(ChatChunk)
    BY <1>11
  <2>2. QED
    BY <2>1 DEF ChatStates
<1>13. /\ u.out = t.out /\ u.next = t.next /\ u.calls = t.calls /\ u.active = t.active
       /\ u.started = t.started /\ u.finished = t.finished /\ u.finish = t.finish
  BY <1>11 DEF ChatStates
<1> HIDE DEF u
<1>14. ChatUsed(u) = ChatUsed(t) /\ ChatOpen(u) = ChatOpen(t)
  BY <1>13 DEF ChatUsed, ChatOpen
<1>15. Released(c, s, u)
  BY <1>11, <1>12, <1>13, <1>14 DEF Released, ChatMid
<1>16. QED
  BY <1>11, <1>15
-----------------------------------------------------------------------------
\* While no call is open, none is started, and none is to be closed.
NothingToClose(t, i) ==
  \/ i \notin DOMAIN t.calls
  \/ t.calls[i].closed
  \/ ~t.calls[i].started

CloseOne(t, i) ==
  IF NothingToClose(t, i) THEN t
  ELSE [Chat!close_tool_call(t, i) EXCEPT !.open = IF @ = i THEN Chat!None ELSE @]

LEMMA NoneToClose ==
  ASSUME NEW s \in ChatStates, \A i \in DOMAIN s.calls : ~s.calls[i].started
  PROVE  Chat!close_pending_tool_calls(s) = s
<1> DEFINE S == {s}
<1>1. PICK n \in Nat : /\ Chat!Indexes(s) = [i \in 1..n |-> i]
                       /\ DOMAIN s.calls \subseteq 1..n
  BY IndexesOfAll
<1> DEFINE q == Chat!Indexes(s)
           step == [p \in S \X (1..n) |-> CloseOne(p[1], q[p[2]])]
           IsFold(it) == it = [u \in SUBSET DOMAIN q |->
                                 IF u = {} THEN s
                                 ELSE CloseOne(it[u \ {Max(u)}], q[Max(u)])]
           fold == CHOOSE it : IsFold(it)
<1>2. Chat!close_pending_tool_calls(s) = fold[DOMAIN q]
  BY DEF Chat!close_pending_tool_calls, CloseOne, NothingToClose, Chat!FoldLeft,
         Chat!MapThenFoldSet, Chat!Max, Max
<1>3. DOMAIN q = 1..n /\ \A i \in 1..n : q[i] = i
  BY <1>1
<1> HIDE DEF q
<1>4. \A t \in S, i \in 1..n : CloseOne(t, q[i]) \in S
  <2>1. \A i : NothingToClose(s, i)
    BY DEF NothingToClose
  <2>2. QED
    BY <2>1 DEF CloseOne
<1>5. IsFold(fold)
  <2>1. step \in [S \X (1..n) -> S]
    BY <1>4
  <2>2. PICK g \in [SUBSET (1..n) -> S] : Staged(n, g, s, step)
    BY <2>1, StagesExist
  <2>3. \A t \in S, k \in 1..n : step[<<t, k>>] = CloseOne(t, q[k])
    OBVIOUS
  <2> HIDE DEF step
  <2>4. \A u \in SUBSET (1..n) : u # {} =>
          step[<<g[u \ {Max(u)}], Max(u)>>] = CloseOne(g[u \ {Max(u)}], q[Max(u)])
    BY <2>3, FirstNumbers
  <2>5. \A u \in SUBSET (1..n) :
          g[u] = IF u = {} THEN s ELSE CloseOne(g[u \ {Max(u)}], q[Max(u)])
    BY <2>2, <2>4 DEF Staged
  <2>6. IsFold(g)
    BY <1>3, <2>5
  <2>7. QED
    BY <2>6
<1> HIDE DEF fold
<1>6. fold[{}] = s
  <2>1. {} \in SUBSET (DOMAIN q)
    OBVIOUS
  <2>2. QED
    BY <1>5, <2>1
<1>7. \A k \in 1..n : fold[1..k] = CloseOne(fold[1..(k - 1)], q[k])
  <2>1. TAKE k \in 1..n
  <2>2. /\ 1..k # {} /\ 1..k \in SUBSET (1..n)
        /\ Max(1..k) = k /\ (1..k) \ {k} = 1..(k - 1)
    BY <1>3, FirstNumbers
  <2>3. fold[1..k] = CloseOne(fold[(1..k) \ {Max(1..k)}], q[Max(1..k)])
    BY <1>3, <1>5, <2>2
  <2>4. QED
    BY <2>2, <2>3
<1> DEFINE P == {k \in 0..n : fold[1..k] \in S}
<1>8. 0 \in P
  BY <1>6, FirstNumbers
<1>9. \A k \in 1..n : k - 1 \in P => k \in P
  BY <1>4, <1>7
<1> HIDE DEF P
<1>10. n \in P
  BY <1>8, <1>9, LastStage
<1>11. QED
  BY <1>2, <1>3, <1>10 DEF P
-----------------------------------------------------------------------------
LEMMA ChatPieces ==
  /\ << >> \in Parts
  /\ \A p, q \in Parts : p \o q \in Parts
  /\ \A n \in Int : <<n>> \in Parts
BY DEF Parts

\* What waits behind the calls.
LEMMA BufferKept ==
  ASSUME NEW c, NEW s, ChatMid(c, s), NEW kind \in {"text", "thinking"},
         NEW parts \in Parts
  PROVE  LET t == Chat!buffer_interleaved(s, kind, parts) IN
         ChatMid(c, t) /\ ChatKept(s, t)
<1> DEFINE t == Chat!buffer_interleaved(s, kind, parts)
           q == s.interleaved
           n == Len(q)
<1>1. s \in ChatStates /\ q \in Seq(ChatChunk) /\ n \in Nat
  BY DEF ChatMid, ChatStates
<1>2. \E w \in Seq(ChatChunk) : t = [s EXCEPT !.interleaved = w]
  <2>1. CASE n > 0 /\ q[n].kind = kind
    <3>1. t = [s EXCEPT !.interleaved[n].parts = @ \o parts]
      BY <2>1 DEF Chat!buffer_interleaved
    <3> DEFINE chunk == [q[n] EXCEPT !.parts = @ \o parts]
               w == [q EXCEPT ![n] = chunk]
    <3>2. q[n] \in ChatChunk /\ n \in DOMAIN q
      BY <1>1, <2>1
    <3>3. q[n].parts \o parts \in Parts
      BY <3>2, ChatPieces DEF ChatChunk
    <3>4. chunk \in ChatChunk
      BY <3>2, <3>3 DEF ChatChunk
    <3>5. t = [s EXCEPT !.interleaved = w]
      BY <1>1, <3>1, <3>2 DEF ChatStates, ChatChunk
    <3> HIDE DEF chunk
    <3>6. w \in Seq(ChatChunk)
      BY <1>1, <3>2, <3>4
    <3>7. QED
      BY <3>5, <3>6
  <2>2. CASE ~(n > 0 /\ q[n].kind = kind)
    <3> DEFINE chunk == [kind |-> kind, parts |-> parts]
               w == Append(q, chunk)
    <3>1. t = [s EXCEPT !.interleaved = w]
      BY <1>1, <2>2 DEF Chat!buffer_interleaved, ChatStates
    <3>2. chunk \in ChatChunk
      BY DEF ChatChunk
    <3> HIDE DEF chunk
    <3>3. w \in Seq(ChatChunk)
      BY <1>1, <3>2
    <3>4. QED
      BY <3>1, <3>3
  <2>3. QED
    BY <2>1, <2>2
<1>3. PICK w \in Seq(ChatChunk) : t = [s EXCEPT !.interleaved = w]
  BY <1>2
<1> HIDE DEF t
<1>4. t \in ChatStates
  BY <1>1, <1>3 DEF ChatStates
<1>5. t.out = s.out /\ t.next = s.next /\ t.active = s.active /\ ChatKept(s, t)
  BY <1>1, <1>3 DEF ChatStates, ChatKept
<1>6. t.calls = s.calls
  BY <1>5 DEF ChatKept
<1>7. ChatMid(c, t)
  BY <1>4, <1>5, <1>6, ChatMidKept
<1>8. QED
  BY <1>5, <1>7 DEF t

\* Text or thinking is shown, or waits.
LEMMA ContentKept ==
  ASSUME NEW c, NEW s, ChatMid(c, s), CallsWait(s), NEW kind \in {"text", "thinking"},
         NEW parts \in Parts
  PROVE  LET t == Chat!emit_content_delta(s, kind, parts) IN
         ChatMid(c, t) /\ ChatKept(s, t)
<1> DEFINE t == Chat!emit_content_delta(s, kind, parts)
           b == Chat!ensure_block(s, kind)
<1>1. s \in ChatStates
  BY DEF ChatMid
<1>2. CASE s.open # 0
  <2>1. t = Chat!buffer_interleaved(s, kind, parts)
    BY <1>2, ChatFrames DEF Chat!emit_content_delta
  <2>2. QED
    BY <2>1, BufferKept
<1>3. CASE s.open = 0
  <2>1. Chat!close_pending_tool_calls(s) = s
    BY <1>1, <1>3, NoneToClose DEF CallsWait
  <2> DEFINE n == b.active.index
             out == Append(b.out, BlockDelta(n, parts))
  <2>2. t = Chat!Emit(b, Chat!BlockDelta(n, parts))
    BY <1>3, <2>1, ChatFrames DEF Chat!emit_content_delta
  <2>3. ChatMid(c, b) /\ ChatKept(s, b) /\ b.active # Chat!NoBlock
    BY EnsureBlockKept
  <2> HIDE DEF b
  <2>4. b \in ChatStates /\ n \in Nat /\ ChatOpen(b) = {n}
        /\ Ends(c, b.out, "started", {n}, ChatUsed(b), FALSE)
    BY <2>3 DEF ChatMid, ChatOpen
  <2>5. t = [b EXCEPT !.out = out]
    BY <2>2, <2>4, ChatFrames DEF ChatStates
  <2>6. Ends(c, out, "started", {n}, ChatUsed(b), FALSE)
    BY <2>4, EndsFrame
  <2>7. out \in Seq(Frames)
    BY <2>6 DEF Ends
  <2> HIDE DEF out, t
  <2>8. t \in ChatStates
    BY <2>4, <2>5, <2>7 DEF ChatStates
  <2>9. t.out = out /\ t.next = b.next /\ t.active = b.active /\ ChatKept(b, t)
    BY <2>4, <2>5 DEF ChatStates, ChatKept
  <2>10. t.calls = b.calls
    BY <2>9 DEF ChatKept
  <2>11. ChatOpen(t) = ChatOpen(b) /\ ChatUsed(t) = ChatUsed(b)
    BY <2>9, <2>10 DEF ChatOpen, ChatUsed
  <2>12. ChatMid(c, t)
    BY <2>3, <2>4, <2>6, <2>8, <2>9, <2>10, <2>11 DEF ChatMid
  <2>13. ChatKept(s, t)
    BY <2>3, <2>9 DEF ChatKept
  <2>14. QED
    BY <2>12, <2>13 DEF t
<1>4. QED
  BY <1>2, <1>3

\* The pieces of several texts are one text.
LEMMA FlattenedIsText ==
  ASSUME NEW texts \in Seq(Parts)
  PROVE  Chat!FlattenSeq(texts) \in Parts
<1> DEFINE n == Len(texts)
           IsFlat(f) == f = [i \in 1..n |-> IF i = 1 THEN texts[i] ELSE f[i - 1] \o texts[i]]
           flat == CHOOSE f : IsFlat(f)
           step == [p \in Parts \X (1..n) |->
                      IF p[2] = 1 THEN texts[1] ELSE p[1] \o texts[p[2]]]
<1>1. n \in Nat /\ \A i \in 1..n : texts[i] \in Parts
  OBVIOUS
<1>2. CASE n = 0
  <2>1. texts = << >>
    BY <1>2
  <2>2. QED
    BY <2>1, ChatPieces DEF Chat!FlattenSeq
<1>3. CASE n # 0
  <2>1. Chat!FlattenSeq(texts) = flat[n]
    BY <1>3 DEF Chat!FlattenSeq
  <2>2. step \in [Parts \X (1..n) -> Parts]
    <3>1. ASSUME NEW p \in Parts \X (1..n)
          PROVE  (IF p[2] = 1 THEN texts[1] ELSE p[1] \o texts[p[2]]) \in Parts
      <4>1. p[1] \in Parts /\ p[2] \in 1..n /\ texts[p[2]] \in Parts
        BY <1>1
      <4>2. QED
        BY <4>1, ChatPieces
    <3>2. QED
      BY <3>1
  <2>3. PICK g \in [SUBSET (1..n) -> Parts] : Staged(n, g, << >>, step)
    BY <1>1, <2>2, ChatPieces, StagesExist
  <2> DEFINE f == [i \in 1..n |-> g[1..i]]
  <2>4. ASSUME NEW i \in 1..n
        PROVE  g[1..i] = IF i = 1 THEN texts[i] ELSE g[1..(i - 1)] \o texts[i]
    <3>1. Max(1..i) = i /\ (1..i) \ {i} = 1..(i - 1) /\ 1..i # {} /\ 1..i \in SUBSET (1..n)
      BY <1>1, FirstNumbers
    <3>2. g[1..i] = step[<<g[(1..i) \ {Max(1..i)}], Max(1..i)>>]
      BY <2>3, <3>1 DEF Staged
    <3>3. g[1..i] = step[<<g[1..(i - 1)], i>>]
      BY <3>1, <3>2
    <3>4. 1..(i - 1) \in SUBSET (1..n) /\ g[1..(i - 1)] \in Parts
      BY <1>1, <3>1
    <3>5. QED
      BY <3>3, <3>4
  <2>5. IsFlat(f)
    <3>1. \A i \in 1..n : i # 1 => i - 1 \in 1..n
      BY <1>1
    <3>2. QED
      BY <2>4, <3>1
  <2>6. IsFlat(flat)
    BY <2>5
  <2> HIDE DEF flat, n
  <2>7. \A i \in 1..n : flat[i] = IF i = 1 THEN texts[i] ELSE flat[i - 1] \o texts[i]
    BY <2>6
  <2> DEFINE P == {i \in 0..n : i = 0 \/ flat[i] \in Parts}
  <2>8. 0 \in P
    BY <1>1
  <2>9. \A i \in 1..n : i - 1 \in P => i \in P
    <3>1. TAKE i \in 1..n
    <3>2. HAVE i - 1 \in P
    <3>3. i = 1 \/ flat[i - 1] \in Parts
      BY <1>1, <3>2
    <3>4. flat[i] \in Parts
      BY <1>1, <2>7, <3>3, ChatPieces
    <3>5. QED
      BY <3>4
  <2> HIDE DEF P
  <2>10. n \in P
    BY <1>1, <2>8, <2>9, LastStage
  <2>11. QED
    BY <1>3, <2>1, <2>10 DEF P
<1>4. QED
  BY <1>2, <1>3
-----------------------------------------------------------------------------
\* How the conversion stands between two chunks.
ChatWaiting(c, s) ==
  /\ s \in ChatStates
  /\ ~s.finished /\ ~s.started /\ s.active = Chat!NoBlock /\ s.next = 0
  /\ DOMAIN s.calls = {} /\ s.open = 0 /\ ~s.saw /\ s.finish = ""
  /\ Ends(c, s.out, "waiting", {}, {}, FALSE)

ChatBegun(c, s) ==
  /\ ChatMid(c, s) /\ CallsWait(s)
  /\ s.started /\ ~s.finished

ChatOver(c, s) == s \in ChatStates /\ s.finished /\ Over(c, s.out, FALSE)

LEMMA WaitKept ==
  ASSUME NEW s, NEW t, CallsWait(s), ChatKept(s, t)
  PROVE  CallsWait(t)
BY Zenon DEF CallsWait, ChatKept

LEMMA ChatStarted ==
  ASSUME NEW c, NEW s, ChatWaiting(c, s) \/ ChatBegun(c, s)
  PROVE  ChatBegun(c, Chat!ensure_started(s))
<1> DEFINE t == Chat!ensure_started(s)
           out == Append(s.out, MessageStart)
<1>1. CASE ChatBegun(c, s)
  BY <1>1 DEF Chat!ensure_started, ChatBegun
<1>2. CASE ChatWaiting(c, s)
  <2>1. s \in ChatStates /\ ~s.started
    BY <1>2 DEF ChatWaiting
  <2>2. t = [s EXCEPT !.out = out, !.started = TRUE]
    BY <2>1, ChatFrames DEF Chat!ensure_started, ChatStates
  <2>3. Ends(c, out, "started", {}, {}, FALSE)
    BY <1>2, EndsFrame DEF ChatWaiting
  <2>4. out \in Seq(Frames)
    BY <2>3 DEF Ends
  <2> HIDE DEF t, out
  <2>5. t \in ChatStates
    BY <2>1, <2>2, <2>4 DEF ChatStates
  <2>6. /\ t.out = out /\ t.started /\ t.active = s.active /\ t.next = s.next
        /\ t.calls = s.calls /\ t.open = s.open /\ t.saw = s.saw /\ t.finished = s.finished
    BY <2>1, <2>2 DEF ChatStates
  <2>7. DOMAIN t.calls = {} /\ t.active = Chat!NoBlock /\ t.next = 0 /\ t.open = 0
        /\ ~t.finished
    BY <1>2, <2>6 DEF ChatWaiting
  <2>8. ChatOpen(t) = {} /\ ChatUsed(t) = {}
    BY <2>7 DEF ChatOpen, ChatUsed
  <2>9. CallsNumbered(t.calls, t.next) /\ CallsWait(t)
    BY <2>7 DEF CallsNumbered, CallsWait
  <2>10. QED
    BY <2>3, <2>5, <2>6, <2>7, <2>8, <2>9 DEF ChatBegun, ChatMid, t
<1>3. QED
  BY <1>1, <1>2

LEMMA ThinkKept ==
  ASSUME NEW c, NEW s, ChatBegun(c, s), NEW text \in Parts
  PROVE  ChatBegun(c, Chat!Think(s, text))
<1> DEFINE a == [s EXCEPT !.thinking = Append(@, text)]
           t == Chat!emit_content_delta(a, "thinking", text)
<1>1. s \in ChatStates /\ s.thinking \in Seq(Parts)
  BY DEF ChatBegun, ChatMid, ChatStates
<1>2. Append(s.thinking, text) \in Seq(Parts)
  BY <1>1
<1>3. a \in ChatStates
  BY <1>1, <1>2 DEF ChatStates
<1>4. a.out = s.out /\ a.next = s.next /\ a.active = s.active /\ ChatKept(s, a)
  BY <1>1 DEF ChatStates, ChatKept
<1>5. Chat!Think(s, text) = s \/ Chat!Think(s, text) = t
  BY DEF Chat!Think
<1> HIDE DEF a
<1>6. ChatMid(c, a) /\ CallsWait(a)
  <2>1. a.calls = s.calls
    BY <1>4 DEF ChatKept
  <2>2. ChatMid(c, a)
    BY <1>3, <1>4, <2>1, ChatMidKept DEF ChatBegun
  <2>3. QED
    BY <1>4, <2>2, WaitKept DEF ChatBegun
<1>7. ChatMid(c, t) /\ ChatKept(a, t)
  BY <1>6, ContentKept
<1> HIDE DEF t
<1>8. ChatBegun(c, t)
  BY <1>4, <1>6, <1>7, WaitKept DEF ChatBegun, ChatKept
<1>9. QED
  BY <1>5, <1>8

LEMMA SayKept ==
  ASSUME NEW c, NEW s, ChatBegun(c, s), NEW text \in Parts
  PROVE  ChatBegun(c, Chat!Say(s, text))
<1> DEFINE a == [s EXCEPT !.hasText = TRUE]
           t == Chat!emit_content_delta(a, "text", text)
<1>1. s \in ChatStates
  BY DEF ChatBegun, ChatMid
<1>2. a \in ChatStates
  BY <1>1 DEF ChatStates
<1>3. a.out = s.out /\ a.next = s.next /\ a.active = s.active /\ ChatKept(s, a)
  BY <1>1 DEF ChatStates, ChatKept
<1>4. Chat!Say(s, text) = t
  BY DEF Chat!Say
<1> HIDE DEF a
<1>5. ChatMid(c, a) /\ CallsWait(a)
  <2>1. a.calls = s.calls
    BY <1>3 DEF ChatKept
  <2>2. ChatMid(c, a)
    BY <1>2, <1>3, <2>1, ChatMidKept DEF ChatBegun
  <2>3. QED
    BY <1>3, <2>2, WaitKept DEF ChatBegun
<1>6. ChatMid(c, t) /\ ChatKept(a, t)
  BY <1>5, ContentKept
<1> HIDE DEF t
<1>7. ChatBegun(c, t)
  BY <1>3, <1>5, <1>6, WaitKept DEF ChatBegun, ChatKept
<1>8. QED
  BY <1>4, <1>7

LEMMA ThinkingShown ==
  ASSUME NEW c, NEW s, ChatMid(c, s), CallsWait(s), s.active = Chat!NoBlock
  PROVE  LET t == Chat!ThinkingAsText(s) IN
         ChatMid(c, t) /\ t.active = Chat!NoBlock
<1> DEFINE text == Chat!FlattenSeq(s.thinking)
           a == Chat!emit_content_delta(s, "text", text)
<1>1. s.thinking \in Seq(Parts)
  BY DEF ChatMid, ChatStates
<1>2. text \in Parts
  BY <1>1, FlattenedIsText
<1>3. ChatMid(c, a)
  BY <1>2, ContentKept
<1>4. ChatMid(c, Chat!close_active_block(a))
      /\ Chat!close_active_block(a).active = Chat!NoBlock
  BY <1>3, CloseBlockKept
<1>5. QED
  BY <1>4 DEF Chat!ThinkingAsText

LEMMA FinishKept ==
  ASSUME NEW c, NEW s, ChatBegun(c, s), NEW finish \in ChatFinishes
  PROVE  ChatBegun(c, Chat!finish_reason(s, finish))
<1> DEFINE t == Chat!finish_reason(s, finish)
           f == t.finish
<1>1. s \in ChatStates
  BY DEF ChatBegun, ChatMid
<1>2. Chat!resolve(s, finish) \in ChatFinishes
  BY DEF Chat!resolve, ChatFinishes
<1>3. \E r \in ChatFinishes : t = [s EXCEPT !.finish = r]
  <2>1. "stop" \in ChatFinishes
    BY DEF ChatFinishes
  <2>2. QED
    BY <1>2, <2>1 DEF Chat!finish_reason
<1>4. PICK r \in ChatFinishes : t = [s EXCEPT !.finish = r]
  BY <1>3
<1> HIDE DEF t
<1>5. t \in ChatStates
  BY <1>1, <1>4 DEF ChatStates
<1>6. /\ t.out = s.out /\ t.next = s.next /\ t.active = s.active /\ t.calls = s.calls
      /\ t.open = s.open /\ t.saw = s.saw /\ t.started = s.started
      /\ t.finished = s.finished
  BY <1>1, <1>4 DEF ChatStates
<1>7. ChatMid(c, t)
  BY <1>5, <1>6, ChatMidKept DEF ChatBegun
<1>8. CallsWait(t)
  BY <1>6 DEF CallsWait, ChatBegun
<1>9. QED
  BY <1>6, <1>7, <1>8 DEF ChatBegun, t

\* The message is completed.
LEMMA ChatFinalized ==
  ASSUME NEW c, NEW s, ChatBegun(c, s)
  PROVE  ChatOver(c, Chat!finalize(s))
<1> DEFINE a == Chat!close_active_block(s)
           b == Chat!ThinkingAsText(a)
           d == Chat!flush_pending_tool_calls(b)
           e == Chat!flush_interleaved(d)
           reason == Chat!map_finish_reason(Chat!resolve(e, e.finish))
           told == Append(e.out, MessageDelta(reason))
           out == Append(told, MessageStop)
           t == Chat!finalize(s)
<1>1. s.started /\ Chat!ensure_started(s) = s
  BY DEF ChatBegun, Chat!ensure_started
<1>2. ChatMid(c, a) /\ CallsWait(a) /\ a.active = Chat!NoBlock
  BY CloseBlockKept, WaitKept DEF ChatBegun
<1>3. ChatMid(c, b) /\ b.active = Chat!NoBlock
  BY <1>2, ThinkingShown
<1>4. ChatMid(c, d) /\ d.active = Chat!NoBlock /\ Reserved(d.calls) = {}
  BY <1>3, FlushKept2 DEF Flushed
<1>5. ChatMid(c, e) /\ e.active = Chat!NoBlock /\ e.calls = d.calls
  BY <1>4, ReleasedAll DEF Released
<1>6. reason \in Reasons
  BY DEF Chat!map_finish_reason, Reasons
<1>7. t = [Chat!Emit(Chat!Emit(e, Chat!MessageDelta(reason)), Chat!MessageStop)
            EXCEPT !.finished = TRUE]
  BY <1>1 DEF Chat!finalize
<1> HIDE DEF a, b, e, reason
<1>8. e \in ChatStates /\ Reserved(e.calls) = {} /\ ChatOpen(e) = {}
  BY <1>4, <1>5 DEF ChatMid, ChatOpen
<1>9. ChatUsed(e) = 0..(e.next - 1) /\ e.next \in Nat
  BY <1>8 DEF ChatUsed, ChatStates
<1>10. t = [e EXCEPT !.out = out, !.finished = TRUE]
  BY <1>7, <1>8, ChatFrames DEF ChatStates
<1>11. t.out = out /\ t.finished
  BY <1>8, <1>10 DEF ChatStates
<1>12. Ends(c, told, "told", {}, 0..(e.next - 1), FALSE)
  <2>1. Ends(c, e.out, "started", {}, 0..(e.next - 1), FALSE)
    BY <1>5, <1>8, <1>9 DEF ChatMid
  <2>2. QED
    BY <1>6, <2>1, EndsFrame
<1> HIDE DEF told
<1>13. Over(c, out, FALSE) /\ out \in Seq(Frames)
  BY <1>9, <1>12, StoppedIsOver
<1> HIDE DEF out
<1>14. t \in ChatStates
  BY <1>8, <1>10, <1>13 DEF ChatStates
<1> HIDE DEF t
<1>15. ChatOver(c, t)
  BY <1>11, <1>13, <1>14 DEF ChatOver
<1>16. QED
  BY <1>15 DEF t
-----------------------------------------------------------------------------
ChatEntries == [index : Nat, id : Int, name : Int, args : Parts]

LEMMA IndexIsOne ==
  ASSUME NEW s \in ChatStates, NEW entry \in ChatEntries
  PROVE  Chat!IndexOf(s, entry) \in Nat \ {0}
<1> DEFINE D == DOMAIN s.calls
<1>1. s.omitted \in Nat \ {0} /\ s.calls \in ChatCalls
  BY DEF ChatStates
<1>2. PICK m \in Nat : D \subseteq 1..m
  BY <1>1, ChatCallsFields
<1>3. D # {} => Chat!Max(D) + 1 \in Nat \ {0}
  <2>1. D # {} => Max(D) \in 1..m
    BY <1>2, MaxIsIn
  <2>2. Chat!Max(D) = Max(D)
    BY DEF Chat!Max, Max
  <2>3. QED
    BY <1>2, <2>1, <2>2
<1>4. entry.index \in Nat
  BY DEF ChatEntries
<1>5. QED
  BY <1>1, <1>3, <1>4, ChatFrames DEF Chat!IndexOf

\* A call with what an entry adds to it.
LEMMA EntryAdded ==
  ASSUME NEW old \in ChatCall, NEW entry \in ChatEntries
  PROVE  LET call == [old EXCEPT
                        !.id = IF entry.id = Chat!None \/ old.emitted THEN @ ELSE entry.id,
                        !.name = IF entry.name = Chat!None \/ old.emitted
                                 THEN @ ELSE entry.name,
                        !.args = @ \o entry.args] IN
         /\ call \in ChatCall
         /\ call.index = old.index /\ call.started = old.started
         /\ call.closed = old.closed /\ call.emitted = old.emitted
         /\ old.name # 0 => call.name # 0
<1> DEFINE id == IF entry.id = Chat!None \/ old.emitted THEN old.id ELSE entry.id
           name == IF entry.name = Chat!None \/ old.emitted THEN old.name ELSE entry.name
           args == old.args \o entry.args
           call == [old EXCEPT !.id = id, !.name = name, !.args = args]
<1>1. /\ old.id \in Int /\ old.name \in Int /\ old.args \in Parts
      /\ entry.id \in Int /\ entry.name \in Int /\ entry.args \in Parts
  BY DEF ChatCall, ChatEntries
<1>2. id \in Int /\ name \in Int /\ args \in Parts /\ (old.name # 0 => name # 0)
  BY <1>1, ChatFrames, ChatPieces
<1>3. [old EXCEPT
        !.id = IF entry.id = Chat!None \/ old.emitted THEN @ ELSE entry.id,
        !.name = IF entry.name = Chat!None \/ old.emitted THEN @ ELSE entry.name,
        !.args = @ \o entry.args] = call
  BY DEF ChatCall
<1> HIDE DEF id, name, args
<1>4. call \in ChatCall
  BY <1>2, Zenon DEF ChatCall
<1>5. call.index = old.index /\ call.started = old.started
      /\ call.closed = old.closed /\ call.emitted = old.emitted /\ call.name = name
  BY <1>4 DEF ChatCall
<1> HIDE DEF call
<1>6. QED
  BY <1>2, <1>3, <1>4, <1>5

LEMMA CollectKept ==
  ASSUME NEW c, NEW s, ChatBegun(c, s), NEW entry \in ChatEntries
  PROVE  ChatBegun(c, Chat!collect_tool_calls(s, entry))
<1> DEFINE i == Chat!IndexOf(s, entry)
           old == IF i \in DOMAIN s.calls THEN s.calls[i] ELSE Chat!NoCall
           call == [old EXCEPT
                      !.id = IF entry.id = Chat!None \/ old.emitted THEN @ ELSE entry.id,
                      !.name = IF entry.name = Chat!None \/ old.emitted
                               THEN @ ELSE entry.name,
                      !.args = @ \o entry.args]
           calls == [j \in {i} \cup DOMAIN s.calls |-> IF j = i THEN call ELSE s.calls[j]]
           omitted == IF entry.index = Chat!None THEN i ELSE s.omitted
           t == [s EXCEPT !.calls = calls, !.omitted = omitted]
           u == Chat!emit_tool_use_start(t, i)
           new == Chat!collect_tool_calls(s, entry)
<1>1. ChatMid(c, s) /\ CallsWait(s) /\ s.started /\ ~s.finished
  BY DEF ChatBegun
<1>2. s \in ChatStates /\ s.calls \in ChatCalls /\ s.omitted \in Nat \ {0}
      /\ CallsNumbered(s.calls, s.next)
  BY <1>1 DEF ChatMid, ChatStates
<1>3. new = IF call.name # 0 /\ call.id # 0 THEN u ELSE t
  <2>1. Chat!None = 0
    BY ChatFrames
  <2>2. new = IF call.name # Chat!None /\ call.id # Chat!None THEN u ELSE t
    BY Zenon DEF Chat!collect_tool_calls
  <2>3. QED
    BY <2>1, <2>2, Zenon
<1>4. i \in Nat \ {0}
  BY <1>2, IndexIsOne
<1>5. old \in ChatCall /\ ~old.closed /\ ~old.emitted
      /\ (i \notin DOMAIN s.calls => ~old.started)
  <2>1. CASE i \in DOMAIN s.calls
    BY <1>1, <1>2, <2>1, ChatCallsFields DEF CallsWait
  <2>2. CASE i \notin DOMAIN s.calls
    <3>1. old = Chat!NoCall
      BY <2>2
    <3>2. Chat!NoCall \in ChatCall
      BY ChatFrames, ChatPieces DEF Chat!NoCall, ChatCall
    <3>3. ~Chat!NoCall.closed /\ ~Chat!NoCall.emitted /\ ~Chat!NoCall.started
      BY DEF Chat!NoCall
    <3> HIDE DEF old
    <3>4. QED
      BY <2>2, <3>1, <3>2, <3>3
  <2>3. QED
    BY <2>1, <2>2
<1>6. old = IF i \in DOMAIN s.calls THEN s.calls[i] ELSE Chat!NoCall
  OBVIOUS
<1> HIDE DEF old
<1>7. /\ call \in ChatCall
      /\ call.index = old.index /\ call.started = old.started
      /\ call.closed = old.closed /\ call.emitted = old.emitted
      /\ old.name # 0 => call.name # 0
  BY <1>5, EntryAdded
<1> HIDE DEF i, call, new
<1>8. /\ calls \in ChatCalls /\ DOMAIN calls = {i} \cup DOMAIN s.calls
      /\ calls[i] = call
      /\ \A j \in DOMAIN s.calls : j # i => calls[j] = s.calls[j]
  BY <1>2, <1>4, <1>7, CallsAdded
<1>9. omitted \in Nat \ {0}
  BY <1>2, <1>4
<1> HIDE DEF calls, omitted
<1>10. t \in ChatStates
  BY <1>2, <1>8, <1>9 DEF ChatStates
<1>11. /\ t.calls = calls /\ t.out = s.out /\ t.next = s.next /\ t.active = s.active
       /\ t.open = s.open /\ t.saw = s.saw /\ t.started = s.started
       /\ t.finished = s.finished
  BY <1>2 DEF ChatStates
<1> HIDE DEF t
<1>12. \A j \in DOMAIN calls : calls[j].started =>
         /\ j \in DOMAIN s.calls /\ s.calls[j].started
         /\ calls[j].index = s.calls[j].index
         /\ s.calls[j].name # 0 => calls[j].name # 0
  <2>1. TAKE j \in DOMAIN calls
  <2>2. CASE j # i
    BY <1>8, <2>2
  <2>3. CASE j = i
    BY <1>5, <1>6, <1>7, <1>8, <2>3
  <2>4. QED
    BY <2>2, <2>3
<1>13. CallsNumbered(calls, s.next)
  <2>1. \A j \in DOMAIN calls : calls[j].started =>
          calls[j].index \in 0..(s.next - 1) /\ calls[j].name # 0
    BY <1>2, <1>12 DEF CallsNumbered
  <2>2. \A j, k \in DOMAIN calls :
          /\ calls[j].started /\ calls[k].started
          /\ calls[j].index = calls[k].index
          => j = k
    BY <1>2, <1>12 DEF CallsNumbered
  <2>3. QED
    BY <2>1, <2>2 DEF CallsNumbered
<1>14. \A j \in DOMAIN calls : ~calls[j].closed /\ ~calls[j].emitted
  <2>1. TAKE j \in DOMAIN calls
  <2>2. CASE j # i
    BY <1>1, <1>8, <2>2 DEF CallsWait
  <2>3. CASE j = i
    BY <1>5, <1>7, <1>8, <2>3
  <2>4. QED
    BY <2>2, <2>3
<1>15. \A j \in DOMAIN s.calls : /\ j \in DOMAIN calls
                                 /\ calls[j].started = s.calls[j].started
                                 /\ calls[j].index = s.calls[j].index
  BY <1>6, <1>7, <1>8
<1>16. Reserved(calls) = Reserved(s.calls)
  <2>1. \A x : x \in Reserved(calls) => x \in Reserved(s.calls)
    BY <1>1, <1>12 DEF Reserved, CallsWait
  <2>2. \A x : x \in Reserved(s.calls) => x \in Reserved(calls)
    BY <1>14, <1>15 DEF Reserved
  <2>3. QED
    BY <2>1, <2>2
<1>17. ChatMid(c, t)
  <2>1. ChatOpen(t) = ChatOpen(s) /\ ChatUsed(t) = ChatUsed(s)
    BY <1>11, <1>16 DEF ChatOpen, ChatUsed
  <2>2. QED
    BY <1>1, <1>10, <1>11, <1>13, <2>1 DEF ChatMid
<1>18. CallsWait(t)
  <2>1. t.open = 0 => \A j \in DOMAIN calls : ~calls[j].started
    BY <1>1, <1>11, <1>12 DEF CallsWait
  <2>2. ~t.saw => t.open = 0
    BY <1>1, <1>11 DEF CallsWait
  <2>3. QED
    BY <1>11, <1>14, <2>1, <2>2 DEF CallsWait
<1>19. CASE call.name # 0 /\ call.id # 0
  <2>1. new = u
    BY <1>3, <1>19
  <2>2. i \in DOMAIN t.calls /\ t.calls[i].name # 0 /\ ~t.calls[i].closed
    BY <1>8, <1>11, <1>14, <1>19
  <2>3. /\ ChatMid(c, u)
        /\ DOMAIN u.calls = DOMAIN t.calls
        /\ \A j \in DOMAIN t.calls : /\ u.calls[j].closed = t.calls[j].closed
                                     /\ u.calls[j].emitted = t.calls[j].emitted
        /\ u.started = t.started /\ u.finished = t.finished
        /\ IF t.calls[i].started THEN u = t ELSE u.open # 0 /\ u.saw
    BY <1>17, <2>2, StartKept
  <2> HIDE DEF u
  <2>4. CallsWait(u)
    <3>1. CASE t.calls[i].started
      BY <1>18, <2>3, <3>1
    <3>2. CASE ~t.calls[i].started
      BY <1>18, <2>3, <3>2 DEF CallsWait
    <3>3. QED
      BY <3>1, <3>2
  <2>5. ChatBegun(c, u)
    BY <1>1, <1>11, <2>3, <2>4 DEF ChatBegun
  <2>6. QED
    BY <2>1, <2>5 DEF new
<1>20. CASE ~(call.name # 0 /\ call.id # 0)
  <2>1. new = t
    BY <1>3, <1>20
  <2>2. ChatBegun(c, t)
    BY <1>1, <1>11, <1>17, <1>18 DEF ChatBegun
  <2>3. QED
    BY <2>1, <2>2 DEF new
<1>21. QED
  BY <1>19, <1>20
-----------------------------------------------------------------------------
ChatUpstreams ==
  [count : Nat, said : Seq(Nat), thought : [Items -> Parts], args : [Items -> Parts],
   named : SUBSET Int, ids : SUBSET Int, begun : Nat, omits : BOOLEAN, echoes : BOOLEAN,
   ended : BOOLEAN]

\* The conversion and the upstream agree: thinking can be repeated only in a
\* message that has begun.
ChatInv(c, s, u) ==
  /\ u \in ChatUpstreams
  /\ \/ ChatOver(c, s)
     \/ ChatBegun(c, s)
     \/ ChatWaiting(c, s) /\ u.thought[1] = << >>

LEMMA ChatReads ==
  ASSUME ChatInv(client, relay, upstream), Chat!Reads
  PROVE  /\ \/ ChatBegun(client, relay)
            \/ ChatWaiting(client, relay) /\ upstream.thought[1] = << >>
         /\ relay.started => ChatBegun(client, relay)
         /\ relay.finish # "" => ChatBegun(client, relay)
BY DEF ChatInv, Chat!Reads, ChatOver, ChatWaiting

\* A stream that breaks ends the message as failed.
LEMMA ChatBroken ==
  ASSUME NEW c, NEW s, ChatWaiting(c, s) \/ ChatBegun(c, s)
  PROVE  ChatOver(c, Chat!stream_error(s))
<1> DEFINE t == Chat!stream_error(s)
           out == Append(s.out, StreamError)
<1>1. s \in ChatStates
  BY DEF ChatWaiting, ChatBegun, ChatMid
<1>2. t = [s EXCEPT !.out = out, !.finished = TRUE]
  BY <1>1, ChatFrames DEF Chat!stream_error, ChatStates
<1>3. Over(c, out, FALSE) /\ out \in Seq(Frames)
  <2>1. CASE ChatWaiting(c, s)
    BY <2>1, FailedIsOver DEF ChatWaiting
  <2>2. CASE ChatBegun(c, s)
    BY <2>2, FailedIsOver DEF ChatBegun, ChatMid
  <2>3. QED
    BY <2>1, <2>2
<1> HIDE DEF out
<1>4. t.out = out /\ t.finished /\ t \in ChatStates
  BY <1>1, <1>2, <1>3 DEF ChatStates
<1> HIDE DEF t
<1>5. ChatOver(c, t)
  BY <1>3, <1>4 DEF ChatOver
<1>6. QED
  BY <1>5 DEF t

LEMMA ChatStep ==
  ASSUME ChatInv(client, relay, upstream), Chat!Receive
  PROVE  client' = client /\ ChatInv(client, relay', upstream')
<1> DEFINE more == Chat!Next1
<1>0. /\ upstream \in ChatUpstreams /\ upstream.count \in Nat
      /\ upstream.thought \in [Items -> Parts] /\ 1 \in Items
      /\ more \in Nat /\ <<more>> \in Parts
  BY SizeAssumption, ChatPieces DEF ChatInv, ChatUpstreams, Chat!Next1, Items
<1> DEFINE started == Chat!ensure_started(relay)
<1>1. Chat!Reads => ChatBegun(client, started)
  BY ChatReads, ChatStarted
<1> HIDE DEF more, started
<1>2. CASE Chat!Role
  <2>1. Chat!Reads /\ relay' = started /\ UNCHANGED <<client, upstream>>
    BY <1>2 DEF Chat!Role, Chat!Sends, started
  <2>2. QED
    BY <1>0, <1>1, <2>1 DEF ChatInv
<1>3. CASE Chat!Content
  <2>1. /\ Chat!Reads /\ relay' = Chat!Say(started, <<more>>)
        /\ upstream' = [upstream EXCEPT !.count = more, !.said = Append(@, more)]
        /\ client' = client
    BY <1>3 DEF Chat!Content, Chat!Sends, started, more
  <2>2. ChatBegun(client, relay')
    BY <1>0, <1>1, <2>1, SayKept
  <2>3. upstream' \in ChatUpstreams
    <3> DEFINE said == Append(upstream.said, more)
    <3>1. said \in Seq(Nat) /\ upstream' = [upstream EXCEPT !.count = more, !.said = said]
      BY <1>0, <2>1 DEF ChatUpstreams
    <3> HIDE DEF said
    <3>2. QED
      BY <1>0, <3>1 DEF ChatUpstreams
  <2>4. QED
    BY <2>1, <2>2, <2>3 DEF ChatInv
<1>4. CASE Chat!Reasoning
  <2> DEFINE said == {more} \cup IF upstream.echoes
                                THEN {Chat!Blank} \cup Chat!ToSet(upstream.thought[1])
                                ELSE {}
  <2>1. PICK piece \in said :
          /\ Chat!Reads /\ relay' = Chat!Think(started, <<piece>>)
          /\ upstream' = [upstream EXCEPT !.count = more,
                                          !.thought[1] = Append(@, piece)]
          /\ client' = client
    BY <1>4 DEF Chat!Reasoning, Chat!Sends, started, more
  <2>8. Chat!ToSet(upstream.thought[1]) \subseteq Int /\ Chat!Blank \in Int
    BY <1>0 DEF Parts, Chat!ToSet, Chat!Blank, Chat!None
  <2>9. piece \in Int /\ <<piece>> \in Parts
    BY <1>0, <2>8 DEF Parts
  <2> HIDE DEF said
  <2>2. ChatBegun(client, relay')
    BY <1>0, <1>1, <2>1, <2>9, ThinkKept
  <2> DEFINE text == Append(upstream.thought[1], piece)
             thought == [upstream.thought EXCEPT ![1] = text]
  <2>3. text \in Parts
    BY <1>0, <2>9 DEF Parts
  <2> HIDE DEF text
  <2>4. thought \in [Items -> Parts]
    BY <1>0, <2>3
  <2>5. upstream' = [upstream EXCEPT !.count = more, !.thought = thought]
    BY <1>0, <2>1 DEF ChatUpstreams, text
  <2> HIDE DEF thought
  <2>6. upstream' \in ChatUpstreams
    BY <1>0, <2>4, <2>5 DEF ChatUpstreams
  <2>7. QED
    BY <2>1, <2>2, <2>6 DEF ChatInv
<1>5. CASE Chat!Snapshot
  <2>1. /\ Chat!Reads /\ upstream.thought[1] # << >>
        /\ relay' = Chat!Think(relay, upstream.thought[1])
        /\ UNCHANGED <<client, upstream>>
    BY <1>5 DEF Chat!Snapshot, Chat!Sends
  <2>2. ChatBegun(client, relay)
    BY <2>1, ChatReads
  <2>3. ChatBegun(client, relay')
    BY <1>0, <2>1, <2>2, ThinkKept
  <2>4. QED
    BY <1>0, <2>1, <2>3 DEF ChatInv
<1>6. ASSUME NEW k \in Items, Chat!ToolCall(k)
      PROVE  client' = client /\ ChatInv(client, relay', upstream')
  <2>1. PICK id \in {Chat!None, k}, name \in {Chat!None, k}, piece \in BOOLEAN :
          LET args == IF piece THEN <<more>> ELSE << >> IN
          /\ Chat!Reads
          /\ relay' = Chat!collect_tool_calls(started,
                        [index |-> IF upstream.omits THEN Chat!None ELSE k,
                         id |-> id, name |-> name, args |-> args])
          /\ upstream' = [upstream EXCEPT
               !.count = @ + Len(args), !.args[k] = @ \o args,
               !.named = @ \cup ({name} \ {Chat!None}), !.ids = @ \cup ({id} \ {Chat!None}),
               !.begun = IF k > @ THEN k ELSE @]
          /\ client' = client
    BY <1>6, ZenonT(60) DEF Chat!ToolCall, Chat!Sends, started, more
  <2> DEFINE args == IF piece THEN <<more>> ELSE << >>
             entry == [index |-> IF upstream.omits THEN Chat!None ELSE k,
                       id |-> id, name |-> name, args |-> args]
  <2>2. k \in Nat /\ Chat!None = 0 /\ id \in Int /\ name \in Int
    BY ChatFrames DEF Items
  <2>3. args \in Parts /\ Len(args) \in Nat
    BY <1>0, ChatPieces
  <2>4. /\ Chat!Reads /\ relay' = Chat!collect_tool_calls(started, entry)
        /\ upstream' = [upstream EXCEPT
             !.count = @ + Len(args), !.args[k] = @ \o args,
             !.named = @ \cup ({name} \ {Chat!None}), !.ids = @ \cup ({id} \ {Chat!None}),
             !.begun = IF k > @ THEN k ELSE @]
        /\ client' = client
    BY <2>1
  <2> HIDE DEF args
  <2>5. entry \in ChatEntries
    BY <2>2, <2>3 DEF ChatEntries
  <2> HIDE DEF entry
  <2>6. ChatBegun(client, relay')
    BY <1>1, <2>4, <2>5, CollectKept
  <2>7. upstream' \in ChatUpstreams
    <3> DEFINE all == [upstream.args EXCEPT ![k] = @ \o args]
               named == upstream.named \cup ({name} \ {Chat!None})
               ids == upstream.ids \cup ({id} \ {Chat!None})
               begun == IF k > upstream.begun THEN k ELSE upstream.begun
               count == upstream.count + Len(args)
    <3>1. upstream.args \in [Items -> Parts] /\ upstream.named \in SUBSET Int
          /\ upstream.ids \in SUBSET Int /\ upstream.begun \in Nat
      BY <1>0 DEF ChatUpstreams
    <3>2. upstream' = [upstream EXCEPT !.count = count, !.args = all, !.named = named,
                                       !.ids = ids, !.begun = begun]
      BY <1>0, <2>4 DEF ChatUpstreams
    <3>3. all \in [Items -> Parts]
      <4>1. upstream.args[k] \o args \in Parts
        BY <2>3, <3>1, ChatPieces
      <4>2. QED
        BY <3>1, <4>1
    <3>4. named \in SUBSET Int /\ ids \in SUBSET Int /\ begun \in Nat /\ count \in Nat
      BY <1>0, <2>2, <2>3, <3>1
    <3> HIDE DEF all, named, ids, begun, count
    <3>5. QED
      BY <1>0, <3>2, <3>3, <3>4 DEF ChatUpstreams
  <2>8. QED
    BY <2>4, <2>6, <2>7 DEF ChatInv
<1>7. CASE Chat!FinishReason
  <2>1. PICK finish \in {"stop", "tool_calls", "length", "content_filter"} :
          relay' = Chat!finish_reason(started, finish)
    BY <1>7 DEF Chat!FinishReason, started
  <2>2. Chat!Reads /\ upstream' = [upstream EXCEPT !.ended = TRUE] /\ client' = client
    BY <1>7 DEF Chat!FinishReason, Chat!Sends
  <2>3. finish \in ChatFinishes
    BY DEF ChatFinishes
  <2>4. ChatBegun(client, relay')
    BY <1>1, <2>1, <2>2, <2>3, FinishKept
  <2>5. upstream' \in ChatUpstreams
    BY <1>0, <2>2 DEF ChatUpstreams
  <2>6. QED
    BY <2>2, <2>4, <2>5 DEF ChatInv
<1>8. CASE Chat!Usage
  <2>1. /\ Chat!Reads /\ relay.started /\ relay' = Chat!finalize(relay)
        /\ upstream' = [upstream EXCEPT !.ended = TRUE] /\ client' = client
    BY <1>8 DEF Chat!Usage
  <2>2. ChatOver(client, relay')
    BY <2>1, ChatReads, ChatFinalized
  <2>3. upstream' \in ChatUpstreams
    BY <1>0, <2>1 DEF ChatUpstreams
  <2>4. QED
    BY <2>1, <2>2, <2>3 DEF ChatInv
<1>9. CASE Chat!Done
  <2>1. /\ Chat!Reads
        /\ relay' = IF relay.started THEN Chat!finalize(relay) ELSE Chat!stream_error(relay)
        /\ upstream' = [upstream EXCEPT !.ended = TRUE] /\ client' = client
    BY <1>9 DEF Chat!Done
  <2>2. ChatOver(client, relay')
    BY <2>1, ChatReads, ChatFinalized, ChatBroken
  <2>3. upstream' \in ChatUpstreams
    BY <1>0, <2>1 DEF ChatUpstreams
  <2>4. QED
    BY <2>1, <2>2, <2>3 DEF ChatInv
<1>10. CASE Chat!Eof
  <2>1. /\ Chat!Reads
        /\ relay' = IF relay.finish = "" THEN Chat!stream_error(relay)
                    ELSE Chat!finalize(relay)
        /\ upstream' = [upstream EXCEPT !.ended = TRUE] /\ client' = client
    BY <1>10 DEF Chat!Eof
  <2>2. ChatOver(client, relay')
    BY <2>1, ChatReads, ChatFinalized, ChatBroken
  <2>3. upstream' \in ChatUpstreams
    BY <1>0, <2>1 DEF ChatUpstreams
  <2>4. QED
    BY <2>1, <2>2, <2>3 DEF ChatInv
<1>11. CASE Chat!Break
  <2>1. /\ Chat!Reads /\ relay' = Chat!stream_error(relay)
        /\ UNCHANGED <<client, upstream>>
    BY <1>11 DEF Chat!Break
  <2>2. ChatOver(client, relay')
    BY <2>1, ChatReads, ChatBroken
  <2>3. QED
    BY <1>0, <2>1, <2>2 DEF ChatInv
<1>12. \/ Chat!Role \/ Chat!Content \/ Chat!Reasoning \/ Chat!Snapshot
       \/ \E k \in Items : Chat!ToolCall(k)
       \/ Chat!FinishReason \/ Chat!Usage \/ Chat!Done \/ Chat!Eof \/ Chat!Break
  BY DEF Chat!Receive, Chat!Items, Items
<1>13. QED
  BY <1>2, <1>3, <1>4, <1>5, <1>6, <1>7, <1>8, <1>9, <1>10, <1>11, <1>12

-----------------------------------------------------------------------------
(***************************************************************************)
(* Responses.                                                              *)
(***************************************************************************)
LEMMA ResponsesFrames ==
  /\ Responses!MessageStart = MessageStart /\ Responses!MessageStop = MessageStop
  /\ Responses!StreamError = StreamError
  /\ \A i, kind, of : Responses!BlockStart(i, kind, of) = BlockStart(i, kind, of)
  /\ \A i, parts : Responses!BlockDelta(i, parts) = BlockDelta(i, parts)
  /\ \A i, sig : Responses!SignatureDelta(i, sig) = SignatureDelta(i, sig)
  /\ \A i : Responses!BlockStop(i) = BlockStop(i)
  /\ \A reason : Responses!MessageDelta(reason) = MessageDelta(reason)
  /\ \A s, frame : Responses!Emit(s, frame) = [s EXCEPT !.out = Append(@, frame)]
  /\ Responses!None = 0
BY DEF Responses!MessageStart, MessageStart, Responses!MessageStop, MessageStop,
       Responses!StreamError, StreamError, Responses!BlockStart, BlockStart,
       Responses!BlockDelta, BlockDelta, Responses!SignatureDelta, SignatureDelta,
       Responses!BlockStop, BlockStop, Responses!MessageDelta, MessageDelta,
       Responses!Emit, Responses!None, None

\* A call in the queue.
QueuedCalls ==
  [name : Int, args : Parts, emitted : Nat, index : Int, received : BOOLEAN,
   custom : BOOLEAN, started : BOOLEAN, done : BOOLEAN, closed : BOOLEAN]

CallKinds == {"call", "custom"}
SaidKinds == {"message", "commentary", "reasoning"}
PartTypes == {"created", "part.added", "reasoning.delta", "text.added", "text.delta",
              "text.done"}

Events ==
  [type : PartTypes \cup {"item.added", "item.done", "arguments.delta",
                          "arguments.done", "doom"},
   kind : CallKinds \cup SaidKinds \cup {"search", "none"},
   key : Int, parts : Parts, sig : Int, name : Int]

\* Events that start no tool call and end no message.
QuietEvents ==
  {ev \in Events : \/ ev.type \in PartTypes
                   \/ ev.type \in {"item.added", "item.done"} /\ ev.kind \in SaidKinds
                   \/ ev.type = "item.done" /\ ev.kind = "search"}

ResponsesStates ==
  [out : Seq(Frames), finished : BOOLEAN, started : BOOLEAN, next : Nat,
   textOpen : BOOLEAN, textIndex : Int, hasText : BOOLEAN,
   thinkingOpen : BOOLEAN, thinkingIndex : Int, signature : Int,
   summarySeen : BOOLEAN, redacted : BOOLEAN, commentary : BOOLEAN,
   calls : [Items -> Nat], queue : Seq(QueuedCalls), active : Nat,
   last : Nat, deferred : Seq(QuietEvents), toolUse : BOOLEAN,
   sawDelta : BOOLEAN, sawItem : BOOLEAN]

\* The index of the block that is open.
ShownNow(s) ==
  IF s.textOpen THEN {s.textIndex}
  ELSE IF s.thinkingOpen THEN {s.thinkingIndex}
  ELSE IF s.active # 0 THEN {s.queue[s.active].index}
  ELSE {}

\* The call that is shown is the first in the queue that is not closed.
ActiveCall(s) ==
  /\ s.active \in DOMAIN s.queue
  /\ s.queue[s.active].name # 0 /\ s.queue[s.active].index \in Nat
  /\ ~s.queue[s.active].closed
  /\ \A i \in DOMAIN s.queue : i < s.active => s.queue[i].closed

\* Only one of text, thinking and a call is shown at a time.
Exclusive(s) ==
  /\ s.textOpen => /\ s.textIndex \in Nat
                   /\ ~s.thinkingOpen /\ s.active = 0 /\ ~s.commentary
  /\ s.thinkingOpen => s.thinkingIndex \in Nat /\ s.active = 0
  /\ s.active # 0 => ActiveCall(s)

ResponsesMid(c, s) ==
  /\ s \in ResponsesStates
  /\ Exclusive(s)
  /\ Ends(c, s.out, "started", ShownNow(s), 0..(s.next - 1), TRUE)

\* What text and thinking leave alone.
CallsKept(s, t) ==
  /\ t.calls = s.calls /\ t.queue = s.queue /\ t.active = s.active /\ t.last = s.last
  /\ t.deferred = s.deferred /\ t.started = s.started /\ t.finished = s.finished

\* States that differ in what is remembered about items alone.
BlocksKept(s, t) ==
  /\ t.out = s.out /\ t.next = s.next
  /\ t.textOpen = s.textOpen /\ t.textIndex = s.textIndex
  /\ t.thinkingOpen = s.thinkingOpen /\ t.thinkingIndex = s.thinkingIndex
  /\ CallsKept(s, t)

LEMMA CallsKeptTwice ==
  ASSUME NEW s, NEW t, NEW u, CallsKept(s, t), CallsKept(t, u)
  PROVE  CallsKept(s, u)
BY Zenon DEF CallsKept

LEMMA RememberedKept ==
  ASSUME NEW c, NEW s, NEW t \in ResponsesStates, ResponsesMid(c, s), BlocksKept(s, t),
         t.textOpen => ~t.commentary
  PROVE  ResponsesMid(c, t)
<1>1. /\ t.out = s.out /\ t.next = s.next
      /\ t.textOpen = s.textOpen /\ t.textIndex = s.textIndex
      /\ t.thinkingOpen = s.thinkingOpen /\ t.thinkingIndex = s.thinkingIndex
      /\ t.active = s.active /\ t.queue = s.queue
  BY Zenon DEF BlocksKept, CallsKept
<1>2. ShownNow(t) = ShownNow(s)
  BY <1>1 DEF ShownNow
<1>3. Exclusive(t)
  BY <1>1 DEF Exclusive, ActiveCall, ResponsesMid
<1>4. QED
  BY <1>1, <1>2, <1>3 DEF ResponsesMid

\* A block that is started has the next index.
LEMMA NextBlock ==
  ASSUME NEW c, NEW out, NEW n \in Nat, NEW kind \in Kinds, NEW of \in Int,
         Ends(c, out, "started", {}, 0..(n - 1), TRUE)
  PROVE  LET more == Append(out, BlockStart(n, kind, of)) IN
         /\ Ends(c, more, "started", {n}, 0..((n + 1) - 1), TRUE)
         /\ more \in Seq(Frames)
<1> DEFINE more == Append(out, BlockStart(n, kind, of))
           used == 0..(n - 1)
<1>1. n \notin used /\ 0..((n + 1) - 1) = used \cup {n}
  OBVIOUS
<1>2. used = 0..(n - 1)
  OBVIOUS
<1> HIDE DEF used
<1>3. Ends(c, more, "started", {n}, used \cup {n}, TRUE)
  BY <1>1, <1>2, EndsFrame
<1>4. QED
  BY <1>1, <1>3 DEF Ends

LEMMA TextStarted ==
  ASSUME NEW c, NEW s, ResponsesMid(c, s), ~s.thinkingOpen, s.active = 0, ~s.commentary
  PROVE  LET t == Responses!start_text(s) IN
         /\ ResponsesMid(c, t) /\ CallsKept(s, t)
         /\ t.textOpen /\ t.commentary = s.commentary
<1> DEFINE t == Responses!start_text(s)
           n == s.next
           out == Append(s.out, BlockStart(n, "text", 0))
<1>1. CASE s.textOpen
  <2>1. t = s
    BY <1>1 DEF Responses!start_text
  <2>2. QED
    BY <1>1, <2>1 DEF CallsKept
<1>2. CASE ~s.textOpen
  <2>1. s \in ResponsesStates /\ n \in Nat
    BY DEF ResponsesMid, ResponsesStates
  <2>2. t = [s EXCEPT !.out = out, !.textOpen = TRUE, !.textIndex = n, !.next = n + 1]
    BY <1>2, <2>1, ResponsesFrames DEF Responses!start_text, ResponsesStates
  <2>3. Ends(c, s.out, "started", {}, 0..(n - 1), TRUE)
    BY <1>2 DEF ResponsesMid, ShownNow
  <2>4. n + 1 \in Nat /\ n \in Int /\ "text" \in Kinds /\ 0 \in Int
    BY <2>1 DEF Kinds
  <2> HIDE DEF n
  <2>5. Ends(c, out, "started", {n}, 0..((n + 1) - 1), TRUE) /\ out \in Seq(Frames)
    BY <2>1, <2>3, <2>4, NextBlock
  <2>6. out \in Seq(Frames)
    BY <2>5
  <2> HIDE DEF out, t
  <2>7. t \in ResponsesStates
    BY <2>1, <2>2, <2>4, <2>6, Zenon DEF ResponsesStates
  <2>8. /\ t.out = out /\ t.textOpen /\ t.textIndex = n /\ t.next = n + 1
        /\ t.thinkingOpen = s.thinkingOpen /\ t.commentary = s.commentary
        /\ CallsKept(s, t)
    BY <2>1, <2>2 DEF ResponsesStates, CallsKept
  <2>9. t.active = 0
    BY <2>8 DEF CallsKept
  <2>10. ShownNow(t) = {n}
    BY <2>8 DEF ShownNow
  <2>11. Exclusive(t)
    BY <2>1, <2>8, <2>9 DEF Exclusive
  <2>12. QED
    BY <2>5, <2>7, <2>8, <2>10, <2>11 DEF ResponsesMid, t
<1>3. QED
  BY <1>1, <1>2

\* A frame about the block that is shown.
LEMMA FrameKept ==
  ASSUME NEW c, NEW s, ResponsesMid(c, s), NEW frame,
         Ends(c, Append(s.out, frame), "started", ShownNow(s), 0..(s.next - 1), TRUE)
  PROVE  LET t == Responses!Emit(s, frame) IN
         /\ ResponsesMid(c, t) /\ CallsKept(s, t)
         /\ t.textOpen = s.textOpen /\ t.thinkingOpen = s.thinkingOpen
         /\ t.commentary = s.commentary
<1> DEFINE out == Append(s.out, frame)
           t == [s EXCEPT !.out = out]
<1>1. s \in ResponsesStates /\ out \in Seq(Frames)
  BY DEF ResponsesMid, Ends
<1>2. Responses!Emit(s, frame) = t
  BY <1>1, ResponsesFrames DEF ResponsesStates
<1> HIDE DEF out
<1>3. t \in ResponsesStates
  BY <1>1 DEF ResponsesStates
<1>4. /\ t.out = out /\ t.next = s.next
      /\ t.textOpen = s.textOpen /\ t.textIndex = s.textIndex
      /\ t.thinkingOpen = s.thinkingOpen /\ t.thinkingIndex = s.thinkingIndex
      /\ t.commentary = s.commentary /\ CallsKept(s, t)
  BY <1>1 DEF ResponsesStates, CallsKept
<1> HIDE DEF t
<1>6. t.active = s.active /\ t.queue = s.queue
  BY <1>4 DEF CallsKept
<1>7. ShownNow(t) = ShownNow(s) /\ Exclusive(t)
  BY <1>4, <1>6 DEF ShownNow, Exclusive, ActiveCall, ResponsesMid
<1>8. ResponsesMid(c, t)
  BY <1>3, <1>4, <1>7 DEF ResponsesMid, out
<1>9. QED
  BY <1>2, <1>4, <1>8

LEMMA TextStopped ==
  ASSUME NEW c, NEW s, ResponsesMid(c, s)
  PROVE  LET t == Responses!stop_text(s) IN
         /\ ResponsesMid(c, t) /\ CallsKept(s, t)
         /\ ~t.textOpen /\ t.commentary = s.commentary
         /\ t.thinkingOpen = s.thinkingOpen
<1> DEFINE t == Responses!stop_text(s)
           n == s.textIndex
           out == Append(s.out, BlockStop(n))
<1>1. CASE ~s.textOpen
  <2>1. t = s
    BY <1>1 DEF Responses!stop_text
  <2>2. QED
    BY <1>1, <2>1 DEF CallsKept
<1>2. CASE s.textOpen
  <2>1. s \in ResponsesStates /\ n \in Nat /\ ~s.thinkingOpen /\ s.active = 0
        /\ Ends(c, s.out, "started", {n}, 0..(s.next - 1), TRUE)
    BY <1>2 DEF ResponsesMid, Exclusive, ShownNow
  <2>2. t = [s EXCEPT !.out = out, !.textOpen = FALSE]
    BY <1>2, <2>1, ResponsesFrames DEF Responses!stop_text, ResponsesStates
  <2>3. Ends(c, out, "started", {}, 0..(s.next - 1), TRUE)
    BY <2>1, EndsFrame
  <2>4. out \in Seq(Frames)
    BY <2>3 DEF Ends
  <2> HIDE DEF out, t
  <2>5. t \in ResponsesStates
    BY <2>1, <2>2, <2>4 DEF ResponsesStates
  <2>6. /\ t.out = out /\ ~t.textOpen /\ t.next = s.next
        /\ t.thinkingOpen = s.thinkingOpen /\ t.commentary = s.commentary
        /\ CallsKept(s, t)
    BY <2>1, <2>2 DEF ResponsesStates, CallsKept
  <2>7. t.active = 0 /\ ~t.thinkingOpen
    BY <2>1, <2>6 DEF CallsKept
  <2>8. ShownNow(t) = {} /\ Exclusive(t)
    BY <2>6, <2>7 DEF ShownNow, Exclusive
  <2>9. QED
    BY <2>3, <2>5, <2>6, <2>8 DEF ResponsesMid, t
<1>3. QED
  BY <1>1, <1>2

LEMMA TextShown ==
  ASSUME NEW c, NEW s, ResponsesMid(c, s), s.textOpen, NEW parts \in Parts
  PROVE  LET t == Responses!text_delta(s, parts) IN
         /\ ResponsesMid(c, t) /\ CallsKept(s, t)
         /\ t.textOpen /\ t.commentary = s.commentary
<1> DEFINE n == s.textIndex
<1>1. n \in Nat /\ ShownNow(s) = {n}
      /\ Ends(c, s.out, "started", {n}, 0..(s.next - 1), TRUE)
  BY DEF ResponsesMid, Exclusive, ShownNow
<1>2. Ends(c, Append(s.out, BlockDelta(n, parts)), "started", {n}, 0..(s.next - 1), TRUE)
  BY <1>1, EndsFrame
<1>3. Responses!text_delta(s, parts) = Responses!Emit(s, BlockDelta(n, parts))
  BY ResponsesFrames DEF Responses!text_delta
<1> DEFINE frame == BlockDelta(n, parts)
           t == Responses!Emit(s, frame)
<1>4. Ends(c, Append(s.out, frame), "started", ShownNow(s), 0..(s.next - 1), TRUE)
  BY <1>1, <1>2
<1> HIDE DEF frame
<1>5. /\ ResponsesMid(c, t) /\ CallsKept(s, t)
      /\ t.textOpen = s.textOpen /\ t.commentary = s.commentary
  BY <1>4, FrameKept
<1> HIDE DEF t
<1>6. QED
  BY <1>3, <1>5 DEF frame, t

LEMMA ThinkingOpened ==
  ASSUME NEW c, NEW s, ResponsesMid(c, s), ~s.textOpen, s.active = 0,
         NEW kind \in {"thinking", "redacted"}
  PROVE  LET t == Responses!OpenThinking(s, kind) IN
         /\ ResponsesMid(c, t) /\ CallsKept(s, t)
         /\ t.thinkingOpen /\ ~t.textOpen /\ t.commentary = s.commentary
<1> DEFINE t == Responses!OpenThinking(s, kind)
           n == s.next
           out == Append(s.out, BlockStart(n, kind, 0))
<1>1. CASE s.thinkingOpen
  <2>1. t = s
    BY <1>1 DEF Responses!OpenThinking
  <2>2. QED
    BY <1>1, <2>1 DEF CallsKept
<1>2. CASE ~s.thinkingOpen
  <2>1. s \in ResponsesStates /\ n \in Nat
    BY DEF ResponsesMid, ResponsesStates
  <2>2. t = [s EXCEPT !.out = out, !.thinkingOpen = TRUE, !.thinkingIndex = n,
                      !.next = n + 1]
    BY <1>2, <2>1, ResponsesFrames DEF Responses!OpenThinking, ResponsesStates
  <2>3. Ends(c, s.out, "started", {}, 0..(n - 1), TRUE)
    BY <1>2 DEF ResponsesMid, ShownNow
  <2>4. n + 1 \in Nat /\ n \in Int /\ kind \in Kinds /\ 0 \in Int
    BY <2>1 DEF Kinds
  <2> HIDE DEF n
  <2>5. Ends(c, out, "started", {n}, 0..((n + 1) - 1), TRUE) /\ out \in Seq(Frames)
    BY <2>1, <2>3, <2>4, NextBlock
  <2> HIDE DEF out, t
  <2>6. t \in ResponsesStates
    BY <2>1, <2>2, <2>4, <2>5, Zenon DEF ResponsesStates
  <2>7. /\ t.out = out /\ t.thinkingOpen /\ t.thinkingIndex = n /\ t.next = n + 1
        /\ t.textOpen = s.textOpen /\ t.commentary = s.commentary
        /\ CallsKept(s, t)
    BY <2>1, <2>2 DEF ResponsesStates, CallsKept
  <2>8. t.active = 0 /\ ~t.textOpen
    BY <2>7 DEF CallsKept
  <2>9. ShownNow(t) = {n} /\ Exclusive(t)
    BY <2>1, <2>7, <2>8 DEF ShownNow, Exclusive
  <2>10. QED
    BY <2>5, <2>6, <2>7, <2>8, <2>9 DEF ResponsesMid, t
<1>3. QED
  BY <1>1, <1>2

LEMMA ThinkingOpenShown ==
  ASSUME NEW c, NEW s, ResponsesMid(c, s), NEW parts \in Parts
  PROVE  LET t == Responses!thinking_delta(s, parts) IN
         /\ ResponsesMid(c, t) /\ CallsKept(s, t)
         /\ t.textOpen = s.textOpen /\ t.commentary = s.commentary
<1> DEFINE n == s.thinkingIndex
<1>1. CASE ~s.thinkingOpen
  BY <1>1 DEF Responses!thinking_delta, CallsKept
<1>2. CASE s.thinkingOpen
  <2>1. n \in Nat /\ ShownNow(s) = {n}
        /\ Ends(c, s.out, "started", {n}, 0..(s.next - 1), TRUE)
    BY <1>2 DEF ResponsesMid, Exclusive, ShownNow
  <2>2. Ends(c, Append(s.out, BlockDelta(n, parts)), "started", {n}, 0..(s.next - 1), TRUE)
    BY <2>1, EndsFrame
  <2>3. Responses!thinking_delta(s, parts) = Responses!Emit(s, BlockDelta(n, parts))
    BY <1>2, ResponsesFrames DEF Responses!thinking_delta
  <2> DEFINE frame == BlockDelta(n, parts)
             t == Responses!Emit(s, frame)
  <2>4. Ends(c, Append(s.out, frame), "started", ShownNow(s), 0..(s.next - 1), TRUE)
    BY <2>1, <2>2
  <2> HIDE DEF frame
  <2>5. /\ ResponsesMid(c, t) /\ CallsKept(s, t)
        /\ t.textOpen = s.textOpen /\ t.commentary = s.commentary
    BY <2>4, FrameKept
  <2> HIDE DEF t
  <2>6. QED
    BY <2>3, <2>5 DEF frame, t
<1>3. QED
  BY <1>1, <1>2

\* The block that is open is closed, with or without a signature.
LEMMA ThinkingStopped ==
  ASSUME NEW c, NEW s, ResponsesMid(c, s), s.thinkingOpen
  PROVE  LET t == [Responses!Emit(s, Responses!BlockStop(s.thinkingIndex))
                     EXCEPT !.thinkingOpen = FALSE] IN
         /\ ResponsesMid(c, t) /\ CallsKept(s, t)
         /\ ~t.thinkingOpen /\ ~t.textOpen /\ t.commentary = s.commentary
<1> DEFINE n == s.thinkingIndex
           out == Append(s.out, BlockStop(n))
           t == [s EXCEPT !.out = out, !.thinkingOpen = FALSE]
           u == [Responses!Emit(s, Responses!BlockStop(n)) EXCEPT !.thinkingOpen = FALSE]
<1>1. s \in ResponsesStates /\ n \in Nat /\ ~s.textOpen /\ s.active = 0
      /\ Ends(c, s.out, "started", {n}, 0..(s.next - 1), TRUE)
  BY DEF ResponsesMid, Exclusive, ShownNow
<1>2. u = t
  BY <1>1, ResponsesFrames DEF ResponsesStates
<1>3. Ends(c, out, "started", {}, 0..(s.next - 1), TRUE)
  BY <1>1, EndsFrame
<1>4. out \in Seq(Frames)
  BY <1>3 DEF Ends
<1> HIDE DEF out
<1>5. t \in ResponsesStates
  BY <1>1, <1>4 DEF ResponsesStates
<1>6. /\ t.out = out /\ ~t.thinkingOpen /\ t.next = s.next
      /\ t.textOpen = s.textOpen /\ t.commentary = s.commentary
      /\ CallsKept(s, t)
  BY <1>1 DEF ResponsesStates, CallsKept
<1> HIDE DEF t
<1>7. t.active = 0 /\ ~t.textOpen
  BY <1>1, <1>6 DEF CallsKept
<1>8. ShownNow(t) = {} /\ Exclusive(t)
  BY <1>6, <1>7 DEF ShownNow, Exclusive
<1>9. ResponsesMid(c, t)
  BY <1>3, <1>5, <1>6, <1>8 DEF ResponsesMid
<1> HIDE DEF u
<1>10. QED
  BY <1>2, <1>6, <1>7, <1>9 DEF u

LEMMA ThinkingFinal ==
  ASSUME NEW c, NEW s, ResponsesMid(c, s)
  PROVE  LET t == Responses!finalize_thinking(s) IN
         /\ ResponsesMid(c, t) /\ CallsKept(s, t)
         /\ ~t.thinkingOpen /\ t.commentary = s.commentary
         /\ t.textOpen = s.textOpen
<1> DEFINE t == Responses!finalize_thinking(s)
           n == s.thinkingIndex
           sig == IF s.commentary THEN Responses!Commentary ELSE s.signature
           signed == IF sig = Responses!None THEN s
                     ELSE Responses!Emit(s, Responses!SignatureDelta(n, sig))
<1>1. CASE ~s.thinkingOpen
  <2>1. t = s
    BY <1>1, Zenon DEF Responses!finalize_thinking
  <2>2. QED
    BY <1>1, <2>1 DEF CallsKept
<1>2. CASE s.thinkingOpen
  <2>1. s \in ResponsesStates /\ n \in Nat /\ ShownNow(s) = {n} /\ ~s.textOpen
        /\ Ends(c, s.out, "started", {n}, 0..(s.next - 1), TRUE)
    BY <1>2 DEF ResponsesMid, Exclusive, ShownNow
  <2>2. sig \in Int
    BY <2>1 DEF ResponsesStates, Responses!Commentary
  <2> HIDE DEF sig
  <2>3. /\ ResponsesMid(c, signed) /\ CallsKept(s, signed)
        /\ signed.thinkingOpen /\ signed.commentary = s.commentary
        /\ signed.thinkingIndex = n
    <3>1. CASE sig = Responses!None
      BY <1>2, <3>1 DEF CallsKept
    <3>2. CASE sig # Responses!None
      <4>1. signed = Responses!Emit(s, SignatureDelta(n, sig))
        BY <3>2, ResponsesFrames
      <4>2. Ends(c, Append(s.out, SignatureDelta(n, sig)), "started", {n},
                 0..(s.next - 1), TRUE)
        BY <2>1, <2>2, EndsFrame
      <4>3. signed.thinkingIndex = n
        BY <2>1, <4>1, ResponsesFrames DEF ResponsesStates
      <4> DEFINE frame == SignatureDelta(n, sig)
                 u == Responses!Emit(s, frame)
      <4>4. Ends(c, Append(s.out, frame), "started", ShownNow(s), 0..(s.next - 1), TRUE)
        BY <2>1, <4>2
      <4> HIDE DEF frame
      <4>5. /\ ResponsesMid(c, u) /\ CallsKept(s, u)
            /\ u.thinkingOpen = s.thinkingOpen /\ u.commentary = s.commentary
        BY <4>4, FrameKept
      <4>6. signed = u
        BY <4>1 DEF frame
      <4> HIDE DEF u, signed
      <4>7. QED
        BY <1>2, <4>3, <4>5, <4>6
    <3>3. QED
      BY <3>1, <3>2
  <2>4. t = [Responses!Emit(signed, Responses!BlockStop(n)) EXCEPT !.thinkingOpen = FALSE]
    BY <1>2, Zenon DEF Responses!finalize_thinking, sig
  <2> HIDE DEF signed, t, n
  <2>5. /\ ResponsesMid(c, t) /\ CallsKept(signed, t)
        /\ ~t.thinkingOpen /\ ~t.textOpen /\ t.commentary = signed.commentary
    BY <2>3, <2>4, ThinkingStopped
  <2>6. CallsKept(s, t)
    BY <2>3, <2>5, CallsKeptTwice
  <2>7. t.commentary = s.commentary /\ t.textOpen = s.textOpen
    <3>1. t.commentary = s.commentary
      BY <2>3, <2>5, Zenon
    <3>2. t.textOpen \in BOOLEAN /\ s.textOpen \in BOOLEAN
      BY <2>5 DEF ResponsesMid, ResponsesStates
    <3>3. QED
      BY <2>1, <2>5, <3>1, <3>2
  <2>8. QED
    BY <2>5, <2>6, <2>7 DEF t
<1>3. QED
  BY <1>1, <1>2
-----------------------------------------------------------------------------
\* What is remembered about items may change at any time.
Remembers(s, t, commentary) ==
  t \in ResponsesStates /\ BlocksKept(s, t) /\ t.commentary = commentary

LEMMA RemembersKept ==
  ASSUME NEW c, NEW s, NEW t, NEW commentary, ResponsesMid(c, s),
         Remembers(s, t, commentary), s.textOpen => ~commentary
  PROVE  /\ ResponsesMid(c, t) /\ CallsKept(s, t)
         /\ t.textOpen = s.textOpen /\ t.thinkingOpen = s.thinkingOpen
         /\ t.commentary = commentary
<1>1. t \in ResponsesStates /\ BlocksKept(s, t) /\ t.commentary = commentary
  BY DEF Remembers
<1>2. CallsKept(s, t) /\ t.textOpen = s.textOpen /\ t.thinkingOpen = s.thinkingOpen
  BY <1>1, Zenon DEF BlocksKept
<1>3. t.textOpen => ~t.commentary
  BY <1>1, <1>2
<1>4. ResponsesMid(c, t)
  BY <1>1, <1>3, RememberedKept
<1>5. QED
  BY <1>1, <1>2, <1>4

LEMMA CommentaryFinal ==
  ASSUME NEW c, NEW s, ResponsesMid(c, s)
  PROVE  LET t == Responses!finalize_commentary_block(s) IN
         /\ ResponsesMid(c, t) /\ CallsKept(s, t)
         /\ t.commentary = s.commentary /\ t.textOpen = s.textOpen
<1>1. CASE s.commentary
  <2>1. Responses!finalize_commentary_block(s) = Responses!finalize_thinking(s)
    BY <1>1 DEF Responses!finalize_commentary_block
  <2>2. QED
    BY <2>1, ThinkingFinal
<1>2. CASE ~s.commentary
  <2>1. Responses!finalize_commentary_block(s) = s
    BY <1>2 DEF Responses!finalize_commentary_block
  <2>2. QED
    BY <2>1 DEF CallsKept
<1>3. QED
  BY <1>1, <1>2

LEMMA CommentaryEnded ==
  ASSUME NEW c, NEW s, ResponsesMid(c, s)
  PROVE  LET t == Responses!EndCommentary(s) IN
         /\ ResponsesMid(c, t) /\ CallsKept(s, t)
         /\ ~t.commentary /\ ~t.textOpen
<1> DEFINE a == Responses!stop_text(s)
           b == Responses!finalize_commentary_block(a)
           t == Responses!EndCommentary(s)
<1>1. ResponsesMid(c, a) /\ CallsKept(s, a) /\ ~a.textOpen
  BY TextStopped
<1>2. t = [b EXCEPT !.commentary = FALSE]
  BY DEF Responses!EndCommentary
<1> HIDE DEF a
<1>3. ResponsesMid(c, b) /\ CallsKept(a, b) /\ ~b.textOpen
  BY <1>1, CommentaryFinal
<1> HIDE DEF b, t
<1>4. Remembers(b, t, t.commentary) /\ ~t.commentary
  <2>1. b \in ResponsesStates
    BY <1>3 DEF ResponsesMid
  <2>2. QED
    BY <1>2, <2>1 DEF Remembers, ResponsesStates, BlocksKept, CallsKept
<1>5. ResponsesMid(c, t) /\ CallsKept(b, t) /\ ~t.textOpen /\ ~t.commentary
  <2>1. ResponsesMid(c, b) /\ (b.textOpen => ~t.commentary)
    BY <1>3
  <2>2. /\ ResponsesMid(c, t) /\ CallsKept(b, t)
        /\ t.textOpen = b.textOpen
    BY <1>4, <2>1, RemembersKept
  <2>3. QED
    BY <1>3, <1>4, <2>2
<1>6. CallsKept(s, t)
  BY <1>1, <1>3, <1>5, CallsKeptTwice
<1>7. QED
  BY <1>5, <1>6 DEF t

LEMMA SignatureShownOnly ==
  ASSUME NEW c, NEW s, ResponsesMid(c, s), ~s.textOpen, s.active = 0
  PROVE  LET t == Responses!finalize_signature_only_thinking(s) IN
         /\ ResponsesMid(c, t) /\ CallsKept(s, t)
         /\ ~t.textOpen
<1> DEFINE t == Responses!finalize_signature_only_thinking(s)
           kind == IF Responses!Redacted(s.signature) THEN "redacted" ELSE "thinking"
           a == Responses!OpenThinking(s, kind)
           b == Responses!finalize_thinking(a)
<1>1. t = s \/ t = b
  BY DEF Responses!finalize_signature_only_thinking
<1>2. kind \in {"thinking", "redacted"}
  OBVIOUS
<1> HIDE DEF t, kind
<1>3. ResponsesMid(c, a) /\ CallsKept(s, a) /\ ~a.textOpen
  BY <1>2, ThinkingOpened
<1> HIDE DEF a
<1>4. ResponsesMid(c, b) /\ CallsKept(a, b) /\ ~b.textOpen
  BY <1>3, ThinkingFinal
<1> HIDE DEF b
<1>5. CallsKept(s, b) /\ CallsKept(s, s)
  BY <1>3, <1>4, CallsKeptTwice DEF CallsKept
<1>6. QED
  BY <1>1, <1>4, <1>5 DEF t

\* A text that came as a whole is shown in a block of its own.
LEMMA RecoveredShown ==
  ASSUME NEW c, NEW s, ResponsesMid(c, s), s.active = 0, ~s.commentary,
         NEW parts \in Parts
  PROVE  LET t == Responses!emit_recovered_text(s, parts) IN
         /\ ResponsesMid(c, t) /\ CallsKept(s, t)
         /\ t.textOpen => s.textOpen
<1> DEFINE t == Responses!emit_recovered_text(s, parts)
           a == Responses!finalize_thinking(s)
           b == Responses!start_text(a)
           d == Responses!text_delta(b, parts)
           e == Responses!stop_text(d)
           f == [e EXCEPT !.hasText = TRUE]
<1>1. t = s \/ t = f
  BY DEF Responses!emit_recovered_text
<1> HIDE DEF t
<1>2. ResponsesMid(c, a) /\ CallsKept(s, a) /\ ~a.thinkingOpen /\ ~a.commentary
  BY ThinkingFinal
<1> HIDE DEF a
<1>3. a.active = 0
  BY <1>2 DEF CallsKept
<1>4. ResponsesMid(c, b) /\ CallsKept(a, b) /\ b.textOpen
  BY <1>2, <1>3, TextStarted
<1> HIDE DEF b
<1>5. ResponsesMid(c, d) /\ CallsKept(b, d)
  BY <1>4, TextShown
<1> HIDE DEF d
<1>6. ResponsesMid(c, e) /\ CallsKept(d, e) /\ ~e.textOpen
  BY <1>5, TextStopped
<1> HIDE DEF e
<1>7. Remembers(e, f, e.commentary)
  <2>1. e \in ResponsesStates
    BY <1>6 DEF ResponsesMid
  <2>2. QED
    BY <2>1 DEF Remembers, ResponsesStates, BlocksKept, CallsKept
<1> HIDE DEF f
<1>8. ResponsesMid(c, f) /\ CallsKept(e, f) /\ ~f.textOpen
  BY <1>6, <1>7, RemembersKept
<1>9. CallsKept(s, f) /\ CallsKept(s, s)
  BY <1>2, <1>4, <1>5, <1>6, <1>8, CallsKeptTwice DEF CallsKept
<1>10. QED
  BY <1>1, <1>8, <1>9 DEF t
-----------------------------------------------------------------------------
\* What an event that starts no call does while no call is shown.
Quietly(c, s, t) == ResponsesMid(c, t) /\ CallsKept(s, t)

LEMMA SaidAdded ==
  ASSUME NEW c, NEW s, ResponsesMid(c, s), NEW ev \in Events, ev.kind \in SaidKinds
  PROVE  Quietly(c, s, Responses!ItemAdded(s, ev))
<1> DEFINE t == Responses!ItemAdded(s, ev)
<1>1. CASE ev.kind \in {"message", "commentary"}
  <2> DEFINE a == Responses!finalize_thinking(s)
             b == Responses!stop_text(a)
             said == ev.kind = "commentary"
             d == [b EXCEPT !.hasText = FALSE, !.commentary = said]
  <2>1. t = d
    BY <1>1, Zenon DEF Responses!ItemAdded
  <2>2. said \in BOOLEAN
    OBVIOUS
  <2> HIDE DEF t, said
  <2>3. ResponsesMid(c, a) /\ CallsKept(s, a)
    BY ThinkingFinal
  <2> HIDE DEF a
  <2>4. ResponsesMid(c, b) /\ CallsKept(a, b) /\ ~b.textOpen
    BY <2>3, TextStopped
  <2> HIDE DEF b
  <2>5. Remembers(b, d, said)
    <3>1. b \in ResponsesStates
      BY <2>4 DEF ResponsesMid
    <3>2. QED
      BY <2>2, <3>1 DEF Remembers, ResponsesStates, BlocksKept, CallsKept
  <2> HIDE DEF d
  <2>6. ResponsesMid(c, d) /\ CallsKept(b, d)
    BY <2>4, <2>5, RemembersKept
  <2>7. CallsKept(s, d)
    BY <2>3, <2>4, <2>6, CallsKeptTwice
  <2>8. QED
    BY <2>1, <2>6, <2>7 DEF Quietly, t
<1>2. CASE ev.kind = "reasoning"
  <2> DEFINE a == Responses!EndCommentary(s)
             b == Responses!finalize_thinking(a)
             redacted == Responses!Redacted(ev.sig)
             d == [b EXCEPT !.summarySeen = FALSE, !.signature = ev.sig,
                            !.redacted = redacted]
  <2>1. t = d
    BY <1>2, Zenon DEF Responses!ItemAdded
  <2>2. redacted \in BOOLEAN /\ ev.sig \in Int
    BY DEF Responses!Redacted, Events
  <2> HIDE DEF t, redacted
  <2>3. ResponsesMid(c, a) /\ CallsKept(s, a) /\ ~a.textOpen
    BY CommentaryEnded
  <2> HIDE DEF a
  <2>4. ResponsesMid(c, b) /\ CallsKept(a, b) /\ ~b.textOpen
    BY <2>3, ThinkingFinal
  <2> HIDE DEF b
  <2>5. Remembers(b, d, b.commentary)
    <3>1. b \in ResponsesStates
      BY <2>4 DEF ResponsesMid
    <3>2. QED
      BY <2>2, <3>1 DEF Remembers, ResponsesStates, BlocksKept, CallsKept
  <2> HIDE DEF d
  <2>6. ResponsesMid(c, d) /\ CallsKept(b, d)
    BY <2>4, <2>5, RemembersKept
  <2>7. CallsKept(s, d)
    BY <2>3, <2>4, <2>6, CallsKeptTwice
  <2>8. QED
    BY <2>1, <2>6, <2>7 DEF Quietly, t
<1>3. QED
  BY <1>1, <1>2 DEF SaidKinds

LEMMA ReasoningStarted ==
  ASSUME NEW c, NEW s, ResponsesMid(c, s), s.active = 0
  PROVE  LET t == Responses!StartReasoning(Responses!EndCommentary(s)) IN
         Quietly(c, s, t) /\ ~t.textOpen
<1> DEFINE a == Responses!EndCommentary(s)
           kind == IF a.redacted THEN "redacted" ELSE "thinking"
           b == Responses!OpenThinking(a, kind)
<1>1. ResponsesMid(c, a) /\ CallsKept(s, a) /\ ~a.textOpen
  BY CommentaryEnded
<1>2. Responses!StartReasoning(a) = b
  BY DEF Responses!StartReasoning
<1>3. kind \in {"thinking", "redacted"}
  OBVIOUS
<1> HIDE DEF a, kind
<1>4. a.active = 0
  BY <1>1 DEF CallsKept
<1>5. ResponsesMid(c, b) /\ CallsKept(a, b) /\ ~b.textOpen
  BY <1>1, <1>3, <1>4, ThinkingOpened
<1> HIDE DEF b
<1>6. CallsKept(s, b)
  BY <1>1, <1>5, CallsKeptTwice
<1>7. QED
  BY <1>2, <1>5, <1>6 DEF Quietly, a

LEMMA PartShown ==
  ASSUME NEW c, NEW s, ResponsesMid(c, s), s.active = 0, NEW ev \in Events
  PROVE  /\ Quietly(c, s, Responses!PartAdded(s))
         /\ Quietly(c, s, Responses!plaintext_reasoning_delta(s, ev))
<1> DEFINE a == Responses!StartReasoning(Responses!EndCommentary(s))
           b == Responses!thinking_delta(a, ev.parts)
           x == [a EXCEPT !.summarySeen = TRUE]
           y == [b EXCEPT !.summarySeen = TRUE]
<1>1. Responses!PartAdded(s) = x /\ Responses!plaintext_reasoning_delta(s, ev) = y
  BY DEF Responses!PartAdded, Responses!plaintext_reasoning_delta
<1>2. ResponsesMid(c, a) /\ CallsKept(s, a) /\ ~a.textOpen
  BY ReasoningStarted DEF Quietly
<1>3. ev.parts \in Parts
  BY DEF Events
<1> HIDE DEF a
<1>4. ResponsesMid(c, b) /\ CallsKept(a, b) /\ ~b.textOpen
  BY <1>2, <1>3, ThinkingOpenShown
<1> HIDE DEF b
<1>5. Remembers(a, x, a.commentary) /\ Remembers(b, y, b.commentary)
  <2>1. a \in ResponsesStates /\ b \in ResponsesStates
    BY <1>2, <1>4 DEF ResponsesMid
  <2>2. Remembers(a, x, a.commentary)
    BY <2>1 DEF Remembers, ResponsesStates, BlocksKept, CallsKept
  <2>3. Remembers(b, y, b.commentary)
    BY <2>1 DEF Remembers, ResponsesStates, BlocksKept, CallsKept
  <2>4. QED
    BY <2>2, <2>3
<1> HIDE DEF x, y
<1>6. ResponsesMid(c, x) /\ CallsKept(a, x)
  BY <1>2, <1>5, RemembersKept
<1>7. ResponsesMid(c, y) /\ CallsKept(b, y)
  BY <1>4, <1>5, RemembersKept
<1>8. CallsKept(s, x) /\ CallsKept(s, y)
  BY <1>2, <1>4, <1>6, <1>7, CallsKeptTwice
<1>9. QED
  BY <1>1, <1>6, <1>7, <1>8 DEF Quietly

LEMMA TextPartShown ==
  ASSUME NEW c, NEW s, ResponsesMid(c, s), s.active = 0
  PROVE  /\ Quietly(c, s, Responses!TextPartAdded(s))
         /\ Quietly(c, s, Responses!TextPartDone(s))
         /\ s.commentary => ~Responses!start_thinking(s).textOpen
                            /\ Quietly(c, s, Responses!start_thinking(s))
         /\ ~s.commentary =>
              LET t == Responses!start_text(Responses!finalize_thinking(s)) IN
              Quietly(c, s, t) /\ t.textOpen
<1> DEFINE a == Responses!start_thinking(s)
           b == Responses!finalize_thinking(s)
           d == Responses!start_text(b)
<1>1. ASSUME s.commentary PROVE Quietly(c, s, a) /\ ~a.textOpen
  <2>1. ~s.textOpen
    BY <1>1 DEF ResponsesMid, Exclusive
  <2>2. a = Responses!OpenThinking(s, "thinking")
    BY DEF Responses!start_thinking
  <2> HIDE DEF a
  <2>3. QED
    BY <2>1, <2>2, ThinkingOpened DEF Quietly
<1>2. ASSUME ~s.commentary PROVE Quietly(c, s, d) /\ d.textOpen
  <2>1. ResponsesMid(c, b) /\ CallsKept(s, b) /\ ~b.thinkingOpen /\ ~b.commentary
    BY <1>2, ThinkingFinal
  <2> HIDE DEF b
  <2>2. b.active = 0
    BY <2>1 DEF CallsKept
  <2>3. ResponsesMid(c, d) /\ CallsKept(b, d) /\ d.textOpen
    BY <2>1, <2>2, TextStarted
  <2> HIDE DEF d
  <2>4. CallsKept(s, d)
    BY <2>1, <2>3, CallsKeptTwice
  <2>5. QED
    BY <2>3, <2>4 DEF Quietly
<1>3. Quietly(c, s, Responses!TextPartAdded(s))
  BY <1>1, <1>2 DEF Responses!TextPartAdded
<1>4. Quietly(c, s, Responses!TextPartDone(s))
  BY CommentaryFinal, TextStopped DEF Responses!TextPartDone, Quietly
<1>5. QED
  BY <1>1, <1>2, <1>3, <1>4

LEMMA TextDeltaShown ==
  ASSUME NEW c, NEW s, ResponsesMid(c, s), s.active = 0, NEW ev \in Events
  PROVE  Quietly(c, s, Responses!TextDelta(s, ev))
<1> DEFINE a == [s EXCEPT !.hasText = TRUE]
           t == Responses!TextDelta(s, ev)
           x == Responses!start_thinking(a)
           y == Responses!start_text(Responses!finalize_thinking(a))
<1>1. Remembers(s, a, s.commentary)
  <2>1. s \in ResponsesStates
    BY DEF ResponsesMid
  <2>2. QED
    BY <2>1 DEF Remembers, ResponsesStates, BlocksKept, CallsKept
<1>2. s.textOpen => ~s.commentary
  BY DEF ResponsesMid, Exclusive
<1>3. t = IF a.commentary THEN Responses!thinking_delta(x, ev.parts)
          ELSE Responses!text_delta(y, ev.parts)
  <2>1. s \in ResponsesStates
    BY DEF ResponsesMid
  <2>2. a.commentary = s.commentary
    BY <1>1 DEF Remembers
  <2> HIDE DEF a
  <2>3. QED
    BY <2>2, Zenon DEF Responses!TextDelta, a
<1> HIDE DEF a, t
<1>4. ResponsesMid(c, a) /\ CallsKept(s, a)
  BY <1>1, <1>2, RemembersKept
<1>5. a.active = 0 /\ ev.parts \in Parts
  BY <1>4 DEF CallsKept, Events
<1>6. CASE a.commentary
  <2>1. ResponsesMid(c, x) /\ CallsKept(a, x)
    BY <1>4, <1>5, <1>6, TextPartShown DEF Quietly
  <2> HIDE DEF x
  <2>2. ResponsesMid(c, t) /\ CallsKept(x, t)
    BY <1>3, <1>5, <1>6, <2>1, ThinkingOpenShown
  <2>3. CallsKept(s, t)
    BY <1>4, <2>1, <2>2, CallsKeptTwice
  <2>4. QED
    BY <2>2, <2>3 DEF Quietly, t
<1>7. CASE ~a.commentary
  <2>1. ResponsesMid(c, y) /\ CallsKept(a, y) /\ y.textOpen
    BY <1>4, <1>5, <1>7, TextPartShown DEF Quietly
  <2> HIDE DEF y
  <2>2. ResponsesMid(c, t) /\ CallsKept(y, t)
    BY <1>3, <1>5, <1>7, <2>1, TextShown
  <2>3. CallsKept(s, t)
    BY <1>4, <2>1, <2>2, CallsKeptTwice
  <2>4. QED
    BY <2>2, <2>3 DEF Quietly, t
<1>8. QED
  BY <1>6, <1>7

LEMMA MessageDoneShown ==
  ASSUME NEW c, NEW s, ResponsesMid(c, s), s.active = 0, NEW ev \in Events
  PROVE  Quietly(c, s, Responses!MessageDone(s, ev))
<1> DEFINE parts == ev.parts
           x1 == Responses!finalize_thinking(s)
           x2 == Responses!stop_text(x1)
           x3 == [x2 EXCEPT !.commentary = TRUE]
           x4 == Responses!start_thinking(x3)
           x5 == Responses!thinking_delta(x4, parts)
           x6 == Responses!finalize_commentary_block(x5)
           y == Responses!finalize_commentary_block(s)
           z == Responses!emit_recovered_text(s, parts)
           New(t) == [t EXCEPT !.commentary = FALSE, !.hasText = FALSE]
           new == Responses!MessageDone(s, ev)
<1>1. parts \in Parts
  BY DEF Events
<1>2. \/ new = New(s) \/ new = New(y) \/ new = New(x6)
      \/ new = New(z) /\ ~s.commentary
  <2>1. \/ s.hasText
        \/ ~s.hasText /\ parts = << >>
        \/ ~s.hasText /\ parts # << >>
    OBVIOUS
  <2>2. CASE s.hasText
    <3>1. new = New(IF s.commentary \/ ev.kind = "commentary" THEN y ELSE s)
      BY <2>2, Zenon DEF Responses!MessageDone
    <3> HIDE DEF new, New, y
    <3>2. QED
      BY <3>1
  <2>3. CASE ~s.hasText /\ parts = << >>
    <3>1. new = New(s)
      BY <2>3, Zenon DEF Responses!MessageDone
    <3>2. QED
      BY <3>1
  <2>4. CASE ~s.hasText /\ parts # << >>
    <3>1. new = New(IF s.commentary \/ ev.kind = "commentary" THEN x6 ELSE z)
      BY <2>4, Zenon DEF Responses!MessageDone
    <3> HIDE DEF new, New, x6, z
    <3>2. QED
      BY <3>1
  <2>5. QED
    BY <2>1, <2>2, <2>3, <2>4
<1> HIDE DEF new
<1>3. ASSUME NEW t, Quietly(c, s, t) PROVE Quietly(c, s, New(t))
  <2>1. Remembers(t, New(t), FALSE)
    <3>1. t \in ResponsesStates
      BY <1>3 DEF Quietly, ResponsesMid
    <3>2. QED
      BY <3>1 DEF Remembers, ResponsesStates, BlocksKept, CallsKept
  <2> HIDE DEF New
  <2>2. ResponsesMid(c, New(t)) /\ CallsKept(t, New(t))
    BY <1>3, <2>1, RemembersKept DEF Quietly
  <2>3. QED
    BY <1>3, <2>2, CallsKeptTwice DEF Quietly
<1> HIDE DEF New
<1>4. Quietly(c, s, s) /\ Quietly(c, s, y)
  BY CommentaryFinal DEF Quietly, CallsKept
<1>5. ~s.commentary => Quietly(c, s, z)
  BY <1>1, RecoveredShown DEF Quietly
<1>6. Quietly(c, s, x6)
  <2>1. ResponsesMid(c, x1) /\ CallsKept(s, x1)
    BY ThinkingFinal
  <2> HIDE DEF x1
  <2>2. ResponsesMid(c, x2) /\ CallsKept(x1, x2) /\ ~x2.textOpen
    BY <2>1, TextStopped
  <2> HIDE DEF x2
  <2>3. Remembers(x2, x3, x3.commentary)
    <3>1. x2 \in ResponsesStates
      BY <2>2 DEF ResponsesMid
    <3>2. QED
      BY <3>1 DEF Remembers, ResponsesStates, BlocksKept, CallsKept
  <2> HIDE DEF x3
  <2>4. ResponsesMid(c, x3) /\ CallsKept(x2, x3) /\ ~x3.textOpen
    BY <2>2, <2>3, RemembersKept
  <2>5. CallsKept(s, x3)
    BY <2>1, <2>2, <2>4, CallsKeptTwice
  <2>6. x3.active = 0 /\ x4 = Responses!OpenThinking(x3, "thinking")
    BY <2>5 DEF CallsKept, Responses!start_thinking
  <2> HIDE DEF x4
  <2>7. ResponsesMid(c, x4) /\ CallsKept(x3, x4)
    BY <2>4, <2>6, ThinkingOpened
  <2>8. ResponsesMid(c, x5) /\ CallsKept(x4, x5)
    BY <1>1, <2>7, ThinkingOpenShown
  <2> HIDE DEF x5
  <2>9. ResponsesMid(c, x6) /\ CallsKept(x5, x6)
    BY <2>8, CommentaryFinal
  <2> HIDE DEF x6
  <2>10. CallsKept(s, x6)
    BY <2>5, <2>7, <2>8, <2>9, CallsKeptTwice
  <2>11. QED
    BY <2>9, <2>10 DEF Quietly
<1> HIDE DEF x6, y, z
<1>7. QED
  BY <1>2, <1>3, <1>4, <1>5, <1>6 DEF new

LEMMA ReasoningDoneShown ==
  ASSUME NEW c, NEW s, ResponsesMid(c, s), s.active = 0, NEW ev \in Events
  PROVE  Quietly(c, s, Responses!ReasoningDone(s, ev))
<1> DEFINE t == Responses!EndCommentary(s)
           redacted == Responses!Redacted(ev.sig)
           wrong == t.thinkingOpen /\ redacted # t.redacted
           kind == IF redacted THEN "redacted" ELSE "thinking"
           x == [Responses!Emit(t, Responses!BlockStop(t.thinkingIndex))
                   EXCEPT !.thinkingOpen = FALSE]
           y == Responses!OpenThinking(x, kind)
           reopened == IF ~wrong THEN t ELSE y
           told == [reopened EXCEPT !.signature = ev.sig, !.redacted = redacted]
           signed == IF ev.sig = Responses!None THEN t ELSE told
           closed == IF signed.summarySeen THEN Responses!finalize_thinking(signed)
                     ELSE Responses!finalize_signature_only_thinking(signed)
           new == [closed EXCEPT !.signature = Responses!None, !.summarySeen = FALSE,
                                 !.redacted = FALSE]
           Fine(u) == ResponsesMid(c, u) /\ CallsKept(s, u) /\ ~u.textOpen
<1>1. Responses!ReasoningDone(s, ev) = new
  BY Zenon DEF Responses!ReasoningDone
<1>2. redacted \in BOOLEAN /\ ev.sig \in Int /\ kind \in {"thinking", "redacted"}
      /\ Responses!None = 0
  BY ResponsesFrames DEF Responses!Redacted, Events
<1>3. Fine(t)
  BY CommentaryEnded
<1> HIDE DEF t, redacted, kind
<1>4. Fine(reopened)
  <2>1. CASE ~wrong
    BY <1>3, <2>1
  <2>2. CASE wrong
    <3>1. ResponsesMid(c, x) /\ CallsKept(t, x) /\ ~x.textOpen
      BY <1>3, <2>2, ThinkingStopped
    <3> HIDE DEF x
    <3>2. CallsKept(s, x)
      BY <1>3, <3>1, CallsKeptTwice
    <3>3. x.active = 0
      BY <3>2 DEF CallsKept
    <3>4. ResponsesMid(c, y) /\ CallsKept(x, y) /\ ~y.textOpen
      BY <1>2, <3>1, <3>3, ThinkingOpened
    <3> HIDE DEF y
    <3>5. CallsKept(s, y)
      BY <3>2, <3>4, CallsKeptTwice
    <3>6. QED
      BY <2>2, <3>4, <3>5
  <2>3. QED
    BY <2>1, <2>2
<1> HIDE DEF reopened
<1>5. Fine(told)
  <2>1. Remembers(reopened, told, reopened.commentary)
    <3>1. reopened \in ResponsesStates
      BY <1>4 DEF ResponsesMid
    <3>2. QED
      BY <1>2, <3>1 DEF Remembers, ResponsesStates, BlocksKept, CallsKept
  <2> HIDE DEF told
  <2>2. ResponsesMid(c, told) /\ CallsKept(reopened, told) /\ ~told.textOpen
    BY <1>4, <2>1, RemembersKept
  <2>3. QED
    BY <1>4, <2>2, CallsKeptTwice
<1> HIDE DEF told
<1>6. Fine(signed)
  BY <1>3, <1>5
<1> HIDE DEF signed
<1>7. Fine(closed)
  <2>1. signed.active = 0
    BY <1>6 DEF CallsKept
  <2>2. CASE signed.summarySeen
    <3>1. closed = Responses!finalize_thinking(signed)
      BY <2>2
    <3> HIDE DEF closed
    <3>2. ResponsesMid(c, closed) /\ CallsKept(signed, closed) /\ ~closed.textOpen
      BY <1>6, <3>1, ThinkingFinal
    <3>3. QED
      BY <1>6, <3>2, CallsKeptTwice
  <2>3. CASE ~signed.summarySeen
    <3>1. closed = Responses!finalize_signature_only_thinking(signed)
      BY <2>3
    <3> HIDE DEF closed
    <3>2. ResponsesMid(c, closed) /\ CallsKept(signed, closed) /\ ~closed.textOpen
      BY <1>6, <2>1, <3>1, SignatureShownOnly
    <3>3. QED
      BY <1>6, <3>2, CallsKeptTwice
  <2>4. QED
    BY <2>2, <2>3
<1> HIDE DEF closed
<1>8. Remembers(closed, new, closed.commentary)
  <2>1. closed \in ResponsesStates
    BY <1>7 DEF ResponsesMid
  <2>2. ASSUME NEW sig \in Int
        PROVE  Remembers(closed, [closed EXCEPT !.signature = sig, !.summarySeen = FALSE,
                                                !.redacted = FALSE], closed.commentary)
    BY <2>1 DEF Remembers, ResponsesStates, BlocksKept, CallsKept
  <2>3. Responses!None \in Int
    BY <1>2
  <2>4. QED
    BY <2>2, <2>3
<1> HIDE DEF new
<1>9. ResponsesMid(c, new) /\ CallsKept(closed, new)
  BY <1>7, <1>8, RemembersKept
<1>10. CallsKept(s, new)
  BY <1>7, <1>9, CallsKeptTwice
<1>11. QED
  BY <1>1, <1>9, <1>10 DEF Quietly

\* Blocks that are shown and closed.
LEMMA BlocksAdded ==
  ASSUME NEW c, NEW s, ResponsesMid(c, s), ~s.textOpen, ~s.thinkingOpen, s.active = 0,
         NEW n \in Nat, NEW out, Ends(c, out, "started", {}, 0..(n - 1), TRUE)
  PROVE  Quietly(c, s, [s EXCEPT !.out = out, !.next = n])
<1> DEFINE t == [s EXCEPT !.out = out, !.next = n]
<1>1. s \in ResponsesStates /\ out \in Seq(Frames)
  BY DEF ResponsesMid, Ends
<1>2. t \in ResponsesStates
  BY <1>1 DEF ResponsesStates
<1>3. /\ t.out = out /\ t.next = n /\ t.textOpen = s.textOpen
      /\ t.thinkingOpen = s.thinkingOpen /\ CallsKept(s, t)
  BY <1>1 DEF ResponsesStates, CallsKept
<1> HIDE DEF t
<1>4. ~t.textOpen /\ ~t.thinkingOpen /\ t.active = 0
  BY <1>3 DEF CallsKept
<1>5. ShownNow(t) = {} /\ Exclusive(t)
  BY <1>4 DEF ShownNow, Exclusive
<1>6. QED
  BY <1>2, <1>3, <1>5 DEF Quietly, ResponsesMid, t

LEMMA SearchShown ==
  ASSUME NEW c, NEW s, ResponsesMid(c, s), s.active = 0, NEW ev \in Events
  PROVE  Quietly(c, s, Responses!SearchDone(s, ev))
<1> DEFINE a == Responses!stop_text(s)
           t == Responses!finalize_thinking(a)
           n == t.next
           m == n + 1
           parts == ev.parts
           key == ev.key
           use == Append(t.out, BlockStart(n, "search", key))
           said == IF parts = << >> THEN use ELSE Append(use, BlockDelta(n, parts))
           shown == Append(said, BlockStop(n))
           start == Append(shown, BlockStart(m, "result", key))
           result == Append(start, BlockStop(m))
           new == Responses!SearchDone(s, ev)
<1>1. ResponsesMid(c, a) /\ CallsKept(s, a) /\ ~a.textOpen
  BY TextStopped
<1>2. ResponsesMid(c, t) /\ CallsKept(a, t) /\ ~t.thinkingOpen /\ ~t.textOpen
  BY <1>1, ThinkingFinal
<1>3. CallsKept(s, t)
  BY <1>1, <1>2, CallsKeptTwice
<1> HIDE DEF a
<1>4. new = IF parts = << >> THEN [t EXCEPT !.out = shown, !.next = m]
            ELSE [t EXCEPT !.out = result, !.next = m + 1]
  <2> DEFINE Use == Responses!Emit(t, Responses!BlockStart(n, "search", key))
             Said == IF parts = << >> THEN Use
                     ELSE Responses!Emit(Use, Responses!BlockDelta(n, parts))
             Shut == Responses!Emit(Said, Responses!BlockStop(n))
             Result == Responses!Emit(Responses!Emit(Shut,
                         Responses!BlockStart(m, "result", key)), Responses!BlockStop(m))
  <2>1. new = IF parts = << >> THEN [Shut EXCEPT !.next = @ + 1]
              ELSE [Result EXCEPT !.next = @ + 2]
    BY ResponsesFrames DEF Responses!SearchDone, a
  <2>2. t \in ResponsesStates /\ n \in Nat
    BY <1>2 DEF ResponsesMid, ResponsesStates
  <2> HIDE DEF new, t
  <2>3. Use = [t EXCEPT !.out = use]
    BY <2>2, ResponsesFrames DEF ResponsesStates
  <2> HIDE DEF Use
  <2>4. Said = [t EXCEPT !.out = said]
    BY <2>2, <2>3, ResponsesFrames DEF ResponsesStates
  <2> HIDE DEF Said, said
  <2>5. Shut = [t EXCEPT !.out = shown]
    BY <2>2, <2>4, ResponsesFrames DEF ResponsesStates
  <2> HIDE DEF Shut, shown
  <2>6. Result = [t EXCEPT !.out = result]
    BY <2>2, <2>5, ResponsesFrames DEF ResponsesStates
  <2> HIDE DEF Result, result
  <2>7. n + 2 = m + 1
    BY <2>2
  <2>8. [Shut EXCEPT !.next = @ + 1] = [t EXCEPT !.out = shown, !.next = m]
    BY <2>2, <2>5 DEF ResponsesStates
  <2>9. [Result EXCEPT !.next = @ + 2] = [t EXCEPT !.out = result, !.next = m + 1]
    BY <2>2, <2>6, <2>7 DEF ResponsesStates
  <2>10. QED
    BY <2>1, <2>8, <2>9
<1>5. /\ n \in Nat /\ m \in Nat /\ m + 1 \in Nat /\ parts \in Parts /\ key \in Int
      /\ t.active = 0 /\ Ends(c, t.out, "started", {}, 0..(n - 1), TRUE)
      /\ "search" \in Kinds /\ "result" \in Kinds
  <2>1. t \in ResponsesStates /\ n \in Nat
    BY <1>2 DEF ResponsesMid, ResponsesStates
  <2>2. t.active = 0
    BY <1>3 DEF CallsKept
  <2>3. ShownNow(t) = {}
    BY <1>2, <2>2 DEF ShownNow
  <2>4. parts \in Parts /\ key \in Int /\ "search" \in Kinds /\ "result" \in Kinds
    BY DEF Events, Kinds
  <2>5. Ends(c, t.out, "started", {}, 0..(n - 1), TRUE)
    <3>1. Ends(c, t.out, "started", ShownNow(t), 0..(n - 1), TRUE)
      BY <1>2 DEF ResponsesMid
    <3>2. QED
      BY <2>3, <3>1
  <2> HIDE DEF t, n, parts, key
  <2>6. m \in Nat /\ m + 1 \in Nat
    BY <2>1
  <2> HIDE DEF m
  <2>7. QED
    BY <2>1, <2>2, <2>4, <2>5, <2>6, Zenon
<1> HIDE DEF new, t, n, parts, key
<1>6. Ends(c, use, "started", {n}, 0..((n + 1) - 1), TRUE)
  BY <1>5, NextBlock
<1> DEFINE used == 0..((n + 1) - 1)
<1>7. Ends(c, said, "started", {n}, used, TRUE)
  <2> HIDE DEF use, used
  <2>1. Ends(c, use, "started", {n}, used, TRUE)
    BY <1>6 DEF used
  <2>2. QED
    BY <1>5, <2>1, EndsFrame
<1>8. Ends(c, shown, "started", {}, 0..(m - 1), TRUE)
  <2> HIDE DEF said, used
  <2>1. Ends(c, shown, "started", {}, used, TRUE)
    BY <1>5, <1>7, EndsFrame
  <2>2. QED
    BY <2>1 DEF used
<1> HIDE DEF said, shown, m
<1>9. Ends(c, start, "started", {m}, 0..((m + 1) - 1), TRUE)
  BY <1>5, <1>8, NextBlock
<1>10. Ends(c, result, "started", {}, 0..((m + 1) - 1), TRUE)
  <2> DEFINE both == 0..((m + 1) - 1)
  <2> HIDE DEF start, both
  <2>1. Ends(c, start, "started", {m}, both, TRUE)
    BY <1>9 DEF both
  <2>2. Ends(c, result, "started", {}, both, TRUE)
    BY <1>5, <2>1, EndsFrame
  <2>3. QED
    BY <2>2 DEF both
<1> HIDE DEF result
<1>11. Quietly(c, t, new)
  BY <1>2, <1>4, <1>5, <1>8, <1>10, BlocksAdded
<1>12. CallsKept(s, new)
  BY <1>3, <1>11, CallsKeptTwice DEF Quietly
<1>13. QED
  BY <1>11, <1>12 DEF Quietly, new
-----------------------------------------------------------------------------
\* An event that starts no call, while no call is shown.
LEMMA QuietHandled ==
  ASSUME NEW c, NEW s, ResponsesMid(c, s), s.active = 0, s.started,
         NEW ev \in QuietEvents
  PROVE  Quietly(c, s, Responses!Handle(s, ev))
<1>1. ev \in Events
  BY DEF QuietEvents
<1>2. CASE ev.type = "created"
  <2>1. Responses!Handle(s, ev) = Responses!ensure_started(s)
    BY <1>2, Zenon DEF Responses!Handle
  <2>2. Responses!ensure_started(s) = s
    BY DEF Responses!ensure_started
  <2>3. QED
    BY <2>1, <2>2 DEF Quietly, CallsKept
<1>3. CASE ev.type = "part.added"
  BY <1>1, <1>3, PartShown, Zenon DEF Responses!Handle
<1>4. CASE ev.type = "reasoning.delta"
  BY <1>1, <1>4, PartShown, Zenon DEF Responses!Handle
<1>5. CASE ev.type = "text.added"
  BY <1>5, TextPartShown, Zenon DEF Responses!Handle
<1>6. CASE ev.type = "text.delta"
  BY <1>1, <1>6, TextDeltaShown, Zenon DEF Responses!Handle
<1>7. CASE ev.type = "text.done"
  BY <1>7, TextPartShown, Zenon DEF Responses!Handle
<1>8. CASE ev.type = "item.added" /\ ev.kind \in SaidKinds
  BY <1>1, <1>8, SaidAdded, Zenon DEF Responses!Handle
<1>9. CASE ev.type = "item.done" /\ ev.kind \in SaidKinds \cup {"search"}
  <2> DEFINE t == [s EXCEPT !.sawItem = TRUE]
  <2>1. Remembers(s, t, s.commentary)
    <3>1. s \in ResponsesStates
      BY DEF ResponsesMid
    <3>2. QED
      BY <3>1 DEF Remembers, ResponsesStates, BlocksKept, CallsKept
  <2>2. s.textOpen => ~s.commentary
    BY DEF ResponsesMid, Exclusive
  <2>3. Responses!Handle(s, ev) = Responses!ItemDone(s, ev)
    BY <1>9, Zenon DEF Responses!Handle
  <2>4. Responses!ItemDone(s, ev) \in
          {Responses!MessageDone(t, ev), Responses!ReasoningDone(t, ev),
           Responses!SearchDone(t, ev)}
    <3>1. CASE ev.kind \in {"message", "commentary"}
      <4>1. Responses!ItemDone(s, ev) = Responses!MessageDone(t, ev)
        BY <3>1, Zenon DEF Responses!ItemDone
      <4>2. QED
        BY <4>1, Zenon
    <3>2. CASE ev.kind = "reasoning"
      <4>1. Responses!ItemDone(s, ev) = Responses!ReasoningDone(t, ev)
        BY <3>2, Zenon DEF Responses!ItemDone
      <4>2. QED
        BY <4>1, Zenon
    <3>3. CASE ev.kind = "search"
      <4>1. Responses!ItemDone(s, ev) = Responses!SearchDone(t, ev)
        BY <3>3, Zenon DEF Responses!ItemDone
      <4>2. QED
        BY <4>1, Zenon
    <3>4. QED
      BY <1>9, <3>1, <3>2, <3>3 DEF SaidKinds
  <2> HIDE DEF t
  <2>5. ResponsesMid(c, t) /\ CallsKept(s, t)
    BY <2>1, <2>2, RemembersKept
  <2>6. t.active = 0
    BY <2>5 DEF CallsKept
  <2>7. /\ Quietly(c, t, Responses!MessageDone(t, ev))
        /\ Quietly(c, t, Responses!ReasoningDone(t, ev))
        /\ Quietly(c, t, Responses!SearchDone(t, ev))
    BY <1>1, <2>5, <2>6, MessageDoneShown, ReasoningDoneShown, SearchShown
  <2> DEFINE u == Responses!Handle(s, ev)
  <2>8. Quietly(c, t, u)
    BY <2>3, <2>4, <2>7
  <2> HIDE DEF u
  <2>9. QED
    BY <2>5, <2>8, CallsKeptTwice DEF Quietly, u
<1>10. QED
  BY <1>2, <1>3, <1>4, <1>5, <1>6, <1>7, <1>8, <1>9 DEF QuietEvents, PartTypes

\* Such an event is taken up or deferred.
LEMMA QuietProcessed ==
  ASSUME NEW c, NEW s, ResponsesMid(c, s), s.started, ~s.finished, NEW ev \in QuietEvents
  PROVE  LET t == Responses!process(s, ev) IN
         /\ s.active = 0 => Quietly(c, s, t)
         /\ s.active # 0 =>
              /\ ResponsesMid(c, t)
              /\ t.calls = s.calls /\ t.queue = s.queue /\ t.active = s.active
              /\ t.last = s.last /\ t.started = s.started /\ t.finished = s.finished
<1> DEFINE saw == s.sawDelta \/ Responses!is_meaningful_output_delta(ev)
           t == [s EXCEPT !.sawDelta = saw]
           new == Responses!process(s, ev)
<1>1. s \in ResponsesStates
  BY DEF ResponsesMid
<1>2. saw \in BOOLEAN
  BY <1>1 DEF ResponsesStates, Responses!is_meaningful_output_delta
<1>3. t = [s EXCEPT !.sawDelta = @ \/ Responses!is_meaningful_output_delta(ev)]
  BY <1>1 DEF ResponsesStates
<1> HIDE DEF saw
<1>4. Remembers(s, t, s.commentary) /\ (s.textOpen => ~s.commentary)
  <2>1. Remembers(s, t, s.commentary)
    BY <1>1, <1>2 DEF Remembers, ResponsesStates, BlocksKept, CallsKept
  <2>2. s.textOpen => ~s.commentary
    BY DEF ResponsesMid, Exclusive
  <2>3. QED
    BY <2>1, <2>2
<1>5. Responses!should_defer_stream_event(ev)
  BY DEF Responses!should_defer_stream_event, QuietEvents, PartTypes, SaidKinds
<1>6. new = IF s.active # 0 THEN [t EXCEPT !.deferred = Append(@, ev)]
            ELSE Responses!Handle(t, ev)
  BY <1>3, <1>5, ResponsesFrames, Zenon DEF Responses!process
<1> HIDE DEF t, new
<1>7. ResponsesMid(c, t) /\ CallsKept(s, t)
  BY <1>4, RemembersKept
<1>8. /\ t.active = s.active /\ t.started /\ t.calls = s.calls /\ t.queue = s.queue
      /\ t.last = s.last /\ t.started = s.started /\ t.finished = s.finished
  BY <1>7 DEF CallsKept
<1>9. ASSUME s.active = 0 PROVE Quietly(c, s, new)
  <2>1. Quietly(c, t, new)
    BY <1>6, <1>7, <1>8, <1>9, QuietHandled
  <2>2. QED
    BY <1>7, <2>1, CallsKeptTwice DEF Quietly
<1>10. ASSUME s.active # 0
       PROVE  /\ ResponsesMid(c, new)
              /\ new.calls = s.calls /\ new.queue = s.queue /\ new.active = s.active
              /\ new.last = s.last /\ new.started = s.started
              /\ new.finished = s.finished
  <2>1. t \in ResponsesStates
    BY <1>7 DEF ResponsesMid
  <2> DEFINE deferred == Append(t.deferred, ev)
  <2>2. deferred \in Seq(QuietEvents) /\ new = [t EXCEPT !.deferred = deferred]
    BY <1>6, <1>10, <2>1 DEF ResponsesStates
  <2> HIDE DEF deferred
  <2>3. new \in ResponsesStates
    BY <2>1, <2>2 DEF ResponsesStates
  <2>4. /\ new.out = t.out /\ new.next = t.next
        /\ new.textOpen = t.textOpen /\ new.textIndex = t.textIndex
        /\ new.thinkingOpen = t.thinkingOpen /\ new.thinkingIndex = t.thinkingIndex
        /\ new.commentary = t.commentary
        /\ new.calls = t.calls /\ new.queue = t.queue /\ new.active = t.active
        /\ new.last = t.last /\ new.started = t.started /\ new.finished = t.finished
    BY <2>1, <2>2 DEF ResponsesStates
  <2>5. ShownNow(new) = ShownNow(t) /\ Exclusive(new)
    BY <1>7, <2>4 DEF ShownNow, ResponsesMid, Exclusive, ActiveCall
  <2>6. ResponsesMid(c, new)
    BY <1>7, <2>3, <2>4, <2>5 DEF ResponsesMid
  <2>7. QED
    BY <1>8, <2>4, <2>6
<1>11. QED
  BY <1>9, <1>10 DEF new

\* The deferred events are taken up while no call is shown.
Resumed(c, t) == ResponsesMid(c, t) /\ t.active = 0 /\ t.started /\ ~t.finished

LEMMA DeferredShown ==
  ASSUME NEW c, NEW s, Resumed(c, s)
  PROVE  Resumed(c, Responses!append_deferred_events(s))
<1> DEFINE S == {t \in ResponsesStates : Resumed(c, t)}
           base == [s EXCEPT !.deferred = << >>]
           q == s.deferred
           n == Len(q)
           step == [p \in S \X (1..n) |-> Responses!process(p[1], q[p[2]])]
           IsFold(it) == it = [u \in SUBSET DOMAIN q |->
                                 IF u = {} THEN base
                                 ELSE Responses!process(it[u \ {Max(u)}], q[Max(u)])]
           fold == CHOOSE it : IsFold(it)
<1>1. base \in S
  <2>1. s \in ResponsesStates
    BY DEF Resumed, ResponsesMid
  <2>2. base \in ResponsesStates
    <3>1. << >> \in Seq(QuietEvents)
      OBVIOUS
    <3>2. ASSUME NEW none \in Seq(QuietEvents)
          PROVE  [s EXCEPT !.deferred = none] \in ResponsesStates
      BY <2>1 DEF ResponsesStates
    <3>3. QED
      BY <3>1, <3>2, Zenon
  <2>3. /\ base.out = s.out /\ base.next = s.next
        /\ base.textOpen = s.textOpen /\ base.textIndex = s.textIndex
        /\ base.thinkingOpen = s.thinkingOpen /\ base.thinkingIndex = s.thinkingIndex
        /\ base.commentary = s.commentary
        /\ base.queue = s.queue /\ base.active = s.active
        /\ base.started = s.started /\ base.finished = s.finished
    BY <2>1 DEF ResponsesStates
  <2> HIDE DEF base
  <2>4. ShownNow(base) = ShownNow(s) /\ Exclusive(base)
    BY <2>3 DEF ShownNow, Resumed, ResponsesMid, Exclusive, ActiveCall
  <2>5. Resumed(c, base)
    BY <2>2, <2>3, <2>4 DEF Resumed, ResponsesMid
  <2>6. QED
    BY <2>2, <2>5
<1>2. Responses!append_deferred_events(s) = fold[DOMAIN q]
  BY DEF Responses!append_deferred_events, Responses!FoldLeft,
         Responses!MapThenFoldSet, Responses!Max, Max
<1>3. n \in Nat /\ DOMAIN q = 1..n /\ \A i \in 1..n : q[i] \in QuietEvents
  BY DEF Resumed, ResponsesMid, ResponsesStates
<1> HIDE DEF q, n, base
<1>4. \A t \in S, i \in 1..n : Responses!process(t, q[i]) \in S
  <2>1. TAKE t \in S, i \in 1..n
  <2> DEFINE u == Responses!process(t, q[i])
  <2>2. q[i] \in QuietEvents
    BY <1>3
  <2>3. Quietly(c, t, u)
    BY <2>2, QuietProcessed DEF Resumed
  <2> HIDE DEF u
  <2>4. Resumed(c, u) /\ u \in ResponsesStates
    BY <2>3 DEF Resumed, Quietly, CallsKept, ResponsesMid
  <2>5. QED
    BY <2>4 DEF u
<1>5. IsFold(fold)
  <2>1. step \in [S \X (1..n) -> S]
    BY <1>4
  <2>2. PICK g \in [SUBSET (1..n) -> S] : Staged(n, g, base, step)
    BY <1>1, <1>3, <2>1, StagesExist
  <2>3. \A t \in S, k \in 1..n : step[<<t, k>>] = Responses!process(t, q[k])
    OBVIOUS
  <2> HIDE DEF step
  <2>4. \A u \in SUBSET (1..n) : u # {} =>
          step[<<g[u \ {Max(u)}], Max(u)>>] = Responses!process(g[u \ {Max(u)}], q[Max(u)])
    BY <1>3, <2>3, FirstNumbers
  <2>5. \A u \in SUBSET (1..n) :
          g[u] = IF u = {} THEN base ELSE Responses!process(g[u \ {Max(u)}], q[Max(u)])
    BY <2>2, <2>4 DEF Staged
  <2>6. IsFold(g)
    BY <1>3, <2>5
  <2>7. QED
    BY <2>6
<1> HIDE DEF fold
<1>6. fold[{}] = base
  <2>1. {} \in SUBSET (DOMAIN q)
    OBVIOUS
  <2>2. QED
    BY <1>5, <2>1
<1>7. \A k \in 1..n : fold[1..k] = Responses!process(fold[1..(k - 1)], q[k])
  <2>1. TAKE k \in 1..n
  <2> DEFINE all == 1..k
             less == 1..(k - 1)
  <2>2. all \in SUBSET (1..n) /\ all # {} /\ Max(all) = k /\ all \ {k} = less
    BY <1>3, FirstNumbers
  <2> HIDE DEF all, less
  <2>3. fold[all] = Responses!process(fold[all \ {Max(all)}], q[Max(all)])
    BY <1>3, <1>5, <2>2
  <2>4. QED
    BY <2>2, <2>3 DEF all, less
<1> DEFINE P == {k \in 0..n : fold[1..k] \in S}
<1>8. 0 \in P
  BY <1>1, <1>3, <1>6, FirstNumbers
<1>9. \A k \in 1..n : k - 1 \in P => k \in P
  BY <1>4, <1>7
<1> HIDE DEF P
<1>10. n \in P
  BY <1>3, <1>8, <1>9, LastStage
<1>11. fold[DOMAIN q] \in S
  BY <1>3, <1>10 DEF P
<1>12. QED
  BY <1>2, <1>11

\* Nothing is taken up if nothing was deferred.
LEMMA NothingDeferred ==
  ASSUME NEW s \in ResponsesStates, s.deferred = << >>
  PROVE  Responses!append_deferred_events(s) = s
<1> DEFINE base == [s EXCEPT !.deferred = << >>]
           q == s.deferred
           IsFold(it) == it = [u \in SUBSET DOMAIN q |->
                                 IF u = {} THEN base
                                 ELSE Responses!process(it[u \ {Max(u)}], q[Max(u)])]
           fold == CHOOSE it : IsFold(it)
<1>1. base = s
  BY DEF ResponsesStates
<1>2. Responses!append_deferred_events(s) = fold[DOMAIN q]
  BY DEF Responses!append_deferred_events, Responses!FoldLeft,
         Responses!MapThenFoldSet, Responses!Max, Max
<1>3. DOMAIN q = {}
  OBVIOUS
<1> HIDE DEF base, q
<1>4. IsFold([u \in SUBSET {} |-> base])
  BY <1>3
<1>5. IsFold(fold)
  <2> HIDE DEF IsFold
  <2>1. QED
    BY <1>4
<1> HIDE DEF fold
<1>6. fold[{}] = base
  BY <1>3, <1>5
<1>7. QED
  BY <1>1, <1>2, <1>3, <1>6
-----------------------------------------------------------------------------
\* States that differ in the calls alone.
QueueOnly(s, t) ==
  /\ t.out = s.out /\ t.next = s.next /\ t.commentary = s.commentary
  /\ t.textOpen = s.textOpen /\ t.textIndex = s.textIndex
  /\ t.thinkingOpen = s.thinkingOpen /\ t.thinkingIndex = s.thinkingIndex
  /\ t.active = s.active /\ t.deferred = s.deferred
  /\ t.started = s.started /\ t.finished = s.finished

\* A call is not taken from the client, or given back to it.
CallGoesOn(call, next) ==
  /\ next.closed = call.closed /\ next.index = call.index
  /\ call.name # 0 => next.name # 0

LEMMA QueueChanged ==
  ASSUME NEW c, NEW s, NEW t \in ResponsesStates, ResponsesMid(c, s), QueueOnly(s, t),
         \A i \in DOMAIN s.queue :
           i \in DOMAIN t.queue /\ CallGoesOn(s.queue[i], t.queue[i]),
         \A i \in DOMAIN t.queue \ DOMAIN s.queue : \A j \in DOMAIN s.queue : j < i
  PROVE  ResponsesMid(c, t)
<1>1. /\ t.out = s.out /\ t.next = s.next /\ t.commentary = s.commentary
      /\ t.textOpen = s.textOpen /\ t.textIndex = s.textIndex
      /\ t.thinkingOpen = s.thinkingOpen /\ t.thinkingIndex = s.thinkingIndex
      /\ t.active = s.active
  BY DEF QueueOnly
<1>2. ASSUME s.active # 0 PROVE ActiveCall(t) /\ t.queue[t.active].index = s.queue[s.active].index
  <2>1. ActiveCall(s)
    BY <1>2 DEF ResponsesMid, Exclusive
  <2>2. CallGoesOn(s.queue[s.active], t.queue[s.active]) /\ s.active \in DOMAIN t.queue
    BY <2>1 DEF ActiveCall
  <2>3. ASSUME NEW i \in DOMAIN t.queue, i < s.active PROVE t.queue[i].closed
    <3>1. i \in DOMAIN s.queue
      <4>1. s.active \in Int /\ i \in Int
        BY DEF ResponsesMid, ResponsesStates
      <4>2. i \notin DOMAIN s.queue => s.active < i
        BY <2>1 DEF ActiveCall
      <4>3. QED
        BY <2>3, <4>1, <4>2
    <3>2. QED
      BY <2>1, <2>3, <3>1 DEF ActiveCall, CallGoesOn
  <2>4. QED
    BY <1>1, <2>1, <2>2, <2>3 DEF ActiveCall, CallGoesOn
<1>3. ShownNow(t) = ShownNow(s)
  BY <1>1, <1>2 DEF ShownNow
<1>4. Exclusive(t)
  BY <1>1, <1>2 DEF Exclusive, ResponsesMid
<1>5. QED
  BY <1>1, <1>3, <1>4 DEF ResponsesMid

\* What showing the queue of calls leaves alone.
QueueKept(s, t) ==
  /\ t.calls = s.calls /\ t.last = s.last /\ t.deferred = s.deferred
  /\ t.started = s.started /\ t.finished = s.finished
  /\ t.textOpen = s.textOpen /\ t.thinkingOpen = s.thinkingOpen
  /\ DOMAIN t.queue = DOMAIN s.queue /\ Len(t.queue) = Len(s.queue)
  /\ \A i \in DOMAIN s.queue : /\ t.queue[i].name = s.queue[i].name
                               /\ t.queue[i].done = s.queue[i].done

LEMMA QueueKeptTwice ==
  ASSUME NEW s, NEW t, NEW u, QueueKept(s, t), QueueKept(t, u)
  PROVE  QueueKept(s, u)
BY DEF QueueKept

LEMMA ArgumentsShown ==
  ASSUME NEW c, NEW s, ResponsesMid(c, s)
  PROVE  LET t == Responses!append_buffered_arguments(s) IN
         /\ ResponsesMid(c, t) /\ QueueKept(s, t) /\ t.active = s.active
         /\ \A i \in DOMAIN s.queue : t.queue[i].closed = s.queue[i].closed
<1> DEFINE t == Responses!append_buffered_arguments(s)
           i == s.active
           call == s.queue[i]
           args == call.args
           parts == SubSeq(args, call.emitted + 1, Len(args))
           frame == BlockDelta(call.index, parts)
           a == Responses!Emit(s, frame)
           u == [a EXCEPT !.queue[i].emitted = Len(args)]
<1>1. s \in ResponsesStates
  BY DEF ResponsesMid
<1>2. t = s \/ (t = u /\ i # 0)
  BY ResponsesFrames DEF Responses!append_buffered_arguments
<1>3. CASE t = s
  BY <1>3 DEF QueueKept
<1>4. CASE t = u /\ i # 0
  <2>1. ActiveCall(s) /\ ~s.textOpen /\ ~s.thinkingOpen
    BY <1>4 DEF ResponsesMid, Exclusive
  <2>2. i \in DOMAIN s.queue /\ call.index \in Nat /\ call \in QueuedCalls
    BY <1>1, <2>1 DEF ActiveCall, ResponsesStates
  <2>3. args \in Seq(Int) /\ Len(args) \in Nat /\ call.emitted \in Nat
    BY <2>2 DEF QueuedCalls, Parts
  <2>4. parts \in Parts
    BY <2>3 DEF Parts
  <2>5. ShownNow(s) = {call.index}
    BY <1>4, <2>1 DEF ShownNow
  <2> HIDE DEF parts, args
  <2>6. Ends(c, s.out, "started", {call.index}, 0..(s.next - 1), TRUE)
    BY <2>5 DEF ResponsesMid
  <2>7. Ends(c, Append(s.out, frame), "started", {call.index}, 0..(s.next - 1), TRUE)
    BY <2>2, <2>4, <2>6, EndsFrame
  <2>8. Ends(c, Append(s.out, frame), "started", ShownNow(s), 0..(s.next - 1), TRUE)
    BY <2>5, <2>7
  <2> HIDE DEF frame
  <2>9. /\ ResponsesMid(c, a) /\ CallsKept(s, a)
        /\ a.textOpen = s.textOpen /\ a.thinkingOpen = s.thinkingOpen
    BY <2>8, FrameKept
  <2> HIDE DEF a
  <2>10. a.queue = s.queue /\ a.active = i /\ a \in ResponsesStates
    BY <2>9 DEF CallsKept, ResponsesMid
  <2> DEFINE more == [call EXCEPT !.emitted = Len(args)]
             queue == [s.queue EXCEPT ![i] = more]
  <2>11. more \in QueuedCalls /\ more.closed = call.closed /\ more.index = call.index
         /\ more.name = call.name /\ more.done = call.done
    <3> HIDE DEF call
    <3>1. QED
      BY <2>2, <2>3 DEF QueuedCalls
  <2>12. u = [a EXCEPT !.queue = queue]
    BY <2>10 DEF ResponsesStates
  <2> HIDE DEF more
  <2>13. /\ queue \in Seq(QueuedCalls) /\ DOMAIN queue = DOMAIN s.queue
         /\ Len(queue) = Len(s.queue)
         /\ \A j \in DOMAIN s.queue : queue[j] = IF j = i THEN more ELSE s.queue[j]
    BY <1>1, <2>2, <2>11 DEF ResponsesStates
  <2> HIDE DEF queue, u
  <2>14. u \in ResponsesStates
    BY <2>10, <2>12, <2>13 DEF ResponsesStates
  <2>15. u.queue = queue /\ u.calls = a.calls /\ u.last = a.last /\ QueueOnly(a, u)
    BY <2>10, <2>12 DEF ResponsesStates, QueueOnly
  <2>16. \A j \in DOMAIN s.queue :
           /\ u.queue[j].closed = s.queue[j].closed
           /\ u.queue[j].index = s.queue[j].index
           /\ u.queue[j].name = s.queue[j].name
           /\ u.queue[j].done = s.queue[j].done
    BY <2>11, <2>13, <2>15
  <2>17. ResponsesMid(c, u)
    <3>1. \A j \in DOMAIN a.queue :
            j \in DOMAIN u.queue /\ CallGoesOn(a.queue[j], u.queue[j])
      BY <2>10, <2>13, <2>15, <2>16 DEF CallGoesOn
    <3>2. DOMAIN u.queue \ DOMAIN a.queue = {}
      BY <2>10, <2>13, <2>15
    <3>3. QED
      BY <2>9, <2>14, <2>15, <3>1, <3>2, QueueChanged
  <2>18. QueueKept(s, u) /\ u.active = s.active
    BY <2>9, <2>10, <2>13, <2>15, <2>16 DEF QueueKept, CallsKept, QueueOnly
  <2>19. QED
    BY <1>4, <2>16, <2>17, <2>18 DEF t
<1>5. QED
  BY <1>2, <1>3, <1>4

LEMMA ActiveClosed ==
  ASSUME NEW c, NEW s, ResponsesMid(c, s)
  PROVE  LET t == Responses!CloseActive(s)
             i == s.active IN
         /\ ResponsesMid(c, t) /\ QueueKept(s, t)
         /\ \A j \in DOMAIN s.queue : s.queue[j].closed => t.queue[j].closed
         /\ IF i # 0 /\ s.queue[i].done THEN t.active = 0 /\ t.queue[i].closed
            ELSE t.active = i
<1> DEFINE t == Responses!CloseActive(s)
           i == s.active
           a == Responses!append_buffered_arguments(s)
           n == a.queue[i].index
           out == Append(a.out, BlockStop(n))
           b == Responses!Emit(a, BlockStop(n))
           u == [b EXCEPT !.queue[i].closed = TRUE, !.active = 0]
<1>1. /\ ResponsesMid(c, a) /\ QueueKept(s, a) /\ a.active = i
      /\ \A j \in DOMAIN s.queue : a.queue[j].closed = s.queue[j].closed
  BY ArgumentsShown
<1>2. /\ s \in ResponsesStates /\ a \in ResponsesStates
      /\ DOMAIN a.queue = DOMAIN s.queue
  BY <1>1 DEF ResponsesMid, QueueKept
<1>3. t = IF i = 0 \/ ~a.queue[i].done THEN a ELSE u
  BY <1>1, ResponsesFrames DEF Responses!CloseActive
<1>4. i # 0 => i \in DOMAIN s.queue /\ a.queue[i].done = s.queue[i].done
  BY <1>1, <1>2 DEF ResponsesMid, Exclusive, ActiveCall, QueueKept
<1> HIDE DEF a
<1>5. CASE i = 0 \/ ~a.queue[i].done
  <2>1. t = a
    BY <1>3, <1>5
  <2>2. ~(i # 0 /\ s.queue[i].done)
    BY <1>4, <1>5
  <2> HIDE DEF t
  <2>3. QED
    BY <1>1, <2>1, <2>2 DEF t
<1>6. CASE i # 0 /\ a.queue[i].done
  <2>1. i \in DOMAIN a.queue /\ n \in Nat /\ a.queue[i] \in QueuedCalls
        /\ ~a.textOpen /\ ~a.thinkingOpen
    BY <1>1, <1>2, <1>6 DEF ResponsesMid, Exclusive, ActiveCall, ResponsesStates
  <2>2. ShownNow(a) = {n}
    BY <1>1, <1>6, <2>1 DEF ShownNow
  <2> HIDE DEF n
  <2>3. Ends(c, a.out, "started", {n}, 0..(a.next - 1), TRUE)
    BY <1>1, <2>2 DEF ResponsesMid
  <2>4. Ends(c, out, "started", {}, 0..(a.next - 1), TRUE)
    BY <2>1, <2>3, EndsFrame
  <2>5. out \in Seq(Frames)
    BY <2>4 DEF Ends
  <2> DEFINE shut == [a.queue[i] EXCEPT !.closed = TRUE]
             queue == [a.queue EXCEPT ![i] = shut]
             v == [a EXCEPT !.out = out, !.queue = queue, !.active = 0]
  <2>6. b = [a EXCEPT !.out = out]
    BY <1>2, ResponsesFrames DEF ResponsesStates
  <2> HIDE DEF b, out
  <2>7. b.queue = a.queue
    BY <1>2, <2>6 DEF ResponsesStates
  <2>8. u = v
    BY <1>2, <2>6, <2>7 DEF ResponsesStates
  <2>9. shut \in QueuedCalls /\ shut.closed /\ shut.name = a.queue[i].name
        /\ shut.done = a.queue[i].done
    BY <2>1 DEF QueuedCalls
  <2> HIDE DEF shut
  <2>10. /\ queue \in Seq(QueuedCalls) /\ DOMAIN queue = DOMAIN a.queue
         /\ Len(queue) = Len(a.queue)
         /\ \A j \in DOMAIN a.queue : queue[j] = IF j = i THEN shut ELSE a.queue[j]
    <3>1. a.queue \in Seq(QueuedCalls)
      BY <1>2 DEF ResponsesStates
    <3>2. QED
      BY <2>1, <2>9, <3>1
  <2> HIDE DEF queue
  <2>11. v \in ResponsesStates
    BY <1>2, <2>5, <2>10 DEF ResponsesStates
  <2>12. /\ v.out = out /\ v.queue = queue /\ v.active = 0 /\ v.next = a.next
         /\ v.textOpen = a.textOpen /\ v.thinkingOpen = a.thinkingOpen
         /\ v.calls = a.calls /\ v.last = a.last /\ v.deferred = a.deferred
         /\ v.started = a.started /\ v.finished = a.finished
    BY <1>2 DEF ResponsesStates
  <2> HIDE DEF v
  <2>13. ShownNow(v) = {} /\ Exclusive(v)
    BY <2>1, <2>12 DEF ShownNow, Exclusive
  <2>14. ResponsesMid(c, v)
    BY <2>4, <2>11, <2>12, <2>13 DEF ResponsesMid
  <2>15. QueueKept(a, v)
    BY <2>9, <2>10, <2>12 DEF QueueKept
  <2>16. QueueKept(s, v)
    BY <1>1, <2>15, QueueKeptTwice
  <2>17. \A j \in DOMAIN s.queue : s.queue[j].closed => v.queue[j].closed
    BY <1>1, <1>2, <2>9, <2>10, <2>12
  <2>18. v.queue[i].closed /\ s.queue[i].done
    BY <1>4, <1>6, <2>1, <2>9, <2>10, <2>12
  <2>19. t = v
    BY <1>3, <1>6, <2>8
  <2> HIDE DEF t
  <2>20. QED
    BY <1>6, <2>12, <2>14, <2>16, <2>17, <2>18, <2>19 DEF t
<1>7. QED
  BY <1>5, <1>6

\* The calls that are not closed; none can be started if the first has no name.
Unclosed(s) == {i \in DOMAIN s.queue : ~s.queue[i].closed}
NoneToStart(s) ==
  \/ Unclosed(s) = {}
  \/ \E i \in Unclosed(s) : /\ \A j \in Unclosed(s) : i <= j
                            /\ s.queue[i].name = 0

LEMMA FirstUnclosed ==
  ASSUME NEW s \in ResponsesStates, Unclosed(s) # {}
  PROVE  LET i == Responses!Min({j \in DOMAIN s.queue : ~s.queue[j].closed}) IN
         /\ i \in DOMAIN s.queue /\ i \in Nat \ {0} /\ ~s.queue[i].closed
         /\ \A j \in Unclosed(s) : i <= j
         /\ \A j \in DOMAIN s.queue : j < i => s.queue[j].closed
<1> DEFINE U == {j \in DOMAIN s.queue : ~s.queue[j].closed}
<1>1. U = Unclosed(s) /\ U # {}
  BY DEF Unclosed
<1>2. DOMAIN s.queue \subseteq Nat \ {0}
  BY DEF ResponsesStates
<1>3. U \subseteq Nat /\ U \subseteq Nat \ {0} /\ U \subseteq DOMAIN s.queue
  BY <1>2
<1> HIDE DEF U
<1>4. \E x \in U : \A y \in U : x <= y
  BY <1>1, <1>3, LeastOf
<1>5. Responses!Min(U) \in U /\ \A y \in U : Responses!Min(U) <= y
  BY <1>4 DEF Responses!Min
<1> DEFINE i == Responses!Min(U)
<1>6. i \in U /\ \A j \in U : i <= j
  BY <1>5
<1> HIDE DEF i
<1>7. ASSUME NEW j \in DOMAIN s.queue, j < i PROVE s.queue[j].closed
  <2>1. j \in Int /\ i \in Int
    BY <1>2, <1>3, <1>6
  <2>2. j \notin U
    BY <1>6, <1>7, <2>1
  <2>3. s.queue[j].closed \in BOOLEAN
    <3>1. s.queue \in Seq(QueuedCalls)
      BY DEF ResponsesStates
    <3>2. s.queue[j] \in QueuedCalls
      BY <3>1
    <3>3. QED
      BY <3>2 DEF QueuedCalls
  <2>4. QED
    BY <2>2, <2>3 DEF U
<1>8. ~s.queue[i].closed
  BY <1>6 DEF U
<1>9. QED
  BY <1>1, <1>3, <1>6, <1>7, <1>8 DEF i, U

LEMMA NextStarted ==
  ASSUME NEW c, NEW s, ResponsesMid(c, s), ~s.textOpen, ~s.thinkingOpen
  PROVE  LET t == Responses!StartNext(s) IN
         /\ ResponsesMid(c, t) /\ QueueKept(s, t)
         /\ \A j \in DOMAIN s.queue : t.queue[j].closed = s.queue[j].closed
         /\ s.active # 0 => t = s
         /\ s.active = 0 /\ NoneToStart(s) => t = s
         /\ s.active = 0 /\ ~NoneToStart(s) => t.active # 0
<1> DEFINE t == Responses!StartNext(s)
           U == {j \in DOMAIN s.queue : ~s.queue[j].closed}
           i == Responses!Min(U)
           n == s.next
           call == s.queue[i]
           out == Append(s.out, BlockStart(n, "tool_use", call.name))
           shown == [call EXCEPT !.index = n, !.started = TRUE]
           queue == [s.queue EXCEPT ![i] = shown]
           v == [s EXCEPT !.out = out, !.queue = queue, !.next = n + 1, !.active = i,
                          !.toolUse = TRUE]
           b == Responses!Emit(s, Responses!BlockStart(n, "tool_use", call.name))
           w == [b EXCEPT !.queue[i].index = n, !.queue[i].started = TRUE,
                          !.next = @ + 1, !.active = i, !.toolUse = TRUE]
           u == Responses!append_buffered_arguments(w)
<1>1. s \in ResponsesStates /\ n \in Nat /\ U = Unclosed(s)
  BY DEF ResponsesMid, ResponsesStates, Unclosed
<1>2. t = IF s.active # 0 \/ U = {} THEN s ELSE IF call.name = 0 THEN s ELSE u
  <2>1. t = IF s.active # Responses!None \/ U = {} THEN s
            ELSE IF call.name = Responses!None THEN s ELSE u
    BY Zenon DEF Responses!StartNext
  <2> HIDE DEF t, u, i, U
  <2>2. QED
    BY <2>1, ResponsesFrames, Zenon
<1>3. CASE s.active # 0 \/ U = {}
  <2>1. t = s
    BY <1>2, <1>3
  <2>2. s.active = 0 => NoneToStart(s)
    BY <1>1, <1>3 DEF NoneToStart
  <2> HIDE DEF t
  <2>3. QED
    BY <2>1, <2>2 DEF t, QueueKept
<1>4. CASE s.active = 0 /\ U # {}
  <2>1. /\ i \in DOMAIN s.queue /\ i \in Nat \ {0} /\ ~call.closed
        /\ \A j \in Unclosed(s) : i <= j
        /\ \A j \in DOMAIN s.queue : j < i => s.queue[j].closed
    BY <1>1, <1>4, FirstUnclosed
  <2>2. i \in Unclosed(s)
    BY <2>1 DEF Unclosed
  <2> HIDE DEF i, U
  <2>3. CASE call.name = 0
    <3>1. t = s
      BY <1>2, <1>4, <2>3
    <3>2. NoneToStart(s)
      BY <2>1, <2>2, <2>3 DEF NoneToStart
    <3> HIDE DEF t
    <3>3. QED
      BY <1>4, <3>1, <3>2 DEF t, QueueKept
  <2>4. CASE call.name # 0
    <3>1. t = u
      BY <1>2, <1>4, <2>4
    <3>2. ~NoneToStart(s)
      <4>1. DOMAIN s.queue \subseteq Int
        BY <1>1 DEF ResponsesStates
      <4>2. \A j \in Unclosed(s) : (\A k \in Unclosed(s) : j <= k) => j = i
        BY <2>1, <2>2, <4>1 DEF Unclosed
      <4>3. QED
        BY <2>2, <2>4, <4>2 DEF NoneToStart
    <3>3. call \in QueuedCalls /\ call.name \in Int /\ "tool_use" \in Kinds
      <4>1. s.queue \in Seq(QueuedCalls)
        BY <1>1 DEF ResponsesStates
      <4>2. call \in QueuedCalls
        BY <2>1, <4>1
      <4> HIDE DEF call
      <4>3. QED
        BY <4>2 DEF QueuedCalls, Kinds
    <3>4. ShownNow(s) = {}
      BY <1>4 DEF ShownNow
    <3>5. Ends(c, out, "started", {n}, 0..((n + 1) - 1), TRUE) /\ out \in Seq(Frames)
      <4>1. Ends(c, s.out, "started", {}, 0..(n - 1), TRUE)
        BY <3>4 DEF ResponsesMid
      <4>2. QED
        BY <1>1, <3>3, <4>1, NextBlock
    <3>6. b = [s EXCEPT !.out = out]
      BY <1>1, ResponsesFrames DEF ResponsesStates
    <3> HIDE DEF b, out
    <3>7. w = v
      <4>1. s.queue \in Seq(QueuedCalls) /\ b \in ResponsesStates
        BY <1>1, <3>5, <3>6 DEF ResponsesStates
      <4>2. b.queue = s.queue /\ b.next = n
        BY <1>1, <3>6 DEF ResponsesStates
      <4>3. w = [b EXCEPT !.queue = queue, !.next = n + 1, !.active = i, !.toolUse = TRUE]
        <5> DEFINE c1 == [call EXCEPT !.index = n]
                   q1 == [s.queue EXCEPT ![i] = c1]
                   b1 == [b EXCEPT !.queue = q1]
                   b2 == [b1 EXCEPT !.queue[i].started = TRUE]
        <5>1. [b EXCEPT !.queue[i].index = n] = b1
          BY <4>2
        <5>2. w = [b2 EXCEPT !.next = b.next + 1, !.active = i, !.toolUse = TRUE]
          <6> DEFINE b3 == [b EXCEPT !.queue[i].index = n]
          <6>1. w = [[b3 EXCEPT !.queue[i].started = TRUE]
                       EXCEPT !.next = b.next + 1, !.active = i, !.toolUse = TRUE]
            BY DEF w
          <6>2. QED
            BY <5>1, <6>1
        <5>3. q1[i] = c1 /\ [c1 EXCEPT !.started = TRUE] = shown
          BY <2>1, <3>3, <4>1 DEF QueuedCalls
        <5>4. [q1 EXCEPT ![i] = shown] = queue /\ q1 \in Seq(QueuedCalls)
          <6>1. c1 \in QueuedCalls
            BY <1>1, <3>3 DEF QueuedCalls
          <6> HIDE DEF c1, shown
          <6>2. QED
            BY <2>1, <4>1, <6>1
        <5>5. b1.queue = q1 /\ b1 \in ResponsesStates
          <6> HIDE DEF q1
          <6>1. QED
            BY <4>1, <5>4 DEF ResponsesStates
        <5>6. b2 = [b1 EXCEPT !.queue = queue]
          <6> HIDE DEF q1, b1, shown, c1
          <6>1. b2 = [b1 EXCEPT !.queue = [q1 EXCEPT ![i] = [c1 EXCEPT !.started = TRUE]]]
            BY <5>3, <5>5
          <6>2. QED
            BY <5>3, <5>4, <6>1
        <5> HIDE DEF b2, w
        <5>7. w = [b2 EXCEPT !.next = n + 1, !.active = i, !.toolUse = TRUE]
          BY <4>2, <5>2
        <5> HIDE DEF q1, queue
        <5>8. QED
          BY <4>1, <5>5, <5>6, <5>7 DEF ResponsesStates
      <4>4. QED
        BY <1>1, <3>6, <4>3 DEF ResponsesStates
    <3> HIDE DEF w
    <3>8. shown \in QueuedCalls /\ shown.index = n /\ shown.closed = call.closed
          /\ shown.name = call.name /\ shown.done = call.done
      <4>1. n \in Int
        BY <1>1
      <4> HIDE DEF call, n
      <4>2. QED
        BY <3>3, <4>1 DEF QueuedCalls
    <3> HIDE DEF shown
    <3>9. /\ queue \in Seq(QueuedCalls) /\ DOMAIN queue = DOMAIN s.queue
          /\ Len(queue) = Len(s.queue)
          /\ \A j \in DOMAIN s.queue : queue[j] = IF j = i THEN shown ELSE s.queue[j]
      BY <1>1, <2>1, <3>8 DEF ResponsesStates
    <3> HIDE DEF queue
    <3>10. n + 1 \in Nat /\ i \in Nat
      BY <1>1, <2>1
    <3>11. v \in ResponsesStates
      BY <1>1, <3>5, <3>9, <3>10, Zenon DEF ResponsesStates
    <3>12. /\ v.out = out /\ v.queue = queue /\ v.active = i /\ v.next = n + 1
           /\ v.textOpen = s.textOpen /\ v.thinkingOpen = s.thinkingOpen
           /\ v.calls = s.calls /\ v.last = s.last /\ v.deferred = s.deferred
           /\ v.started = s.started /\ v.finished = s.finished
      BY <1>1 DEF ResponsesStates
    <3> HIDE DEF v
    <3>13. \A j \in DOMAIN s.queue : /\ v.queue[j].closed = s.queue[j].closed
                                     /\ v.queue[j].name = s.queue[j].name
                                     /\ v.queue[j].done = s.queue[j].done
      BY <3>8, <3>9, <3>12
    <3>14. v.queue[i].index = n
      BY <2>1, <3>8, <3>9, <3>12
    <3>15. ActiveCall(v)
      BY <1>1, <2>1, <2>4, <3>9, <3>12, <3>13, <3>14 DEF ActiveCall
    <3>16. ShownNow(v) = {n}
      BY <2>1, <3>12, <3>14 DEF ShownNow
    <3>17. Exclusive(v)
      BY <3>12, <3>15 DEF Exclusive
    <3>18. ResponsesMid(c, v)
      BY <3>5, <3>11, <3>12, <3>16, <3>17 DEF ResponsesMid
    <3>19. QueueKept(s, v)
      BY <3>9, <3>12, <3>13 DEF QueueKept
    <3>20. u = Responses!append_buffered_arguments(v)
      BY <3>7
    <3> HIDE DEF u
    <3>21. /\ ResponsesMid(c, u) /\ QueueKept(v, u) /\ u.active = i
           /\ \A j \in DOMAIN v.queue : u.queue[j].closed = v.queue[j].closed
      BY <3>12, <3>18, <3>20, ArgumentsShown
    <3>22. QueueKept(s, u)
      BY <3>19, <3>21, QueueKeptTwice
    <3>23. \A j \in DOMAIN s.queue : u.queue[j].closed = s.queue[j].closed
      BY <3>9, <3>12, <3>13, <3>21
    <3> HIDE DEF t
    <3>24. QED
      BY <1>4, <2>1, <3>1, <3>2, <3>21, <3>22, <3>23 DEF t
  <2>5. QED
    BY <2>3, <2>4
<1>5. QED
  BY <1>1, <1>3, <1>4

\* A round either closes the call that is shown and shows the next, or changes
\* nothing any more.
Round(t) == Responses!StartNext(Responses!CloseActive(t))
Settled(t) == IF t.active = 0 THEN NoneToStart(t) ELSE ~t.queue[t.active].done

LEMMA RoundKept ==
  ASSUME NEW c, NEW s, ResponsesMid(c, s), ~s.textOpen, ~s.thinkingOpen
  PROVE  LET t == Round(s) IN
         /\ ResponsesMid(c, t) /\ QueueKept(s, t)
         /\ Settled(s) => Settled(t)
         /\ Settled(t) \/ t.active > s.active
<1> DEFINE m == Responses!CloseActive(s)
           t == Responses!StartNext(m)
           i == s.active
<1>1. /\ ResponsesMid(c, m) /\ QueueKept(s, m)
      /\ \A j \in DOMAIN s.queue : s.queue[j].closed => m.queue[j].closed
      /\ IF i # 0 /\ s.queue[i].done THEN m.active = 0 /\ m.queue[i].closed
         ELSE m.active = i
  BY ActiveClosed
<1>2. i = 0 => m = s
  BY ResponsesFrames DEF Responses!CloseActive, Responses!append_buffered_arguments
<1>3. ~m.textOpen /\ ~m.thinkingOpen /\ DOMAIN m.queue = DOMAIN s.queue
      /\ \A j \in DOMAIN s.queue : m.queue[j].done = s.queue[j].done
  BY <1>1 DEF QueueKept
<1> HIDE DEF m
<1>4. /\ ResponsesMid(c, t) /\ QueueKept(m, t)
      /\ \A j \in DOMAIN m.queue : t.queue[j].closed = m.queue[j].closed
      /\ m.active # 0 => t = m
      /\ m.active = 0 /\ NoneToStart(m) => t = m
      /\ m.active = 0 /\ ~NoneToStart(m) => t.active # 0
  BY <1>1, <1>3, NextStarted
<1> HIDE DEF t
<1>5. QueueKept(s, t)
  BY <1>1, <1>4, QueueKeptTwice
<1>6. i \in Nat /\ t.active \in Nat
  BY <1>4 DEF ResponsesMid, ResponsesStates
<1>7. CASE i # 0 /\ ~s.queue[i].done
  <2>1. t = m /\ m.active = i /\ i \in DOMAIN s.queue
    BY <1>1, <1>4, <1>7 DEF ResponsesMid, Exclusive, ActiveCall
  <2>2. Settled(t)
    BY <1>3, <1>7, <2>1 DEF Settled
  <2>3. QED
    BY <1>4, <1>5, <2>2 DEF Round, t, m
<1>8. CASE i = 0
  <2>1. m = s
    BY <1>2, <1>8
  <2>2. CASE NoneToStart(s)
    <3>1. t = s
      BY <1>4, <1>8, <2>1, <2>2
    <3>2. Settled(t)
      BY <1>8, <2>2, <3>1 DEF Settled
    <3>3. QED
      BY <1>4, <1>5, <3>2 DEF Round, t, m
  <2>3. CASE ~NoneToStart(s)
    <3>1. t.active > i /\ ~Settled(s)
      BY <1>4, <1>6, <1>8, <2>1, <2>3 DEF Settled
    <3>2. QED
      BY <1>4, <1>5, <3>1 DEF Round, t, m
  <2>4. QED
    BY <2>2, <2>3
<1>9. CASE i # 0 /\ s.queue[i].done
  <2>1. m.active = 0 /\ m.queue[i].closed /\ ~Settled(s)
    BY <1>1, <1>9 DEF Settled
  <2>2. \A j \in DOMAIN s.queue : j < i => m.queue[j].closed
    BY <1>1, <1>9 DEF ResponsesMid, Exclusive, ActiveCall
  <2>3. CASE NoneToStart(m)
    <3>1. t = m
      BY <1>4, <2>1, <2>3
    <3>2. Settled(t)
      BY <2>1, <2>3, <3>1 DEF Settled
    <3>3. QED
      BY <1>4, <1>5, <3>2 DEF Round, t, m
  <2>4. CASE ~NoneToStart(m)
    <3>1. t.active # 0
      BY <1>4, <2>1, <2>4
    <3>2. t.active \in DOMAIN s.queue /\ ~t.queue[t.active].closed
      BY <1>4, <1>5, <3>1 DEF ResponsesMid, Exclusive, ActiveCall, QueueKept
    <3>3. ~m.queue[t.active].closed
      BY <1>3, <1>4, <3>2
    <3>4. ~(t.active < i) /\ t.active # i
      BY <2>1, <2>2, <3>2, <3>3
    <3>5. t.active > i
      BY <1>6, <3>4
    <3>6. QED
      BY <1>4, <1>5, <2>1, <3>5 DEF Round, t, m
  <2>5. QED
    BY <2>3, <2>4
<1>10. QED
  BY <1>7, <1>8, <1>9

\* When the rounds are over a call that is shown is one that is not done.
LEMMA QueueShown ==
  ASSUME NEW c, NEW s, ResponsesMid(c, s), ~s.textOpen, ~s.thinkingOpen
  PROVE  LET t == Responses!append_function_call_queue(s) IN
         /\ ResponsesMid(c, t) /\ QueueKept(s, t)
         /\ t.active # 0 => ~t.queue[t.active].done
<1> DEFINE S == {t \in ResponsesStates : ResponsesMid(c, t) /\ QueueKept(s, t)}
           n == Len(s.queue) + 1
           q == [i \in 1..n |-> i]
           step == [p \in S \X (1..n) |-> Round(p[1])]
           IsFold(it) == it = [u \in SUBSET DOMAIN q |->
                                 IF u = {} THEN s ELSE Round(it[u \ {Max(u)}])]
           fold == CHOOSE it : IsFold(it)
<1>1. s \in S
  BY DEF ResponsesMid, QueueKept
<1>2. Responses!append_function_call_queue(s) = fold[DOMAIN q]
  BY DEF Responses!append_function_call_queue, Round, Responses!FoldLeft,
         Responses!MapThenFoldSet, Responses!Max, Max
<1>3. n \in Nat \ {0} /\ DOMAIN q = 1..n /\ DOMAIN s.queue = 1..(n - 1)
  BY DEF ResponsesMid, ResponsesStates
<1> HIDE DEF q, n
<1>4. ASSUME NEW t \in S
      PROVE  /\ Round(t) \in S
             /\ Settled(t) => Settled(Round(t))
             /\ Settled(Round(t)) \/ Round(t).active > t.active
  <2>1. ResponsesMid(c, t) /\ QueueKept(s, t) /\ ~t.textOpen /\ ~t.thinkingOpen
    BY DEF QueueKept
  <2> DEFINE u == Round(t)
  <2>2. /\ ResponsesMid(c, u) /\ QueueKept(t, u)
        /\ Settled(t) => Settled(u)
        /\ Settled(u) \/ u.active > t.active
    BY <2>1, RoundKept
  <2> HIDE DEF u
  <2>3. QueueKept(s, u)
    BY <2>1, <2>2, QueueKeptTwice
  <2>4. u \in S
    BY <2>2, <2>3 DEF ResponsesMid
  <2>5. QED
    BY <2>2, <2>4 DEF u
<1>5. IsFold(fold)
  <2>1. step \in [S \X (1..n) -> S]
    BY <1>4
  <2>2. PICK g \in [SUBSET (1..n) -> S] : Staged(n, g, s, step)
    BY <1>1, <1>3, <2>1, StagesExist
  <2>3. \A t \in S, k \in 1..n : step[<<t, k>>] = Round(t)
    OBVIOUS
  <2> HIDE DEF step
  <2>4. \A u \in SUBSET (1..n) : u # {} =>
          step[<<g[u \ {Max(u)}], Max(u)>>] = Round(g[u \ {Max(u)}])
    BY <1>3, <2>3, FirstNumbers
  <2>5. \A u \in SUBSET (1..n) :
          g[u] = IF u = {} THEN s ELSE Round(g[u \ {Max(u)}])
    BY <2>2, <2>4 DEF Staged
  <2>6. IsFold(g)
    BY <1>3, <2>5
  <2>7. QED
    BY <2>6
<1> HIDE DEF fold
<1>6. fold[{}] = s
  <2>1. {} \in SUBSET (DOMAIN q)
    OBVIOUS
  <2>2. QED
    BY <1>5, <2>1
<1>7. \A k \in 1..n : fold[1..k] = Round(fold[1..(k - 1)])
  <2>1. TAKE k \in 1..n
  <2> DEFINE all == 1..k
             less == 1..(k - 1)
  <2>2. all \in SUBSET (1..n) /\ all # {} /\ Max(all) = k /\ all \ {k} = less
    BY <1>3, FirstNumbers
  <2> HIDE DEF all, less
  <2>3. fold[all] = Round(fold[all \ {Max(all)}])
    BY <1>3, <1>5, <2>2
  <2>4. QED
    BY <2>2, <2>3 DEF all, less
<1> DEFINE Ahead(t, k) == Settled(t) \/ t.active >= k
           P == {k \in 0..n : fold[1..k] \in S /\ Ahead(fold[1..k], k)}
<1>8. 0 \in P
  <2>1. s.active >= 0
    BY DEF ResponsesMid, ResponsesStates
  <2>2. QED
    BY <1>1, <1>3, <1>6, <2>1, FirstNumbers
<1>9. ASSUME NEW k \in 1..n, k - 1 \in P PROVE k \in P
  <2> DEFINE t == fold[1..(k - 1)]
             u == Round(t)
  <2>1. t \in S /\ Ahead(t, k - 1) /\ fold[1..k] = u
    BY <1>7, <1>9
  <2> HIDE DEF t
  <2>2. u \in S /\ (Settled(t) => Settled(u)) /\ (Settled(u) \/ u.active > t.active)
    BY <1>4, <2>1
  <2>3. u.active \in Nat /\ t.active \in Nat
    BY <2>1, <2>2 DEF ResponsesStates
  <2> HIDE DEF u
  <2>4. Ahead(u, k)
    BY <2>1, <2>2, <2>3
  <2>5. QED
    BY <1>3, <2>1, <2>2, <2>4
<1> HIDE DEF P
<1>10. n \in P
  BY <1>3, <1>8, <1>9, LastStage
<1> DEFINE t == fold[1..n]
<1>11. ResponsesMid(c, t) /\ QueueKept(s, t) /\ Ahead(t, n)
       /\ Responses!append_function_call_queue(s) = t
  BY <1>2, <1>3, <1>10 DEF P
<1> HIDE DEF t
<1>12. t.active # 0 => ~t.queue[t.active].done
  <2>1. t.active # 0 => t.active \in DOMAIN t.queue /\ DOMAIN t.queue = 1..(n - 1)
    BY <1>3, <1>11 DEF ResponsesMid, Exclusive, ActiveCall, QueueKept
  <2>2. t.active # 0 => ~(t.active >= n)
    BY <1>3, <2>1
  <2>3. QED
    BY <1>11, <2>2 DEF Settled
<1>13. QED
  BY <1>11, <1>12

\* There is nothing to show of an empty queue.
LEMMA EmptyQueueShown ==
  ASSUME NEW s \in ResponsesStates, s.queue = << >>, s.active = 0
  PROVE  Responses!append_function_call_queue(s) = s
<1> DEFINE n == Len(s.queue) + 1
           q == [i \in 1..n |-> i]
           IsFold(it) == it = [u \in SUBSET DOMAIN q |->
                                 IF u = {} THEN s ELSE Round(it[u \ {Max(u)}])]
           fold == CHOOSE it : IsFold(it)
<1>1. Responses!append_function_call_queue(s) = fold[DOMAIN q]
  BY DEF Responses!append_function_call_queue, Round, Responses!FoldLeft,
         Responses!MapThenFoldSet, Responses!Max, Max
<1>2. n = 1 /\ DOMAIN q = 1..1
  OBVIOUS
<1>3. Round(s) = s
  <2>1. Responses!CloseActive(s) = s
    BY ResponsesFrames DEF Responses!CloseActive, Responses!append_buffered_arguments
  <2>2. Responses!StartNext(s) = s
    BY DEF Responses!StartNext
  <2>3. QED
    BY <2>1, <2>2 DEF Round
<1> HIDE DEF q, n
<1> DEFINE g == [u \in SUBSET (1..1) |-> s]
<1>4. \A u \in SUBSET (1..1) : u \ {Max(u)} \in SUBSET (1..1)
  OBVIOUS
<1>5. IsFold(g)
  BY <1>2, <1>3, <1>4
<1>6. IsFold(fold)
  <2> HIDE DEF IsFold, g
  <2>1. QED
    BY <1>5
<1> HIDE DEF fold
<1>7. /\ 1..1 \in SUBSET (1..1) /\ {} \in SUBSET (1..1) /\ 1..1 # {}
      /\ Max(1..1) = 1 /\ (1..1) \ {1} = {}
  <2>1. 1 \in Nat /\ 1 \in 1..1 /\ 1..0 = {} /\ 1 - 1 = 0
    OBVIOUS
  <2>2. QED
    BY <2>1, FirstNumbers
<1>8. fold[{}] = s
  BY <1>2, <1>6, <1>7
<1>9. fold[1..1] = Round(fold[{}])
  <2>1. fold[1..1] = Round(fold[(1..1) \ {Max(1..1)}])
    BY <1>2, <1>6, <1>7
  <2>2. QED
    BY <1>7, <2>1
<1>10. QED
  BY <1>1, <1>2, <1>3, <1>8, <1>9
-----------------------------------------------------------------------------
\* Items and the last event lead to calls in the queue.
Linked(s) ==
  /\ s.last \in 0..Len(s.queue)
  /\ \A k \in Items : s.calls[k] \in 0..Len(s.queue)

\* A call that has a name and is not done is that of an item of open, which are the
\* tool calls the upstream is not done with.
Expected(s, open) ==
  \A i \in DOMAIN s.queue :
    s.queue[i].name # 0 /\ ~s.queue[i].done => \E k \in open \cap Items : s.calls[k] = i

Live(c, s, open) ==
  /\ ResponsesMid(c, s) /\ s.started /\ ~s.finished
  /\ Linked(s) /\ Expected(s, open)

\* A call that is shown while the next event is awaited is not done.
Stuck(s) == s.active # 0 => ~s.queue[s.active].done

LEMMA LiveWithMore ==
  ASSUME NEW c, NEW s, NEW open, NEW more, Live(c, s, open), open \subseteq more
  PROVE  Live(c, s, more)
BY DEF Live, Expected

LEMMA LiveByQueue ==
  ASSUME NEW c, NEW s, NEW t, NEW open, Live(c, s, open), ResponsesMid(c, t),
         QueueKept(s, t)
  PROVE  Live(c, t, open)
<1>1. Linked(t)
  BY DEF Live, Linked, QueueKept
<1>2. Expected(t, open)
  BY DEF Live, Expected, QueueKept
<1>3. QED
  BY <1>1, <1>2 DEF Live, QueueKept

LEMMA LiveByCalls ==
  ASSUME NEW c, NEW s, NEW t, NEW open, Live(c, s, open), ResponsesMid(c, t),
         t.calls = s.calls, t.queue = s.queue, t.last = s.last,
         t.started = s.started, t.finished = s.finished
  PROVE  Live(c, t, open)
BY DEF Live, Linked, Expected

\* The call an event is about is found, or begun at the end of the queue.
LEMMA Recorded ==
  ASSUME NEW c, NEW s, NEW open, Live(c, s, open), NEW key \in Items \cup {0}
  PROVE  LET t == Responses!record_function_call(s, key) IN
         /\ Live(c, t, open)
         /\ t.last \in DOMAIN t.queue /\ QueueOnly(s, t)
         /\ \A i \in DOMAIN s.queue : i \in DOMAIN t.queue /\ t.queue[i] = s.queue[i]
         /\ t.last \notin DOMAIN s.queue => ~t.queue[t.last].closed
         /\ key # 0 => t.calls[key] = t.last
         /\ \A k \in Items : s.calls[k] # 0 \/ k # key => t.calls[k] = s.calls[k]
         /\ t.queue[t.last] \in QueuedCalls
<1> DEFINE t == Responses!record_function_call(s, key)
           known == IF key = 0 THEN s.last ELSE s.calls[key]
           n == Len(s.queue)
           i == IF known = 0 THEN n + 1 ELSE known
           more == Append(s.queue, Responses!NoCall)
           q == IF known = 0 THEN more ELSE s.queue
           calls == [k \in Items |-> IF k = key THEN i ELSE s.calls[k]]
<1>1. /\ s \in ResponsesStates /\ s.queue \in Seq(QueuedCalls) /\ n \in Nat
      /\ s.calls \in [Items -> Nat] /\ DOMAIN s.queue = 1..n /\ 0 \notin Items
  BY SizeAssumption DEF Live, ResponsesMid, ResponsesStates, Items
<1>2. Responses!Items = Items
  BY DEF Responses!Items, Items
<1>3. t = [s EXCEPT !.queue = q, !.last = i, !.calls = calls]
  BY <1>1, <1>2, ResponsesFrames DEF Responses!record_function_call, ResponsesStates
<1>4. known \in 0..n
  BY <1>1 DEF Live, Linked
<1> HIDE DEF known
<1>5. Responses!NoCall \in QueuedCalls /\ ~Responses!NoCall.closed
      /\ Responses!NoCall.name = 0
  BY ResponsesFrames DEF Responses!NoCall, QueuedCalls, Parts
<1>6. /\ more \in Seq(QueuedCalls) /\ DOMAIN more = 1..(n + 1) /\ Len(more) = n + 1
      /\ \A j \in 1..n : more[j] = s.queue[j]
      /\ more[n + 1] = Responses!NoCall
  BY <1>1, <1>5
<1> HIDE DEF more, n
<1>7. /\ q \in Seq(QueuedCalls) /\ Len(q) \in Nat /\ DOMAIN q = 1..Len(q)
      /\ Len(q) = IF known = 0 THEN n + 1 ELSE n
      /\ \A j \in 1..n : j \in DOMAIN q /\ q[j] = s.queue[j]
      /\ i \in DOMAIN q /\ i \in Nat /\ i # 0
      /\ i \notin 1..n => ~q[i].closed
      /\ \A j \in DOMAIN q : j \notin 1..n => q[j].name = 0 /\ \A k \in 1..n : k < j
  <2>1. CASE known = 0
    <3>1. i = n + 1 /\ q = more
      BY <2>1
    <3>2. \A j \in 1..(n + 1) : j \notin 1..n => j = n + 1
      BY <1>1
    <3>3. \A k \in 1..n : k < n + 1 /\ k \in 1..(n + 1)
      BY <1>1
    <3>4. QED
      BY <1>1, <1>5, <1>6, <2>1, <3>1, <3>2, <3>3
  <2>2. CASE known # 0
    <3>1. i = known /\ q = s.queue /\ i \in 1..n /\ n = Len(s.queue)
      BY <1>1, <1>4, <2>2 DEF n
    <3>2. QED
      BY <1>1, <2>2, <3>1
  <2>3. QED
    BY <2>1, <2>2
<1>8. /\ calls \in [Items -> Nat]
      /\ key # 0 => calls[key] = i
      /\ \A k \in Items : s.calls[k] # 0 \/ k # key => calls[k] = s.calls[k]
  <2>1. \A k \in Items : k = key /\ s.calls[k] # 0 => i = s.calls[k]
    BY <1>1 DEF known
  <2>2. QED
    BY <1>1, <1>7, <2>1
<1>9. \A k \in Items : calls[k] \in 0..Len(q)
  <2>1. \A k \in Items : s.calls[k] \in 0..n
    BY DEF Live, Linked, n
  <2>2. i \in 0..Len(q) /\ \A x \in 0..n : x \in 0..Len(q)
    BY <1>1, <1>7
  <2>3. QED
    BY <2>1, <2>2
<1> HIDE DEF q, i, calls, t
<1>10. t \in ResponsesStates
  BY <1>1, <1>3, <1>7, <1>8 DEF ResponsesStates
<1>11. t.queue = q /\ t.last = i /\ t.calls = calls /\ QueueOnly(s, t)
  BY <1>1, <1>3 DEF ResponsesStates, QueueOnly
<1>12. ResponsesMid(c, t)
  <2>1. \A j \in DOMAIN s.queue : j \in DOMAIN t.queue /\ CallGoesOn(s.queue[j], t.queue[j])
    BY <1>1, <1>7, <1>11 DEF CallGoesOn
  <2>2. \A j \in DOMAIN t.queue \ DOMAIN s.queue : \A k \in DOMAIN s.queue : k < j
    BY <1>1, <1>7, <1>11
  <2>3. QED
    BY <1>10, <1>11, <2>1, <2>2, QueueChanged DEF Live
<1>13. Linked(t)
  BY <1>7, <1>9, <1>11 DEF Linked
<1>14. Expected(t, open)
  <2>1. SUFFICES ASSUME NEW j \in DOMAIN t.queue, t.queue[j].name # 0, ~t.queue[j].done
                 PROVE  \E k \in open \cap Items : t.calls[k] = j
    BY DEF Expected
  <2>2. j \in 1..n /\ t.queue[j] = s.queue[j]
    BY <1>7, <1>11, <2>1
  <2>3. PICK k \in open \cap Items : s.calls[k] = j
    BY <1>1, <2>1, <2>2 DEF Live, Expected
  <2>4. j # 0
    BY <1>1, <2>2
  <2>5. t.calls[k] = j
    BY <1>8, <1>11, <2>3, <2>4
  <2>6. QED
    BY <2>5
<1>15. Live(c, t, open)
  BY <1>11, <1>12, <1>13, <1>14 DEF Live, QueueOnly
<1>16. q[i] \in QueuedCalls
  BY <1>7
<1>17. QED
  BY <1>1, <1>7, <1>8, <1>11, <1>15, <1>16 DEF t

\* The call the last event was about is changed.
LEMMA LastCallChanged ==
  ASSUME NEW c, NEW s, ResponsesMid(c, s), Linked(s), s.last \in DOMAIN s.queue,
         NEW call \in QueuedCalls, CallGoesOn(s.queue[s.last], call)
  PROVE  LET t == [s EXCEPT !.queue = [s.queue EXCEPT ![s.last] = call]] IN
         /\ ResponsesMid(c, t) /\ Linked(t) /\ QueueOnly(s, t)
         /\ t.calls = s.calls /\ t.last = s.last /\ DOMAIN t.queue = DOMAIN s.queue
         /\ \A j \in DOMAIN s.queue :
              t.queue[j] = IF j = s.last THEN call ELSE s.queue[j]
<1> DEFINE queue == [s.queue EXCEPT ![s.last] = call]
           t == [s EXCEPT !.queue = queue]
<1>1. s \in ResponsesStates
  BY DEF ResponsesMid
<1>2. /\ queue \in Seq(QueuedCalls) /\ DOMAIN queue = DOMAIN s.queue
      /\ Len(queue) = Len(s.queue)
      /\ \A j \in DOMAIN s.queue : queue[j] = IF j = s.last THEN call ELSE s.queue[j]
  BY <1>1 DEF ResponsesStates
<1> HIDE DEF queue
<1>3. t \in ResponsesStates
  BY <1>1, <1>2 DEF ResponsesStates
<1>4. t.queue = queue /\ t.calls = s.calls /\ t.last = s.last /\ QueueOnly(s, t)
  BY <1>1 DEF ResponsesStates, QueueOnly
<1> HIDE DEF t
<1>5. \A j \in DOMAIN s.queue :
        j \in DOMAIN t.queue /\ CallGoesOn(s.queue[j], t.queue[j])
  BY <1>2, <1>4 DEF CallGoesOn
<1>6. DOMAIN t.queue \ DOMAIN s.queue = {}
  BY <1>2, <1>4
<1>7. ResponsesMid(c, t)
  BY <1>3, <1>4, <1>5, <1>6, QueueChanged
<1>8. Linked(t)
  BY <1>2, <1>4 DEF Linked
<1>9. QED
  BY <1>2, <1>4, <1>7, <1>8 DEF t, queue

\* A call is edited by an event about the item that is key.
EditFits(s, key, a, call, open, then) ==
  LET old == a.queue[a.last] IN
  /\ key \in Items \cup {0} /\ a = Responses!record_function_call(s, key)
  /\ call \in QueuedCalls /\ CallGoesOn(old, call) /\ open \ {key} \subseteq then
  /\ \/ call.done
     \/ key # 0 /\ key \in then
     \/ call.name = old.name /\ call.done = old.done /\ open \subseteq then

Edited(a, call) == [a EXCEPT !.queue = [a.queue EXCEPT ![a.last] = call]]

LEMMA CallEdited ==
  ASSUME NEW c, NEW s, NEW open, NEW then, Live(c, s, open), NEW key, NEW a, NEW call,
         EditFits(s, key, a, call, open, then)
  PROVE  LET b == Edited(a, call) IN
         /\ Live(c, b, then)
         /\ b.textOpen = s.textOpen /\ b.thinkingOpen = s.thinkingOpen
         /\ call.done = a.queue[a.last].done /\ Stuck(s) => Stuck(b)
<1> USE DEF Edited, EditFits
<1> DEFINE queue == [a.queue EXCEPT ![a.last] = call]
           b == [a EXCEPT !.queue = queue]
<1>1. /\ Live(c, a, open)
      /\ a.last \in DOMAIN a.queue /\ QueueOnly(s, a)
      /\ \A i \in DOMAIN s.queue : i \in DOMAIN a.queue /\ a.queue[i] = s.queue[i]
      /\ key # 0 => a.calls[key] = a.last
  BY Recorded
<1>2. /\ ResponsesMid(c, b) /\ Linked(b) /\ QueueOnly(a, b)
      /\ b.calls = a.calls /\ b.last = a.last /\ DOMAIN b.queue = DOMAIN a.queue
      /\ \A j \in DOMAIN a.queue : b.queue[j] = IF j = a.last THEN call ELSE a.queue[j]
  BY <1>1, LastCallChanged DEF Live
<1> HIDE DEF b
<1>3. Expected(b, then)
  <2>1. SUFFICES ASSUME NEW j \in DOMAIN b.queue, b.queue[j].name # 0, ~b.queue[j].done
                 PROVE  \E k \in then \cap Items : b.calls[k] = j
    BY DEF Expected
  <2>2. CASE j # a.last
    <3>1. PICK k \in open \cap Items : a.calls[k] = j
      BY <1>1, <1>2, <2>1, <2>2 DEF Live, Expected
    <3>2. k # key
      BY <1>1, <2>2, <3>1 DEF Items
    <3>3. k \in then \cap Items /\ b.calls[k] = j
      BY <1>2, <3>1, <3>2
    <3>4. QED
      BY <3>3
  <2>3. CASE j = a.last
    <3>1. b.queue[j] = call
      BY <1>1, <1>2, <2>3
    <3>2. CASE key # 0 /\ key \in then
      <4>1. key \in then \cap Items /\ b.calls[key] = j
        BY <1>1, <1>2, <2>3, <3>2
      <4>2. QED
        BY <4>1
    <3>3. CASE /\ call.name = a.queue[a.last].name /\ call.done = a.queue[a.last].done
               /\ open \subseteq then
      <4>1. PICK k \in open \cap Items : a.calls[k] = j
        BY <1>1, <2>1, <2>3, <3>1, <3>3 DEF Live, Expected
      <4>2. k \in then \cap Items /\ b.calls[k] = j
        BY <1>2, <3>3, <4>1
      <4>3. QED
        BY <4>2
    <3>4. QED
      BY <2>1, <3>1, <3>2, <3>3
  <2>4. QED
    BY <2>2, <2>3
<1>4. Live(c, b, then)
  BY <1>1, <1>2, <1>3 DEF Live, QueueOnly
<1>5. /\ b.textOpen = s.textOpen /\ b.thinkingOpen = s.thinkingOpen
      /\ b.active = s.active
  BY <1>1, <1>2 DEF QueueOnly
<1>6. ASSUME call.done = a.queue[a.last].done, Stuck(s) PROVE Stuck(b)
  <2>1. SUFFICES ASSUME s.active # 0 PROVE ~b.queue[s.active].done
    BY <1>5 DEF Stuck
  <2>2. s.active \in DOMAIN s.queue
    BY <2>1 DEF Live, ResponsesMid, Exclusive, ActiveCall
  <2>3. ~a.queue[s.active].done /\ s.active \in DOMAIN a.queue
    BY <1>1, <1>6, <2>1, <2>2 DEF Stuck
  <2>4. QED
    BY <1>2, <1>6, <2>3
<1>7. QED
  BY <1>4, <1>5, <1>6 DEF b

LEMMA WholeParts ==
  ASSUME NEW call \in QueuedCalls, NEW args \in Parts
  PROVE  Responses!Whole(call, args) \in Parts
BY DEF Responses!Whole, QueuedCalls

\* Arguments are shown as far as the call they are of is.
LEMMA ArgumentsKept ==
  ASSUME NEW c, NEW s, NEW open, Live(c, s, open), Stuck(s), NEW ev \in Events,
         ev.key \in Items \cup {0}
  PROVE  /\ Live(c, Responses!ArgumentsDelta(s, ev), open)
         /\ Stuck(Responses!ArgumentsDelta(s, ev))
         /\ Live(c, Responses!ArgumentsDone(s, ev), open)
         /\ Stuck(Responses!ArgumentsDone(s, ev))
<1> DEFINE a == Responses!record_function_call(s, ev.key)
           old == a.queue[a.last]
           longer == old.args \o ev.parts
           whole == Responses!Whole(old, ev.parts)
           x == [old EXCEPT !.args = longer, !.received = TRUE]
           y == [old EXCEPT !.args = whole]
           Edit(call) == Edited(a, call)
<1>1. Live(c, a, open) /\ old \in QueuedCalls
  BY Recorded
<1>2. ev.parts \in Parts /\ old.args \in Parts /\ a \in ResponsesStates
  BY <1>1 DEF Events, QueuedCalls, Live, ResponsesMid
<1>3. longer \in Parts /\ whole \in Parts
  BY <1>1, <1>2, ChatPieces, WholeParts
<1>4. Responses!ArgumentsDelta(s, ev) = Responses!append_buffered_arguments(Edit(x))
  BY Zenon DEF Responses!ArgumentsDelta, Edited
<1>5. Responses!ArgumentsDone(s, ev) = Responses!append_buffered_arguments(Edit(y))
  BY Zenon DEF Responses!ArgumentsDone, Edited
<1> HIDE DEF longer, whole
<1>6. /\ x \in QueuedCalls /\ CallGoesOn(old, x) /\ x.name = old.name /\ x.done = old.done
      /\ y \in QueuedCalls /\ CallGoesOn(old, y) /\ y.name = old.name /\ y.done = old.done
  <2> HIDE DEF old
  <2>1. QED
    BY <1>1, <1>3 DEF QueuedCalls, CallGoesOn
<1> HIDE DEF x, y
<1>7. ASSUME NEW call \in QueuedCalls, CallGoesOn(old, call), call.name = old.name,
             call.done = old.done
      PROVE  LET t == Responses!append_buffered_arguments(Edit(call)) IN
             Live(c, t, open) /\ Stuck(t)
  <2> DEFINE b == Edit(call)
             t == Responses!append_buffered_arguments(b)
  <2>1. Live(c, b, open) /\ Stuck(b)
    <3>1. EditFits(s, ev.key, a, call, open, open)
      BY <1>7 DEF EditFits
    <3> HIDE DEF a
    <3>2. QED
      BY <1>7, <3>1, CallEdited
  <2> HIDE DEF b
  <2>2. ResponsesMid(c, t) /\ QueueKept(b, t) /\ t.active = b.active
    BY <2>1, ArgumentsShown DEF Live
  <2> HIDE DEF t
  <2>3. Live(c, t, open)
    BY <2>1, <2>2, LiveByQueue
  <2>4. Stuck(t)
    BY <2>1, <2>2 DEF Stuck, QueueKept, Live, ResponsesMid, Exclusive, ActiveCall
  <2>5. QED
    BY <2>3, <2>4 DEF t, b
<1>8. QED
  BY <1>4, <1>5, <1>6, <1>7

\* An item that is a call is shown when those before it are closed.
LEMMA CallAdded ==
  ASSUME NEW c, NEW s, NEW open, Live(c, s, open), NEW ev \in Events,
         ev.kind \in CallKinds, ev.key \in Items
  PROVE  LET t == Responses!ItemAdded(s, ev) IN
         Live(c, t, open \cup {ev.key}) /\ Stuck(t)
<1> DEFINE m == Responses!stop_text(Responses!finalize_thinking(s))
           s0 == [m EXCEPT !.commentary = FALSE]
           a == Responses!record_function_call(s0, ev.key)
           old == a.queue[a.last]
           name == IF ev.name = 0 THEN old.name ELSE ev.name
           custom == ev.kind = "custom"
           call == [old EXCEPT !.name = name, !.custom = custom]
           b == Edited(a, call)
           t == Responses!append_function_call_queue(b)
           then == open \cup {ev.key}
<1>1. ResponsesMid(c, s0) /\ CallsKept(s, s0) /\ ~s0.textOpen /\ ~s0.thinkingOpen
  <2> DEFINE l == Responses!finalize_thinking(s)
  <2>1. ResponsesMid(c, l) /\ CallsKept(s, l) /\ ~l.thinkingOpen
    BY ThinkingFinal DEF Live
  <2> HIDE DEF l
  <2>2. ResponsesMid(c, m) /\ CallsKept(l, m) /\ ~m.thinkingOpen /\ ~m.textOpen
    BY <2>1, TextStopped DEF l
  <2> HIDE DEF m
  <2>3. Remembers(m, s0, s0.commentary)
    <3>1. m \in ResponsesStates
      BY <2>2 DEF ResponsesMid
    <3>2. QED
      BY <3>1 DEF Remembers, ResponsesStates, BlocksKept, CallsKept
  <2> HIDE DEF s0
  <2>4. ResponsesMid(c, s0) /\ CallsKept(m, s0) /\ ~s0.textOpen /\ ~s0.thinkingOpen
    BY <2>2, <2>3, RemembersKept
  <2>5. QED
    BY <2>1, <2>2, <2>4, CallsKeptTwice
<1>2. Responses!ItemAdded(s, ev)
        = Responses!append_function_call_queue(
            [a EXCEPT !.queue[a.last].name = IF ev.name = 0 THEN @ ELSE ev.name,
                      !.queue[a.last].custom = custom])
  BY ResponsesFrames, Zenon DEF Responses!ItemAdded, CallKinds
<1> HIDE DEF s0
<1>3. Live(c, s0, open)
  BY <1>1, LiveByCalls DEF CallsKept
<1>4. Live(c, a, open) /\ old \in QueuedCalls /\ a \in ResponsesStates
      /\ a.last \in DOMAIN a.queue
  BY <1>3, Recorded DEF Live, ResponsesMid
<1>5. Responses!ItemAdded(s, ev) = t
  <2> HIDE DEF a
  <2>1. [a EXCEPT !.queue[a.last].name = IF ev.name = 0 THEN @ ELSE ev.name,
                  !.queue[a.last].custom = custom] = b
    BY <1>4 DEF ResponsesStates, QueuedCalls, Edited
  <2>2. QED
    BY <1>2, <2>1
<1>6. name \in Int /\ custom \in BOOLEAN /\ (old.name # 0 => name # 0)
  BY <1>4 DEF Events, QueuedCalls
<1>7. call \in QueuedCalls /\ CallGoesOn(old, call)
  <2> HIDE DEF old, name, custom
  <2>1. QED
    BY <1>4, <1>6 DEF QueuedCalls, CallGoesOn
<1>8. ev.key # 0 /\ ev.key \in then /\ open \ {ev.key} \subseteq then
  BY DEF Items
<1> HIDE DEF call, then
<1>9. /\ Live(c, b, then)
      /\ b.textOpen = s0.textOpen /\ b.thinkingOpen = s0.thinkingOpen
  <2>1. EditFits(s0, ev.key, a, call, open, then)
    BY <1>7, <1>8 DEF EditFits
  <2> HIDE DEF a
  <2>2. QED
    BY <1>3, <2>1, CallEdited
<1> HIDE DEF b
<1>10. ResponsesMid(c, t) /\ QueueKept(b, t) /\ Stuck(t)
  BY <1>1, <1>9, QueueShown DEF Live, Stuck
<1>11. Live(c, t, then)
  BY <1>9, <1>10, LiveByQueue
<1> HIDE DEF t
<1>12. QED
  BY <1>5, <1>10, <1>11 DEF then

\* A call that is done has its arguments as a whole.
LEMMA CallFinished ==
  ASSUME NEW c, NEW s, NEW open, Live(c, s, open), NEW ev \in Events,
         ev.kind \in CallKinds, ev.key \in Items
  PROVE  LET t == Responses!ItemDone(s, ev) IN
         Live(c, t, open \ {ev.key}) /\ Stuck(t)
<1> DEFINE r == [s EXCEPT !.sawItem = TRUE]
           s0 == Responses!stop_text(Responses!finalize_thinking(r))
           a == Responses!record_function_call(s0, ev.key)
           old == a.queue[a.last]
           custom == ev.kind = "custom"
           whole == Responses!Whole(old, ev.parts)
           call == [old EXCEPT !.name = ev.key, !.custom = custom, !.done = TRUE,
                               !.args = whole]
           b == Edited(a, call)
           t == Responses!append_function_call_queue(b)
           then == open \ {ev.key}
<1>1. ResponsesMid(c, s0) /\ CallsKept(s, s0) /\ ~s0.textOpen /\ ~s0.thinkingOpen
  <2> DEFINE l == Responses!finalize_thinking(r)
  <2>1. Remembers(s, r, s.commentary) /\ (s.textOpen => ~s.commentary)
    <3>1. s \in ResponsesStates /\ (s.textOpen => ~s.commentary)
      BY DEF Live, ResponsesMid, Exclusive
    <3>2. Remembers(s, r, s.commentary)
      BY <3>1 DEF Remembers, ResponsesStates, BlocksKept, CallsKept
    <3>3. QED
      BY <3>1, <3>2
  <2> HIDE DEF r
  <2>2. ResponsesMid(c, r) /\ CallsKept(s, r)
    BY <2>1, RemembersKept DEF Live
  <2>3. ResponsesMid(c, l) /\ CallsKept(r, l) /\ ~l.thinkingOpen
    BY <2>2, ThinkingFinal
  <2> HIDE DEF l
  <2>4. ResponsesMid(c, s0) /\ CallsKept(l, s0) /\ ~s0.thinkingOpen /\ ~s0.textOpen
    BY <2>3, TextStopped DEF l
  <2> HIDE DEF s0
  <2>5. QED
    BY <2>2, <2>3, <2>4, CallsKeptTwice
<1>2. Responses!ItemDone(s, ev) = Responses!CallDone(r, ev)
  BY Zenon DEF Responses!ItemDone, CallKinds
<1>3. Responses!CallDone(r, ev) = Responses!append_function_call_queue(
        [a EXCEPT !.queue[a.last] = [@ EXCEPT !.name = ev.key, !.custom = custom,
                                              !.done = TRUE, !.args = whole]])
  BY Zenon DEF Responses!CallDone
<1> HIDE DEF s0
<1>4. Live(c, s0, open)
  BY <1>1, LiveByCalls DEF CallsKept
<1>5. Live(c, a, open) /\ old \in QueuedCalls /\ a \in ResponsesStates
      /\ a.last \in DOMAIN a.queue
  BY <1>4, Recorded DEF Live, ResponsesMid
<1>6. ev.key \in Int /\ ev.key # 0 /\ custom \in BOOLEAN /\ whole \in Parts
  BY <1>5, WholeParts DEF Events, Items
<1> HIDE DEF whole, custom
<1>7. Responses!ItemDone(s, ev) = t
  <2> HIDE DEF a
  <2>1. [a EXCEPT !.queue[a.last] = [@ EXCEPT !.name = ev.key, !.custom = custom,
                                              !.done = TRUE, !.args = whole]] = b
    BY <1>5 DEF ResponsesStates, Edited
  <2>2. QED
    BY <1>2, <1>3, <2>1
<1>8. call \in QueuedCalls /\ CallGoesOn(old, call) /\ call.done
  <2> HIDE DEF old
  <2>1. QED
    BY <1>5, <1>6 DEF QueuedCalls, CallGoesOn
<1> HIDE DEF call
<1>9. /\ Live(c, b, then)
      /\ b.textOpen = s0.textOpen /\ b.thinkingOpen = s0.thinkingOpen
  <2>1. EditFits(s0, ev.key, a, call, open, then)
    BY <1>8 DEF EditFits
  <2> HIDE DEF a, then
  <2>2. QED
    BY <1>4, <2>1, CallEdited
<1> HIDE DEF b
<1>10. ResponsesMid(c, t) /\ QueueKept(b, t) /\ Stuck(t)
  BY <1>1, <1>9, QueueShown DEF Live, Stuck
<1>11. Live(c, t, then)
  BY <1>9, <1>10, LiveByQueue
<1> HIDE DEF t
<1>12. QED
  BY <1>7, <1>10, <1>11
-----------------------------------------------------------------------------
(***************************************************************************)
(* Events, while the message goes on.                                      *)
(***************************************************************************)
LEMMA QuietKept ==
  ASSUME NEW c, NEW s, NEW open, Live(c, s, open), Stuck(s), NEW ev \in QuietEvents
  PROVE  LET t == Responses!process(s, ev) IN Live(c, t, open) /\ Stuck(t)
<1> DEFINE t == Responses!process(s, ev)
<1>1. /\ ResponsesMid(c, t)
      /\ t.calls = s.calls /\ t.queue = s.queue /\ t.active = s.active
      /\ t.last = s.last /\ t.started = s.started /\ t.finished = s.finished
  BY QuietProcessed DEF Live, Quietly, CallsKept
<1> HIDE DEF t
<1>2. Live(c, t, open)
  BY <1>1, LiveByCalls
<1>3. Stuck(t)
  BY <1>1 DEF Stuck
<1>4. QED
  BY <1>2, <1>3 DEF t

LEMMA CallEventKept ==
  ASSUME NEW c, NEW s, NEW open, Live(c, s, open), Stuck(s), NEW ev \in Events,
         ev.key \in Items \cup {0}
  PROVE  LET t == Responses!process(s, ev) IN
         /\ ev.type \in {"arguments.delta", "arguments.done"} =>
              Live(c, t, open) /\ Stuck(t)
         /\ ev.type = "item.added" /\ ev.kind \in CallKinds /\ ev.key # 0 =>
              Live(c, t, open \cup {ev.key}) /\ Stuck(t)
         /\ ev.type = "item.done" /\ ev.kind \in CallKinds /\ ev.key # 0 =>
              Live(c, t, open \ {ev.key}) /\ Stuck(t)
<1> DEFINE saw == s.sawDelta \/ Responses!is_meaningful_output_delta(ev)
           r == [s EXCEPT !.sawDelta = saw]
           t == Responses!process(s, ev)
<1>1. s \in ResponsesStates /\ ~s.finished
  BY DEF Live, ResponsesMid
<1>2. saw \in BOOLEAN
  BY <1>1 DEF ResponsesStates, Responses!is_meaningful_output_delta
<1>3. r = [s EXCEPT !.sawDelta = @ \/ Responses!is_meaningful_output_delta(ev)]
  BY <1>1 DEF ResponsesStates
<1> HIDE DEF saw
<1>4. Remembers(s, r, s.commentary) /\ (s.textOpen => ~s.commentary)
  <2>1. Remembers(s, r, s.commentary)
    BY <1>1, <1>2 DEF Remembers, ResponsesStates, BlocksKept, CallsKept
  <2>2. s.textOpen => ~s.commentary
    BY DEF Live, ResponsesMid, Exclusive
  <2>3. QED
    BY <2>1, <2>2
<1> HIDE DEF r
<1>5. ResponsesMid(c, r) /\ CallsKept(s, r)
  BY <1>4, RemembersKept DEF Live
<1>6. Live(c, r, open) /\ Stuck(r)
  BY <1>5, LiveByCalls DEF CallsKept, Stuck
<1>7. ASSUME \/ ev.type \in {"arguments.delta", "arguments.done"}
             \/ ev.type \in {"item.added", "item.done"} /\ ev.kind \in CallKinds
      PROVE  t = Responses!Handle(r, ev)
  <2>1. ~Responses!should_defer_stream_event(ev)
    BY <1>7 DEF Responses!should_defer_stream_event, CallKinds
  <2>2. QED
    BY <1>1, <1>3, <2>1, Zenon DEF Responses!process
<1> HIDE DEF t
<1>8. ASSUME ev.type = "arguments.delta" PROVE Live(c, t, open) /\ Stuck(t)
  <2>1. Responses!Handle(r, ev) = Responses!ArgumentsDelta(r, ev)
    BY <1>8, Zenon DEF Responses!Handle
  <2>2. QED
    BY <1>6, <1>7, <1>8, <2>1, ArgumentsKept
<1>9. ASSUME ev.type = "arguments.done" PROVE Live(c, t, open) /\ Stuck(t)
  <2>1. Responses!Handle(r, ev) = Responses!ArgumentsDone(r, ev)
    BY <1>9, Zenon DEF Responses!Handle
  <2>2. QED
    BY <1>6, <1>7, <1>9, <2>1, ArgumentsKept
<1>10. ASSUME ev.type = "item.added", ev.kind \in CallKinds, ev.key # 0
       PROVE  Live(c, t, open \cup {ev.key}) /\ Stuck(t)
  <2>1. Responses!Handle(r, ev) = Responses!ItemAdded(r, ev)
    BY <1>10, Zenon DEF Responses!Handle
  <2>2. QED
    BY <1>6, <1>7, <1>10, <2>1, CallAdded
<1>11. ASSUME ev.type = "item.done", ev.kind \in CallKinds, ev.key # 0
       PROVE  Live(c, t, open \ {ev.key}) /\ Stuck(t)
  <2>1. Responses!Handle(r, ev) = Responses!ItemDone(r, ev)
    BY <1>11, Zenon DEF Responses!Handle
  <2>2. QED
    BY <1>6, <1>7, <1>11, <2>1, CallFinished
<1>12. QED
  BY <1>8, <1>9, <1>10, <1>11 DEF t
-----------------------------------------------------------------------------
(***************************************************************************)
(* The terminal event.                                                     *)
(***************************************************************************)
\* A text that came as a whole, also while a commentary is not done.
LEMMA RecoveredAtEnd ==
  ASSUME NEW c, NEW s, ResponsesMid(c, s), s.active = 0, ~s.textOpen, NEW parts \in Parts
  PROVE  LET t == Responses!emit_recovered_text(s, parts) IN
         /\ ResponsesMid(c, t) /\ CallsKept(s, t) /\ ~t.textOpen
         /\ ~s.thinkingOpen => ~t.thinkingOpen
<1> DEFINE t == Responses!emit_recovered_text(s, parts)
           a == Responses!finalize_thinking(s)
           n == a.next
           m == n + 1
           x == Append(a.out, BlockStart(n, "text", 0))
           y == Append(x, BlockDelta(n, parts))
           z == Append(y, BlockStop(n))
           u == [a EXCEPT !.out = z, !.next = m]
           v == [u EXCEPT !.textIndex = n, !.hasText = TRUE]
<1>1. /\ ResponsesMid(c, a) /\ CallsKept(s, a) /\ ~a.thinkingOpen
      /\ a.textOpen = s.textOpen
  BY ThinkingFinal
<1>2. t = s \/ t = v
  <2> DEFINE X == Responses!start_text(a)
             Y == Responses!text_delta(X, parts)
             Z == Responses!stop_text(Y)
             V == [Z EXCEPT !.hasText = TRUE]
  <2>1. t = s \/ t = V
    BY DEF Responses!emit_recovered_text
  <2>2. a \in ResponsesStates /\ n \in Nat /\ ~a.textOpen
    BY <1>1 DEF ResponsesMid, ResponsesStates
  <2> HIDE DEF a, t
  <2>3. X = [a EXCEPT !.out = x, !.textOpen = TRUE, !.textIndex = n, !.next = m]
    BY <2>2, ResponsesFrames DEF Responses!start_text, ResponsesStates
  <2> HIDE DEF X, x
  <2>4. Y = [a EXCEPT !.out = y, !.textOpen = TRUE, !.textIndex = n, !.next = m]
    BY <2>2, <2>3, ResponsesFrames DEF Responses!text_delta, ResponsesStates
  <2> HIDE DEF Y, y
  <2>5. Z = [a EXCEPT !.out = z, !.textOpen = FALSE, !.textIndex = n, !.next = m]
    BY <2>2, <2>4, ResponsesFrames DEF Responses!stop_text, ResponsesStates
  <2> HIDE DEF Z, z
  <2>6. V = [a EXCEPT !.out = z, !.textIndex = n, !.next = m, !.hasText = TRUE]
    BY <2>2, <2>5 DEF ResponsesStates
  <2>7. V = v
    BY <2>2, <2>6 DEF ResponsesStates
  <2>8. QED
    BY <2>1, <2>7
<1>3. /\ n \in Nat /\ m \in Nat /\ n \in Int /\ a.active = 0 /\ ~a.textOpen
      /\ Ends(c, a.out, "started", {}, 0..(n - 1), TRUE)
      /\ "text" \in Kinds
  <2>1. a \in ResponsesStates /\ n \in Nat
    BY <1>1 DEF ResponsesMid, ResponsesStates
  <2>2. a.active = 0 /\ ~a.textOpen
    BY <1>1 DEF CallsKept
  <2>3. ShownNow(a) = {}
    BY <1>1, <2>2 DEF ShownNow
  <2>4. Ends(c, a.out, "started", ShownNow(a), 0..(n - 1), TRUE)
    BY <1>1 DEF ResponsesMid
  <2>5. m \in Nat /\ n \in Int /\ "text" \in Kinds
    BY <2>1 DEF Kinds
  <2> HIDE DEF m
  <2>6. QED
    BY <2>1, <2>2, <2>3, <2>4, <2>5, Zenon
<1> HIDE DEF a, n, t
<1> DEFINE used == 0..((n + 1) - 1)
<1>4. Ends(c, x, "started", {n}, used, TRUE)
  <2>1. 0 \in Int
    OBVIOUS
  <2>2. QED
    BY <1>3, <2>1, NextBlock, Zenon
<1> HIDE DEF x, used
<1>5. Ends(c, y, "started", {n}, used, TRUE)
  BY <1>3, <1>4, EndsFrame
<1> HIDE DEF y
<1>6. Ends(c, z, "started", {}, used, TRUE)
  BY <1>3, <1>5, EndsFrame
<1>7. Ends(c, z, "started", {}, 0..(m - 1), TRUE)
  BY <1>6 DEF used
<1> HIDE DEF z, m
<1>8. ResponsesMid(c, u) /\ CallsKept(a, u)
  BY <1>1, <1>3, <1>7, BlocksAdded DEF Quietly
<1>9. ~u.textOpen /\ ~u.thinkingOpen /\ u.active = 0 /\ u \in ResponsesStates
  <2>1. a \in ResponsesStates
    BY <1>1 DEF ResponsesMid
  <2>2. u.textOpen = a.textOpen /\ u.thinkingOpen = a.thinkingOpen /\ u.active = a.active
    BY <2>1 DEF ResponsesStates
  <2>3. QED
    BY <1>1, <1>3, <1>8, <2>2 DEF ResponsesMid
<1> HIDE DEF u
<1>10. v \in ResponsesStates
  BY <1>3, <1>9 DEF ResponsesStates
<1>11. /\ v.out = u.out /\ v.next = u.next /\ ~v.textOpen /\ ~v.thinkingOpen
       /\ CallsKept(u, v)
  BY <1>9 DEF ResponsesStates, CallsKept
<1> HIDE DEF v
<1>12. v.active = 0
  BY <1>9, <1>11 DEF CallsKept
<1>13. ShownNow(v) = {} /\ ShownNow(u) = {} /\ Exclusive(v)
  BY <1>9, <1>11, <1>12 DEF ShownNow, Exclusive
<1>14. ResponsesMid(c, v)
  BY <1>8, <1>10, <1>11, <1>13 DEF ResponsesMid
<1>15. CallsKept(s, v) /\ CallsKept(s, s)
  BY <1>1, <1>8, <1>11, CallsKeptTwice DEF CallsKept
<1>16. QED
  BY <1>2, <1>11, <1>14, <1>15 DEF t

ResponsesOver(c, s) == s \in ResponsesStates /\ s.finished /\ Over(c, s.out, TRUE)

\* The message is told its reason and ends.
LEMMA ResponsesFinal ==
  ASSUME NEW c, NEW s, Resumed(c, s), NEW reason \in Reasons
  PROVE  ResponsesOver(c, Responses!finalize(s, reason))
<1> DEFINE a == Responses!finalize_thinking(s)
           b == Responses!stop_text(a)
           n == b.next
           m == n + 1
           x == Append(b.out, BlockStart(n, "text", 0))
           y == Append(x, BlockStop(n))
           u == [b EXCEPT !.out = y, !.textIndex = n, !.next = m]
           d == Responses!synthesize_empty_text_block(b)
           told == Responses!map_stop_reason(reason, d.toolUse)
           z == Append(d.out, MessageDelta(told))
           over == Append(z, MessageStop)
           t == Responses!finalize(s, reason)
<1>1. /\ ResponsesMid(c, a) /\ CallsKept(s, a) /\ ~a.thinkingOpen
  BY ThinkingFinal DEF Resumed
<1>2. Responses!ensure_started(s) = s
  BY DEF Responses!ensure_started, Resumed
<1>3. t = [Responses!Emit(Responses!Emit(d, MessageDelta(told)), MessageStop)
             EXCEPT !.finished = TRUE]
  BY <1>2, ResponsesFrames DEF Responses!finalize, Resumed
<1> HIDE DEF a
<1>4. /\ ResponsesMid(c, b) /\ CallsKept(a, b) /\ ~b.textOpen
      /\ ~b.thinkingOpen
  BY <1>1, TextStopped
<1>5. /\ b \in ResponsesStates /\ n \in Nat /\ n \in Int /\ b.active = 0
      /\ Ends(c, b.out, "started", {}, 0..(n - 1), TRUE)
  <2>1. b \in ResponsesStates /\ n \in Nat
    BY <1>4 DEF ResponsesMid, ResponsesStates
  <2>2. b.active = 0
    BY <1>1, <1>4 DEF Resumed, CallsKept
  <2>3. ShownNow(b) = {}
    BY <1>4, <2>2 DEF ShownNow
  <2>4. Ends(c, b.out, "started", ShownNow(b), 0..(n - 1), TRUE)
    BY <1>4 DEF ResponsesMid
  <2>5. n \in Int
    BY <2>1
  <2>6. QED
    BY <2>1, <2>2, <2>3, <2>4, <2>5, Zenon
<1>6. d = b \/ d = u
  <2> DEFINE X == Responses!start_text(b)
             Y == Responses!stop_text(X)
  <2>1. d = b \/ d = Y
    BY DEF Responses!synthesize_empty_text_block
  <2> HIDE DEF b, d
  <2>2. X = [b EXCEPT !.out = x, !.textOpen = TRUE, !.textIndex = n, !.next = m]
    BY <1>4, <1>5, ResponsesFrames DEF Responses!start_text, ResponsesStates
  <2> HIDE DEF X, x
  <2>3. Y = [b EXCEPT !.out = y, !.textOpen = FALSE, !.textIndex = n, !.next = m]
    BY <1>5, <2>2, ResponsesFrames DEF Responses!stop_text, ResponsesStates
  <2> HIDE DEF Y, y
  <2>4. Y = u
    BY <1>4, <1>5, <2>3 DEF ResponsesStates
  <2>5. QED
    BY <2>1, <2>4
<1> HIDE DEF b, n, d
<1>7. Ends(c, y, "started", {}, 0..(m - 1), TRUE) /\ m \in Nat
  <2> DEFINE used == 0..((n + 1) - 1)
  <2>1. Ends(c, x, "started", {n}, used, TRUE)
    <3>1. 0 \in Int /\ "text" \in Kinds
      BY DEF Kinds
    <3>2. QED
      BY <1>5, <3>1, NextBlock, Zenon
  <2> HIDE DEF x, used
  <2>2. Ends(c, y, "started", {}, used, TRUE)
    BY <1>5, <2>1, EndsFrame
  <2>3. m \in Nat
    BY <1>5
  <2>4. QED
    BY <2>2, <2>3 DEF used
<1>8. d \in ResponsesStates /\ \E k \in Nat : Ends(c, d.out, "started", {}, 0..(k - 1), TRUE)
  <2>1. y \in Seq(Frames)
    BY <1>7 DEF Ends
  <2> HIDE DEF y, m
  <2>2. u \in ResponsesStates /\ u.out = y
    BY <1>5, <1>7, <2>1 DEF ResponsesStates
  <2>3. QED
    BY <1>5, <1>6, <1>7, <2>2 DEF n
<1>9. told \in Reasons
  BY DEF Responses!map_stop_reason, Reasons
<1> HIDE DEF told
<1>10. PICK k \in Nat : Ends(c, d.out, "started", {}, 0..(k - 1), TRUE)
  BY <1>8
<1>11. Ends(c, z, "told", {}, 0..(k - 1), TRUE)
  BY <1>9, <1>10, EndsFrame
<1>12. Over(c, over, TRUE) /\ over \in Seq(Frames)
  <2> HIDE DEF z
  <2>1. QED
    BY <1>11, StoppedIsOver
<1>13. t = [d EXCEPT !.out = over, !.finished = TRUE]
  BY <1>3, <1>8, ResponsesFrames DEF ResponsesStates
<1> HIDE DEF t, over
<1>14. t \in ResponsesStates /\ t.finished /\ t.out = over
  BY <1>8, <1>12, <1>13 DEF ResponsesStates
<1>15. QED
  BY <1>12, <1>14 DEF ResponsesOver, t

\* The calls of the terminal event.
TerminalCalls == [key : Items, custom : BOOLEAN, args : Parts]

FillCall(t, item) ==
  LET r == [Responses!record_function_call(t, item.key) EXCEPT !.last = t.last]
      i == r.calls[item.key] IN
  [r EXCEPT !.queue[i] = [@ EXCEPT !.name = item.key,
                                   !.custom = item.custom,
                                   !.args = Responses!Whole(r.queue[i], item.args)]]

LEMMA CallFilled ==
  ASSUME NEW c, NEW s, Live(c, s, Items), NEW item \in TerminalCalls
  PROVE  LET t == FillCall(s, item) IN
         /\ Live(c, t, Items)
         /\ t.textOpen = s.textOpen /\ t.thinkingOpen = s.thinkingOpen
<1> DEFINE key == item.key
           a == Responses!record_function_call(s, key)
           old == a.queue[a.last]
           whole == Responses!Whole(old, item.args)
           call == [old EXCEPT !.name = key, !.custom = item.custom, !.args = whole]
           b == Edited(a, call)
           u == [b EXCEPT !.last = s.last]
           t == FillCall(s, item)
<1>1. key \in Items /\ key # 0 /\ key \in Int /\ item.custom \in BOOLEAN
      /\ item.args \in Parts
  BY DEF TerminalCalls, Items
<1> HIDE DEF key
<1>2. /\ Live(c, a, Items) /\ old \in QueuedCalls /\ a \in ResponsesStates
      /\ a.last \in DOMAIN a.queue /\ a.calls[key] = a.last
      /\ DOMAIN s.queue \subseteq DOMAIN a.queue
  <2>1. key \in Items \cup {0}
    BY <1>1
  <2>2. /\ Live(c, a, Items) /\ a.last \in DOMAIN a.queue /\ old \in QueuedCalls
        /\ \A i \in DOMAIN s.queue : i \in DOMAIN a.queue
        /\ key # 0 => a.calls[key] = a.last
    BY <2>1, Recorded
  <2> HIDE DEF a
  <2>3. QED
    BY <1>1, <2>2 DEF Live, ResponsesMid
<1>3. t = u
  <2> DEFINE r == [a EXCEPT !.last = s.last]
             i == r.calls[key]
  <2>1. t = [r EXCEPT !.queue[i] = [@ EXCEPT !.name = key, !.custom = item.custom,
                                             !.args = Responses!Whole(r.queue[i], item.args)]]
    BY DEF FillCall, key
  <2> HIDE DEF a, t
  <2>2. r.calls[key] = a.last /\ r.queue = a.queue
    BY <1>2 DEF ResponsesStates
  <2>3. t = [r EXCEPT !.queue[a.last] = [@ EXCEPT !.name = key, !.custom = item.custom,
                                                  !.args = whole]]
    BY <2>1, <2>2
  <2> HIDE DEF whole
  <2>4. QED
    BY <1>2, <2>2, <2>3 DEF ResponsesStates, Edited
<1>4. whole \in Parts
  BY <1>1, <1>2, WholeParts
<1> HIDE DEF whole
<1>5. call \in QueuedCalls /\ CallGoesOn(old, call)
  <2> HIDE DEF old
  <2>1. QED
    BY <1>1, <1>2, <1>4 DEF QueuedCalls, CallGoesOn
<1> HIDE DEF call
<1>6. /\ Live(c, b, Items)
      /\ b.textOpen = s.textOpen /\ b.thinkingOpen = s.thinkingOpen
  <2>1. EditFits(s, key, a, call, Items, Items)
    BY <1>1, <1>5 DEF EditFits
  <2> HIDE DEF a
  <2>2. QED
    BY <2>1, CallEdited
<1>7. DOMAIN b.queue = DOMAIN a.queue
  BY <1>2 DEF ResponsesStates, Edited
<1> HIDE DEF a, b
<1>8. b \in ResponsesStates /\ s \in ResponsesStates /\ b.queue \in Seq(QueuedCalls)
      /\ s.queue \in Seq(QueuedCalls)
  BY <1>6 DEF Live, ResponsesMid, ResponsesStates
<1>9. s.last \in 0..Len(b.queue) /\ s.last \in Nat
  <2>1. s.last = 0 \/ s.last \in DOMAIN s.queue
    BY <1>8 DEF Live, Linked
  <2>2. s.last = 0 \/ s.last \in DOMAIN b.queue
    BY <1>2, <1>7, <2>1
  <2>3. QED
    BY <1>8, <2>2
<1>10. u \in ResponsesStates
  BY <1>8, <1>9 DEF ResponsesStates
<1>11. u.last = s.last /\ u.calls = b.calls /\ u.queue = b.queue /\ QueueOnly(b, u)
  BY <1>8 DEF ResponsesStates, QueueOnly
<1> HIDE DEF u
<1>12. ResponsesMid(c, u)
  <2>1. \A j \in DOMAIN b.queue : j \in DOMAIN u.queue /\ CallGoesOn(b.queue[j], u.queue[j])
    BY <1>11 DEF CallGoesOn
  <2>2. DOMAIN u.queue \ DOMAIN b.queue = {}
    BY <1>11
  <2>3. QED
    BY <1>6, <1>10, <1>11, <2>1, <2>2, QueueChanged DEF Live
<1>13. Linked(u) /\ Expected(u, Items)
  BY <1>6, <1>9, <1>11 DEF Live, Linked, Expected
<1>14. Live(c, u, Items)
  BY <1>6, <1>11, <1>12, <1>13 DEF Live, QueueOnly
<1>15. QED
  BY <1>3, <1>6, <1>11, <1>14 DEF QueueOnly

\* The calls of the terminal event are filled in, one after the other.
Filled(s, output) == Responses!FoldLeft(FillCall, s, output)

LEMMA CallsFilled ==
  ASSUME NEW c, NEW s, Live(c, s, Items), NEW output \in Seq(TerminalCalls)
  PROVE  LET t == Filled(s, output) IN
         /\ Live(c, t, Items)
         /\ t.textOpen = s.textOpen /\ t.thinkingOpen = s.thinkingOpen
<1> DEFINE Good(t) == /\ Live(c, t, Items)
                      /\ t.textOpen = s.textOpen /\ t.thinkingOpen = s.thinkingOpen
           S == {t \in ResponsesStates : Good(t)}
           n == Len(output)
           step == [p \in S \X (1..n) |-> FillCall(p[1], output[p[2]])]
           IsFold(it) == it = [u \in SUBSET DOMAIN output |->
                                 IF u = {} THEN s
                                 ELSE FillCall(it[u \ {Max(u)}], output[Max(u)])]
           fold == CHOOSE it : IsFold(it)
<1>1. s \in S
  BY DEF Live, ResponsesMid
<1>2. Filled(s, output) = fold[DOMAIN output]
  BY DEF Filled, Responses!FoldLeft, Responses!MapThenFoldSet, Responses!Max, Max
<1>3. n \in Nat /\ DOMAIN output = 1..n /\ \A i \in 1..n : output[i] \in TerminalCalls
  OBVIOUS
<1> HIDE DEF n
<1>4. \A t \in S, i \in 1..n : FillCall(t, output[i]) \in S
  <2>1. TAKE t \in S, i \in 1..n
  <2> DEFINE u == FillCall(t, output[i])
  <2>2. output[i] \in TerminalCalls
    BY <1>3
  <2>3. /\ Live(c, u, Items)
        /\ u.textOpen = t.textOpen /\ u.thinkingOpen = t.thinkingOpen
    BY <2>2, CallFilled
  <2> HIDE DEF u
  <2>4. u \in ResponsesStates
    BY <2>3 DEF Live, ResponsesMid
  <2>5. QED
    BY <2>3, <2>4 DEF u
<1>5. IsFold(fold)
  <2>1. step \in [S \X (1..n) -> S]
    BY <1>4
  <2>2. PICK g \in [SUBSET (1..n) -> S] : Staged(n, g, s, step)
    BY <1>1, <1>3, <2>1, StagesExist
  <2>3. \A t \in S, k \in 1..n : step[<<t, k>>] = FillCall(t, output[k])
    OBVIOUS
  <2> HIDE DEF step
  <2>4. \A u \in SUBSET (1..n) : u # {} =>
          step[<<g[u \ {Max(u)}], Max(u)>>] = FillCall(g[u \ {Max(u)}], output[Max(u)])
    BY <1>3, <2>3, FirstNumbers
  <2>5. \A u \in SUBSET (1..n) :
          g[u] = IF u = {} THEN s ELSE FillCall(g[u \ {Max(u)}], output[Max(u)])
    BY <2>2, <2>4 DEF Staged
  <2>6. IsFold(g)
    BY <1>3, <2>5
  <2>7. QED
    BY <2>6
<1> HIDE DEF fold
<1>6. fold[{}] = s
  <2>1. {} \in SUBSET (DOMAIN output)
    OBVIOUS
  <2>2. QED
    BY <1>5, <2>1
<1>7. \A k \in 1..n : fold[1..k] = FillCall(fold[1..(k - 1)], output[k])
  <2>1. TAKE k \in 1..n
  <2> DEFINE all == 1..k
             less == 1..(k - 1)
  <2>2. all \in SUBSET (1..n) /\ all # {} /\ Max(all) = k /\ all \ {k} = less
    BY <1>3, FirstNumbers
  <2> HIDE DEF all, less
  <2>3. fold[all] = FillCall(fold[all \ {Max(all)}], output[Max(all)])
    BY <1>3, <1>5, <2>2
  <2>4. QED
    BY <2>2, <2>3 DEF all, less
<1> DEFINE P == {k \in 0..n : fold[1..k] \in S}
<1>8. 0 \in P
  BY <1>1, <1>3, <1>6, FirstNumbers
<1>9. \A k \in 1..n : k - 1 \in P => k \in P
  BY <1>4, <1>7
<1> HIDE DEF P
<1>10. n \in P
  BY <1>3, <1>8, <1>9, LastStage
<1>11. fold[DOMAIN output] \in S
  BY <1>3, <1>10 DEF P
<1>12. QED
  BY <1>2, <1>11

LEMMA NothingFilled ==
  ASSUME NEW s
  PROVE  Filled(s, << >>) = s
<1> DEFINE q == << >>
           IsFold(it) == it = [u \in SUBSET DOMAIN q |->
                                 IF u = {} THEN s
                                 ELSE FillCall(it[u \ {Max(u)}], q[Max(u)])]
           fold == CHOOSE it : IsFold(it)
<1>1. Filled(s, q) = fold[DOMAIN q]
  BY DEF Filled, Responses!FoldLeft, Responses!MapThenFoldSet, Responses!Max, Max
<1>2. DOMAIN q = {}
  OBVIOUS
<1> HIDE DEF q
<1>3. IsFold([u \in SUBSET {} |-> s])
  BY <1>2
<1>4. IsFold(fold)
  <2> HIDE DEF IsFold
  <2>1. QED
    BY <1>3
<1> HIDE DEF fold
<1>5. fold[{}] = s
  BY <1>2, <1>4
<1>6. QED
  BY <1>1, <1>2, <1>5 DEF q

\* No more of the arguments is awaited; a call without a name is not shown.
SettledCall(call) == [call EXCEPT !.done = TRUE, !.closed = @ \/ call.name = 0]
SettledQueue(s) == [i \in DOMAIN s.queue |-> SettledCall(s.queue[i])]

\* The queue is emptied when its calls have been shown.
EmptiedOf(s) == [s EXCEPT !.calls = [k \in Items |-> 0], !.queue = << >>,
                          !.active = 0, !.last = 0]

LEMMA TerminalCallsAre ==
  ASSUME NEW s, NEW output, Filled(s, output) \in ResponsesStates
  PROVE  LET t == Filled(s, output) IN
         Responses!append_function_calls_from_terminal(s, output)
           = EmptiedOf(Responses!append_function_call_queue(
               [t EXCEPT !.queue = SettledQueue(t)]))
<1> DEFINE t == Filled(s, output)
           settled == [t EXCEPT !.queue = [i \in DOMAIN t.queue |->
                         [t.queue[i] EXCEPT !.done = TRUE,
                                            !.closed = @ \/ t.queue[i].name = 0]]]
<1>1. Responses!append_function_calls_from_terminal(s, output)
        = EmptiedOf(Responses!append_function_call_queue(settled))
  BY ResponsesFrames, Zenon
     DEF Responses!append_function_calls_from_terminal, EmptiedOf,
         Filled, FillCall, Responses!Items, Items
<1>2. settled = [t EXCEPT !.queue = SettledQueue(t)]
  BY DEF SettledQueue, SettledCall
<1>3. QED
  BY <1>1, <1>2

LEMMA TerminalCallsShown ==
  ASSUME NEW c, NEW s, Live(c, s, Items), ~s.textOpen, ~s.thinkingOpen,
         NEW output \in Seq(TerminalCalls)
  PROVE  Resumed(c, Responses!append_function_calls_from_terminal(s, output))
<1> DEFINE t == Filled(s, output)
           queue == SettledQueue(t)
           u == [t EXCEPT !.queue = queue]
           v == Responses!append_function_call_queue(u)
           w == EmptiedOf(v)
<1>1. Live(c, t, Items) /\ ~t.textOpen /\ ~t.thinkingOpen /\ t \in ResponsesStates
      /\ t.queue \in Seq(QueuedCalls)
  BY CallsFilled DEF Live, ResponsesMid, ResponsesStates
<1>2. Responses!append_function_calls_from_terminal(s, output) = w
  BY <1>1, TerminalCallsAre
<1> HIDE DEF t
<1>3. \A call \in QueuedCalls :
        /\ SettledCall(call) \in QueuedCalls
        /\ SettledCall(call).done
        /\ SettledCall(call).name = call.name /\ SettledCall(call).index = call.index
        /\ SettledCall(call).closed = (call.closed \/ call.name = 0)
  BY DEF SettledCall, QueuedCalls
<1>4. /\ queue \in Seq(QueuedCalls) /\ DOMAIN queue = DOMAIN t.queue
      /\ \A i \in DOMAIN t.queue : queue[i] = SettledCall(t.queue[i])
  BY <1>1, <1>3 DEF SettledQueue
<1> HIDE DEF queue
<1>5. u \in ResponsesStates
  BY <1>1, <1>4 DEF ResponsesStates
<1>6. /\ u.out = t.out /\ u.next = t.next /\ u.queue = queue /\ u.active = t.active
      /\ u.textOpen = t.textOpen /\ u.thinkingOpen = t.thinkingOpen
      /\ u.started = t.started /\ u.finished = t.finished
  BY <1>1 DEF ResponsesStates
<1> HIDE DEF u
<1>7. \A i \in DOMAIN t.queue :
        /\ i \in DOMAIN u.queue /\ u.queue[i].done
        /\ u.queue[i].name = t.queue[i].name /\ u.queue[i].index = t.queue[i].index
        /\ u.queue[i].closed = (t.queue[i].closed \/ t.queue[i].name = 0)
  <2>1. \A i \in DOMAIN t.queue : t.queue[i] \in QueuedCalls
    BY <1>1
  <2>2. QED
    BY <1>3, <1>4, <1>6, <2>1
<1>8. t.active # 0 => ActiveCall(t)
  BY <1>1 DEF Live, ResponsesMid, Exclusive
<1>9. u.active # 0 => ActiveCall(u)
  BY <1>4, <1>6, <1>7, <1>8 DEF ActiveCall
<1>10. ShownNow(u) = ShownNow(t)
  <2>1. t.active # 0 => u.queue[u.active].index = t.queue[t.active].index
    BY <1>6, <1>7, <1>8 DEF ActiveCall
  <2>2. u.textIndex = t.textIndex /\ u.thinkingIndex = t.thinkingIndex
    BY <1>1 DEF ResponsesStates, u
  <2>3. QED
    BY <1>1, <1>6, <2>1, <2>2, Zenon DEF ShownNow
<1>11. Exclusive(u)
  BY <1>1, <1>6, <1>9 DEF Exclusive
<1>12. ResponsesMid(c, u)
  BY <1>1, <1>5, <1>6, <1>10, <1>11 DEF Live, ResponsesMid
<1>13. /\ ResponsesMid(c, v) /\ QueueKept(u, v)
       /\ v.active # 0 => ~v.queue[v.active].done
  BY <1>1, <1>6, <1>12, QueueShown
<1> HIDE DEF v
<1>14. v.active = 0
  <2>1. \A i \in DOMAIN v.queue : v.queue[i].done
    BY <1>4, <1>6, <1>7, <1>13 DEF QueueKept
  <2>2. v.active # 0 => v.active \in DOMAIN v.queue
    BY <1>13 DEF ResponsesMid, Exclusive, ActiveCall
  <2>3. QED
    BY <1>13, <2>1, <2>2
<1>15. v \in ResponsesStates /\ ~v.textOpen /\ ~v.thinkingOpen /\ v.started /\ ~v.finished
  BY <1>1, <1>6, <1>13 DEF Live, ResponsesMid, QueueKept
<1>16. w \in ResponsesStates
  <2>1. [k \in Items |-> 0] \in [Items -> Nat] /\ << >> \in Seq(QueuedCalls)
    OBVIOUS
  <2>2. QED
    BY <1>15, <2>1 DEF EmptiedOf, ResponsesStates
<1>17. /\ w.out = v.out /\ w.next = v.next /\ w.active = 0
       /\ w.textOpen = v.textOpen /\ w.thinkingOpen = v.thinkingOpen
       /\ w.started = v.started /\ w.finished = v.finished
  BY <1>15 DEF EmptiedOf, ResponsesStates
<1> HIDE DEF w
<1>18. ShownNow(w) = {} /\ ShownNow(v) = {} /\ Exclusive(w)
  BY <1>14, <1>15, <1>17 DEF ShownNow, Exclusive
<1>19. Resumed(c, w)
  BY <1>13, <1>15, <1>16, <1>17, <1>18 DEF Resumed, ResponsesMid
<1>20. QED
  BY <1>2, <1>19
-----------------------------------------------------------------------------
(***************************************************************************)
(* Before the message has started, and after it has ended.                 *)
(***************************************************************************)
ResponsesWaiting(c, s) ==
  /\ s \in ResponsesStates
  /\ ~s.started /\ ~s.finished /\ ~s.textOpen /\ ~s.thinkingOpen /\ ~s.commentary
  /\ s.active = 0 /\ s.queue = << >> /\ s.deferred = << >>
  /\ s.next = 0 /\ s.last = 0 /\ s.calls = [k \in Items |-> 0]
  /\ Ends(c, s.out, "waiting", {}, {}, TRUE)

LEMMA ResponsesStarted ==
  ASSUME NEW c, NEW s, ResponsesWaiting(c, s)
  PROVE  LET t == Responses!ensure_started(s) IN
         /\ Live(c, t, {}) /\ t.active = 0
         /\ ~t.textOpen /\ ~t.thinkingOpen
<1> DEFINE out == Append(s.out, MessageStart)
           t == Responses!ensure_started(s)
<1>1. s \in ResponsesStates
  BY DEF ResponsesWaiting
<1>2. t = [s EXCEPT !.out = out, !.started = TRUE]
  BY <1>1, ResponsesFrames DEF ResponsesWaiting, Responses!ensure_started, ResponsesStates
<1>3. Ends(c, out, "started", {}, {}, TRUE)
  BY EndsFrame DEF ResponsesWaiting
<1>4. out \in Seq(Frames) /\ 0..(0 - 1) = {}
  BY <1>3 DEF Ends
<1> HIDE DEF out, t
<1>5. t \in ResponsesStates
  BY <1>1, <1>2, <1>4 DEF ResponsesStates
<1>6. /\ t.out = out /\ t.started /\ ~t.finished /\ t.next = 0 /\ t.active = 0
      /\ ~t.textOpen /\ ~t.thinkingOpen /\ t.queue = << >> /\ t.last = 0
      /\ t.calls = [k \in Items |-> 0]
  BY <1>1, <1>2 DEF ResponsesStates, ResponsesWaiting
<1>7. ShownNow(t) = {} /\ Exclusive(t)
  BY <1>6 DEF ShownNow, Exclusive
<1>8. ResponsesMid(c, t)
  BY <1>3, <1>4, <1>5, <1>6, <1>7 DEF ResponsesMid
<1>9. Linked(t) /\ Expected(t, {})
  BY <1>6 DEF Linked, Expected
<1>10. QED
  BY <1>6, <1>8, <1>9 DEF Live, t

LEMMA NoTerminalCalls ==
  ASSUME NEW c, NEW s, ResponsesWaiting(c, s)
  PROVE  Responses!append_function_calls_from_terminal(s, << >>) = s
<1> DEFINE u == [s EXCEPT !.queue = SettledQueue(s)]
<1>1. s \in ResponsesStates /\ Filled(s, << >>) = s
  BY NothingFilled DEF ResponsesWaiting
<1>2. SettledQueue(s) = << >>
  BY DEF SettledQueue, ResponsesWaiting
<1>3. u = s
  BY <1>1, <1>2 DEF ResponsesStates, ResponsesWaiting
<1>4. Responses!append_function_call_queue(u) = s
  BY <1>1, <1>3, EmptyQueueShown DEF ResponsesWaiting
<1>5. EmptiedOf(s) = s
  BY <1>1 DEF EmptiedOf, ResponsesStates, ResponsesWaiting
<1>6. QED
  BY <1>1, <1>4, <1>5, TerminalCallsAre

LEMMA ResponsesFailed ==
  ASSUME NEW c, NEW s, ResponsesWaiting(c, s) \/ ResponsesMid(c, s)
  PROVE  ResponsesOver(c, [Responses!Emit(s, Responses!StreamError)
                             EXCEPT !.finished = TRUE])
<1> DEFINE out == Append(s.out, StreamError)
           u == [s EXCEPT !.out = out, !.finished = TRUE]
           t == [Responses!Emit(s, Responses!StreamError) EXCEPT !.finished = TRUE]
<1>1. s \in ResponsesStates
  BY DEF ResponsesWaiting, ResponsesMid
<1>2. t = u
  BY <1>1, ResponsesFrames DEF ResponsesStates
<1>3. Over(c, out, TRUE) /\ out \in Seq(Frames)
  BY FailedIsOver DEF ResponsesWaiting, ResponsesMid
<1> HIDE DEF out
<1>4. u \in ResponsesStates /\ u.finished /\ u.out = out
  BY <1>1, <1>3 DEF ResponsesStates
<1>5. QED
  BY <1>2, <1>3, <1>4 DEF ResponsesOver
-----------------------------------------------------------------------------
(***************************************************************************)
(* The terminal event.                                                     *)
(***************************************************************************)
TerminalEvents ==
  [incomplete : BOOLEAN, zero : BOOLEAN, reason : Reasons, text : Parts,
   calls : Seq(TerminalCalls)]

LEMMA LiveQuietly ==
  ASSUME NEW c, NEW s, NEW t, NEW open, Live(c, s, open), Quietly(c, s, t)
  PROVE  Live(c, t, open)
BY LiveByCalls DEF Quietly, CallsKept

LEMMA ResumedQuietly ==
  ASSUME NEW c, NEW s, NEW t, Resumed(c, s), Quietly(c, s, t)
  PROVE  Resumed(c, t)
BY DEF Quietly, CallsKept, Resumed

\* What follows the calls of the terminal event.
Rest(t, reason) ==
  Responses!finalize(Responses!finalize_thinking(Responses!append_deferred_events(t)),
                     reason)

LEMMA RestShown ==
  ASSUME NEW c, NEW t, Resumed(c, t), NEW reason \in Reasons
  PROVE  ResponsesOver(c, Rest(t, reason))
<1> DEFINE a == Responses!append_deferred_events(t)
           b == Responses!finalize_thinking(a)
<1>1. Resumed(c, a)
  BY DeferredShown
<1>2. Rest(t, reason) = Responses!finalize(b, reason)
  BY DEF Rest
<1> HIDE DEF a
<1>3. Quietly(c, a, b)
  BY <1>1, ThinkingFinal DEF Quietly, Resumed
<1> HIDE DEF b
<1>4. QED
  BY <1>1, <1>2, <1>3, ResumedQuietly, ResponsesFinal

\* The message so far, with all text and thinking closed.
Settles(s) == Responses!stop_text(Responses!finalize_thinking(s))

LEMMA SettlesKept ==
  ASSUME NEW c, NEW s, ResponsesMid(c, s)
  PROVE  LET t == Settles(s) IN
         Quietly(c, s, t) /\ ~t.textOpen /\ ~t.thinkingOpen
<1> DEFINE a == Responses!finalize_thinking(s)
           b == Responses!stop_text(a)
<1>1. ResponsesMid(c, a) /\ CallsKept(s, a) /\ ~a.thinkingOpen
  BY ThinkingFinal
<1>2. Settles(s) = b
  BY DEF Settles
<1> HIDE DEF a
<1>3. ResponsesMid(c, b) /\ CallsKept(a, b) /\ ~b.textOpen /\ ~b.thinkingOpen
  BY <1>1, TextStopped
<1> HIDE DEF b
<1>4. QED
  BY <1>1, <1>2, <1>3, CallsKeptTwice DEF Quietly

LEMMA TerminalIs ==
  ASSUME NEW s, NEW ev
  PROVE  Responses!Terminal(s, ev)
           = IF Responses!is_terminal_empty_incomplete(s, ev)
             THEN [Responses!Emit(s, Responses!StreamError) EXCEPT !.finished = TRUE]
             ELSE Rest(Responses!append_function_calls_from_terminal(
                         Responses!recover_terminal_text(Settles(s), ev.text), ev.calls),
                       ev.reason)
BY DEF Responses!Terminal, Responses!stream_error, Rest, Settles

LEMMA LiveTerminal ==
  ASSUME NEW c, NEW s, Live(c, s, Items), NEW ev \in TerminalEvents,
         ev.text # << >> => s.active = 0
  PROVE  ResponsesOver(c, Responses!Terminal(s, ev))
<1> DEFINE a == Settles(s)
           b == Responses!recover_terminal_text(a, ev.text)
           d == Responses!append_function_calls_from_terminal(b, ev.calls)
<1>0. /\ ev.text \in Parts /\ ev.calls \in Seq(TerminalCalls) /\ ev.reason \in Reasons
      /\ ResponsesMid(c, s)
  BY DEF TerminalEvents, Live
<1>1. Quietly(c, s, a) /\ ~a.textOpen /\ ~a.thinkingOpen
  BY <1>0, SettlesKept
<1>2. /\ ~Responses!is_terminal_empty_incomplete(s, ev) =>
           Responses!Terminal(s, ev) = Rest(d, ev.reason)
      /\ Responses!is_terminal_empty_incomplete(s, ev) =>
           Responses!Terminal(s, ev)
             = [Responses!Emit(s, Responses!StreamError) EXCEPT !.finished = TRUE]
  BY TerminalIs
<1> HIDE DEF a
<1>3. Live(c, a, Items) /\ ResponsesMid(c, a) /\ a.active = s.active /\ a.started
  BY <1>1, LiveQuietly DEF Quietly, CallsKept, Live
<1>4. Live(c, b, Items) /\ ~b.textOpen /\ ~b.thinkingOpen
  <2>1. CASE a.hasText \/ ev.text = << >>
    <3>1. b = a
      BY <2>1 DEF Responses!recover_terminal_text
    <3>2. QED
      BY <1>1, <1>3, <3>1
  <2>2. CASE ~(a.hasText \/ ev.text = << >>)
    <3> DEFINE e == Responses!emit_recovered_text(a, ev.text)
    <3>1. b = e
      BY <1>3, <2>2 DEF Responses!recover_terminal_text, Responses!ensure_started
    <3>2. /\ ResponsesMid(c, e) /\ CallsKept(a, e) /\ ~e.textOpen /\ ~e.thinkingOpen
      BY <1>0, <1>1, <1>3, <2>2, RecoveredAtEnd
    <3> HIDE DEF e
    <3>3. Live(c, e, Items)
      BY <1>3, <3>2, LiveQuietly DEF Quietly
    <3>4. QED
      BY <3>1, <3>2, <3>3
  <2>3. QED
    BY <2>1, <2>2
<1> HIDE DEF b
<1>5. Resumed(c, d)
  BY <1>0, <1>4, TerminalCallsShown
<1> HIDE DEF d
<1>6. ResponsesOver(c, Rest(d, ev.reason))
  BY <1>0, <1>5, RestShown
<1>7. QED
  BY <1>0, <1>2, <1>6, ResponsesFailed

LEMMA WaitingSettles ==
  ASSUME NEW c, NEW s, ResponsesWaiting(c, s)
  PROVE  /\ Responses!finalize_thinking(s) = s /\ Responses!stop_text(s) = s
         /\ Settles(s) = s /\ Responses!append_deferred_events(s) = s
<1>1. s \in ResponsesStates /\ ~s.textOpen /\ ~s.thinkingOpen /\ s.deferred = << >>
  BY DEF ResponsesWaiting
<1>2. Responses!finalize_thinking(s) = s
  BY <1>1 DEF Responses!finalize_thinking
<1>3. Responses!stop_text(s) = s
  BY <1>1 DEF Responses!stop_text
<1>4. QED
  BY <1>1, <1>2, <1>3, NothingDeferred DEF Settles

\* A message that has not started is started when it is finished.
LEMMA WaitingFinal ==
  ASSUME NEW c, NEW s, ResponsesWaiting(c, s), NEW reason \in Reasons
  PROVE  ResponsesOver(c, Responses!finalize(s, reason))
<1> DEFINE t == Responses!ensure_started(s)
<1>1. Live(c, t, {}) /\ t.active = 0 /\ t.started /\ ~t.finished /\ Resumed(c, t)
  BY ResponsesStarted DEF Live, Resumed
<1>2. Responses!ensure_started(t) = t
  BY <1>1, Zenon DEF Responses!ensure_started
<1>3. ~s.finished
  BY DEF ResponsesWaiting
<1>4. Responses!finalize(s, reason) = Responses!finalize(t, reason)
  <2> DEFINE End(x) == LET z == Responses!synthesize_empty_text_block(
                                  Responses!stop_text(Responses!finalize_thinking(x))) IN
                       [Responses!Emit(Responses!Emit(z, Responses!MessageDelta(
                          Responses!map_stop_reason(reason, z.toolUse))),
                          Responses!MessageStop) EXCEPT !.finished = TRUE]
  <2>1. \A x : Responses!finalize(x, reason)
                 = IF x.finished THEN x ELSE End(Responses!ensure_started(x))
    BY Zenon DEF Responses!finalize
  <2> HIDE DEF End
  <2>2. Responses!finalize(s, reason) = End(t)
    BY <1>3, <2>1
  <2> HIDE DEF t
  <2>3. Responses!finalize(t, reason) = End(t)
    BY <1>1, <1>2, <2>1
  <2>4. QED
    BY <2>2, <2>3
<1> HIDE DEF t
<1>5. QED
  BY <1>1, <1>4, ResponsesFinal

LEMMA WaitingTerminal ==
  ASSUME NEW c, NEW s, ResponsesWaiting(c, s), NEW ev \in TerminalEvents,
         ev.calls = << >>
  PROVE  ResponsesOver(c, Responses!Terminal(s, ev))
<1> DEFINE b == Responses!recover_terminal_text(s, ev.text)
           d == Responses!append_function_calls_from_terminal(b, ev.calls)
<1>0. ev.text \in Parts /\ ev.calls \in Seq(TerminalCalls) /\ ev.reason \in Reasons
  BY DEF TerminalEvents
<1>1. /\ ~Responses!is_terminal_empty_incomplete(s, ev) =>
           Responses!Terminal(s, ev) = Rest(d, ev.reason)
      /\ Responses!is_terminal_empty_incomplete(s, ev) =>
           Responses!Terminal(s, ev)
             = [Responses!Emit(s, Responses!StreamError) EXCEPT !.finished = TRUE]
  BY TerminalIs, WaitingSettles
<1>2. ResponsesOver(c, Rest(d, ev.reason))
  <2>1. CASE s.hasText \/ ev.text = << >>
    <3>1. b = s
      BY <2>1 DEF Responses!recover_terminal_text
    <3>2. d = s
      BY <3>1, NoTerminalCalls
    <3> HIDE DEF d
    <3>3. Rest(s, ev.reason) = Responses!finalize(s, ev.reason)
      BY WaitingSettles DEF Rest
    <3>4. QED
      BY <1>0, <3>2, <3>3, WaitingFinal
  <2>2. CASE ~(s.hasText \/ ev.text = << >>)
    <3> DEFINE a == Responses!ensure_started(s)
               e == Responses!emit_recovered_text(a, ev.text)
    <3>1. b = e
      BY <2>2 DEF Responses!recover_terminal_text
    <3>2. Live(c, a, {}) /\ a.active = 0 /\ ~a.textOpen /\ ~a.thinkingOpen
      BY ResponsesStarted
    <3> HIDE DEF a, b
    <3>3. Live(c, a, Items) /\ ResponsesMid(c, a)
      BY <3>2, LiveWithMore DEF Live
    <3>4. ResponsesMid(c, e) /\ CallsKept(a, e) /\ ~e.textOpen /\ ~e.thinkingOpen
      BY <1>0, <3>2, <3>3, RecoveredAtEnd
    <3> HIDE DEF e
    <3>5. Live(c, e, Items)
      BY <3>3, <3>4, LiveQuietly DEF Quietly
    <3>6. Resumed(c, d)
      BY <1>0, <3>1, <3>4, <3>5, TerminalCallsShown
    <3> HIDE DEF d
    <3>7. QED
      BY <1>0, <3>6, RestShown
  <2>3. QED
    BY <2>1, <2>2
<1>3. QED
  BY <1>1, <1>2, ResponsesFailed
-----------------------------------------------------------------------------
(***************************************************************************)
(* What the upstream sends.                                                *)
(***************************************************************************)
ResponsesItems ==
  [kind : CallKinds \cup SaidKinds \cup {"search"}, open : BOOLEAN, text : Parts,
   part : {"none", "open", "closed"}]

ResponsesUpstreams ==
  [count : Nat, said : Parts, thought : [Items -> Parts], args : [Items -> Parts],
   named : SUBSET Int, items : Seq(ResponsesItems),
   habits : {habits \in Habits : "interrupts" \notin habits}, looped : BOOLEAN,
   ended : BOOLEAN]

\* The calls whose arguments may still come.
OpenCalls(items) == {k \in DOMAIN items : items[k].open /\ items[k].kind \in CallKinds}

ResponsesInv(c, s, u) ==
  /\ u \in ResponsesUpstreams
  /\ Len(u.items) <= MaxItems
  /\ \/ ResponsesOver(c, s)
     \/ ResponsesWaiting(c, s) /\ u.items = << >>
     \/ Live(c, s, OpenCalls(u.items)) /\ Stuck(s)

LEMMA ResponsesReads ==
  ASSUME ResponsesInv(client, relay, upstream), Responses!Reads
  PROVE  /\ upstream \in ResponsesUpstreams
         /\ Len(upstream.items) <= MaxItems
         /\ \/ ResponsesWaiting(client, relay) /\ upstream.items = << >>
            \/ Live(client, relay, OpenCalls(upstream.items)) /\ Stuck(relay)
BY DEF ResponsesInv, Responses!Reads, ResponsesOver

LEMMA ItemsOf ==
  ASSUME NEW u \in ResponsesUpstreams, Len(u.items) <= MaxItems
  PROVE  /\ Len(u.items) \in Nat /\ DOMAIN u.items = 1..Len(u.items)
         /\ \A k \in DOMAIN u.items : k \in Items /\ k \in Nat \ {0}
                                      /\ u.items[k] \in ResponsesItems
<1>1. u.items \in Seq(ResponsesItems)
  BY DEF ResponsesUpstreams
<1>2. QED
  BY <1>1, SizeAssumption DEF Items

\* An item is one item later and another one not.
ItemChanged(items, k, item) == [items EXCEPT ![k] = item]

LEMMA ItemChangedIs ==
  ASSUME NEW items \in Seq(ResponsesItems), NEW k \in DOMAIN items,
         NEW item \in ResponsesItems, item.kind = items[k].kind
  PROVE  LET more == ItemChanged(items, k, item) IN
         /\ more \in Seq(ResponsesItems) /\ Len(more) = Len(items)
         /\ item.open = items[k].open => OpenCalls(more) = OpenCalls(items)
         /\ ~item.open => OpenCalls(more) = OpenCalls(items) \ {k}
<1> DEFINE more == ItemChanged(items, k, item)
<1>1. /\ more \in Seq(ResponsesItems) /\ Len(more) = Len(items)
      /\ DOMAIN more = DOMAIN items
      /\ \A j \in DOMAIN items : more[j] = IF j = k THEN item ELSE items[j]
  BY DEF ItemChanged
<1> HIDE DEF more
<1>2. item.open = items[k].open => OpenCalls(more) = OpenCalls(items)
  <2>1. SUFFICES ASSUME item.open = items[k].open
                 PROVE  \A j \in DOMAIN items :
                          (more[j].open /\ more[j].kind \in CallKinds)
                            <=> (items[j].open /\ items[j].kind \in CallKinds)
    BY <1>1 DEF OpenCalls
  <2>2. QED
    BY <1>1, <2>1
<1>3. ~item.open => OpenCalls(more) = OpenCalls(items) \ {k}
  <2>1. SUFFICES ASSUME ~item.open
                 PROVE  \A j \in DOMAIN items :
                          (more[j].open /\ more[j].kind \in CallKinds)
                            <=> /\ items[j].open /\ items[j].kind \in CallKinds
                                /\ j # k
    BY <1>1 DEF OpenCalls
  <2>2. QED
    BY <1>1, <2>1
<1>4. QED
  BY <1>1, <1>2, <1>3 DEF more

\* Item k after more of it.
ItemSent(k, parts) ==
  LET item == upstream.items[k] IN
  [item EXCEPT !.text = @ \o parts,
               !.part = IF parts # << >> /\ @ = "none" THEN "open" ELSE @]

LEMMA ItemSentIs ==
  ASSUME upstream \in ResponsesUpstreams, Len(upstream.items) <= MaxItems,
         NEW k \in DOMAIN upstream.items, NEW parts \in Parts
  PROVE  LET item == ItemSent(k, parts) IN
         /\ item \in ResponsesItems
         /\ item.kind = upstream.items[k].kind /\ item.open = upstream.items[k].open
         /\ [item EXCEPT !.open = FALSE] \in ResponsesItems
         /\ [item EXCEPT !.open = FALSE].kind = item.kind
         /\ ~[item EXCEPT !.open = FALSE].open
<1> DEFINE item == upstream.items[k]
           text == item.text \o parts
           part == IF parts # << >> /\ item.part = "none" THEN "open" ELSE item.part
<1>1. item \in ResponsesItems
  BY ItemsOf
<1>2. text \in Parts
  <2>1. item.text \in Parts
    BY <1>1 DEF ResponsesItems
  <2>2. QED
    BY <2>1, ChatPieces
<1>3. part \in {"none", "open", "closed"}
  BY <1>1 DEF ResponsesItems
<1>4. ItemSent(k, parts) = [item EXCEPT !.text = text, !.part = part]
  BY <1>1 DEF ItemSent, ResponsesItems
<1> HIDE DEF text, part, item
<1>5. QED
  BY <1>1, <1>2, <1>3, <1>4 DEF ResponsesItems, item

\* The upstream with its items changed, and perhaps what it has sent.
Grown(count, said, thought, args, items, named) ==
  [upstream EXCEPT !.count = count, !.said = said, !.thought = thought,
                   !.args = args, !.items = items, !.named = named]

LEMMA GrownIs ==
  ASSUME upstream \in ResponsesUpstreams, NEW count \in Nat, NEW said \in Parts,
         NEW thought \in [Items -> Parts], NEW args \in [Items -> Parts],
         NEW items \in Seq(ResponsesItems), NEW named \in SUBSET Int
  PROVE  LET u == Grown(count, said, thought, args, items, named) IN
         /\ u \in ResponsesUpstreams
         /\ u.items = items /\ u.named = named
BY Zenon DEF ResponsesUpstreams, Grown

LEMMA SentIs ==
  ASSUME upstream \in ResponsesUpstreams, Len(upstream.items) <= MaxItems,
         NEW k \in DOMAIN upstream.items, NEW parts \in Parts
  PROVE  \E count \in Nat, said \in Parts, thought \in [Items -> Parts],
            args \in [Items -> Parts] :
           Responses!Sent(k, parts)
             = Grown(count, said, thought, args,
                     ItemChanged(upstream.items, k, ItemSent(k, parts)), upstream.named)
<1> DEFINE item == upstream.items[k]
           count == upstream.count + Len(parts)
           said == IF item.kind = "message" THEN upstream.said \o parts ELSE upstream.said
           thought == [upstream.thought EXCEPT ![k] =
                         IF item.kind \in {"reasoning", "commentary"}
                         THEN @ \o parts ELSE @]
           args == [upstream.args EXCEPT ![k] =
                      IF item.kind \in CallKinds THEN @ \o parts ELSE @]
           items == ItemChanged(upstream.items, k, ItemSent(k, parts))
<1>1. /\ upstream.count \in Nat /\ upstream.said \in Parts
      /\ upstream.thought \in [Items -> Parts] /\ upstream.args \in [Items -> Parts]
      /\ upstream.items \in Seq(ResponsesItems)
  BY DEF ResponsesUpstreams
<1>2. k \in Items /\ item \in ResponsesItems
  BY ItemsOf
<1>3. count \in Nat
  BY <1>1 DEF Parts
<1>4. said \in Parts
  BY <1>1, ChatPieces
<1>5. thought \in [Items -> Parts]
  <2>1. upstream.thought[k] \in Parts /\ upstream.thought[k] \o parts \in Parts
    BY <1>1, <1>2, ChatPieces
  <2>2. QED
    BY <1>1, <2>1
<1>6. args \in [Items -> Parts]
  <2>1. upstream.args[k] \in Parts /\ upstream.args[k] \o parts \in Parts
    BY <1>1, <1>2, ChatPieces
  <2>2. QED
    BY <1>1, <2>1
<1>7. Responses!Sent(k, parts) = Grown(count, said, thought, args, items, upstream.named)
  BY <1>1, <1>2 DEF Responses!Sent, Grown, ItemChanged, ItemSent, CallKinds,
     Responses!CallKinds, ResponsesUpstreams, ResponsesItems
<1>8. QED
  BY <1>3, <1>4, <1>5, <1>6, <1>7

\* The calls of the output are of items that were sent.
Listed(calls, k) ==
  IF ~Responses!IsCall(k) THEN calls
  ELSE Append(calls, [key |-> k, custom |-> upstream.items[k].kind = "custom",
                      args |-> upstream.args[k]])

LEMMA OutputCallsAre ==
  ASSUME upstream \in ResponsesUpstreams, Len(upstream.items) <= MaxItems
  PROVE  Responses!OutputCalls \in Seq(TerminalCalls)
<1> DEFINE n == Len(upstream.items)
           output == [k \in DOMAIN upstream.items |-> k]
           S == Seq(TerminalCalls)
           step == [p \in S \X (1..n) |-> Listed(p[1], output[p[2]])]
           IsFold(it) == it = [u \in SUBSET DOMAIN output |->
                                 IF u = {} THEN << >>
                                 ELSE Listed(it[u \ {Max(u)}], output[Max(u)])]
           fold == CHOOSE it : IsFold(it)
<1>1. << >> \in S
  OBVIOUS
<1>2. Responses!OutputCalls = fold[DOMAIN output]
  BY DEF Responses!OutputCalls, Responses!ItemsSent, Listed, Responses!FoldLeft,
     Responses!MapThenFoldSet, Responses!Max, Max
<1>3. n \in Nat /\ DOMAIN output = 1..n /\ \A i \in 1..n : output[i] = i
  BY ItemsOf
<1>4. \A t \in S, i \in 1..n : Listed(t, output[i]) \in S
  <2>1. TAKE t \in S, i \in 1..n
  <2> DEFINE call == [key |-> i, custom |-> upstream.items[i].kind = "custom",
                      args |-> upstream.args[i]]
  <2>2. i \in Items
    BY ItemsOf
  <2>3. upstream.args[i] \in Parts
    BY <2>2 DEF ResponsesUpstreams
  <2>4. call \in TerminalCalls
    BY <2>2, <2>3 DEF TerminalCalls
  <2>5. Listed(t, output[i]) = IF ~Responses!IsCall(i) THEN t ELSE Append(t, call)
    BY <1>3 DEF Listed
  <2> HIDE DEF call
  <2>6. t \in Seq(TerminalCalls)
    BY <2>1
  <2>7. Append(t, call) \in Seq(TerminalCalls)
    BY <2>4, <2>6
  <2> DEFINE more == Append(t, call)
  <2> HIDE DEF more
  <2>8. more \in S
    BY <2>7 DEF more
  <2>9. Listed(t, output[i]) = IF ~Responses!IsCall(i) THEN t ELSE more
    BY <2>5 DEF more
  <2> HIDE DEF output, S
  <2>10. QED
    BY <2>1, <2>8, <2>9
<1> HIDE DEF n, output, S
<1>5. IsFold(fold)
  <2>1. step \in [S \X (1..n) -> S]
    BY <1>4
  <2>2. PICK g \in [SUBSET (1..n) -> S] : Staged(n, g, << >>, step)
    BY <1>1, <1>3, <2>1, StagesExist
  <2>3. \A t \in S, k \in 1..n : step[<<t, k>>] = Listed(t, output[k])
    OBVIOUS
  <2> HIDE DEF step
  <2>4. \A u \in SUBSET (1..n) : u # {} =>
          step[<<g[u \ {Max(u)}], Max(u)>>] = Listed(g[u \ {Max(u)}], output[Max(u)])
    <3>1. TAKE u \in SUBSET (1..n)
    <3>2. HAVE u # {}
    <3>3. Max(u) \in 1..n
      BY <1>3, <3>2, FirstNumbers
    <3>4. u \ {Max(u)} \in SUBSET (1..n)
      BY <3>1
    <3>5. g[u \ {Max(u)}] \in S
      BY <2>2, <3>4
    <3>6. QED
      BY <2>3, <3>3, <3>5
  <2>5. \A u \in SUBSET (1..n) :
          g[u] = IF u = {} THEN << >> ELSE Listed(g[u \ {Max(u)}], output[Max(u)])
    BY <2>2, <2>4 DEF Staged
  <2>6. IsFold(g)
    BY <1>3, <2>5
  <2>7. QED
    BY <2>6
<1> HIDE DEF fold
<1>6. fold[{}] = << >>
  <2>1. {} \in SUBSET (DOMAIN output)
    OBVIOUS
  <2>2. QED
    BY <1>5, <2>1
<1>7. \A k \in 1..n : fold[1..k] = Listed(fold[1..(k - 1)], output[k])
  <2>1. TAKE k \in 1..n
  <2>2. /\ 1..k # {} /\ 1..k \in SUBSET (1..n)
        /\ Max(1..k) = k /\ (1..k) \ {k} = 1..(k - 1)
    BY <1>3, FirstNumbers
  <2>3. fold[1..k] = Listed(fold[(1..k) \ {Max(1..k)}], output[Max(1..k)])
    BY <1>3, <1>5, <2>2
  <2>4. QED
    BY <2>2, <2>3
<1> DEFINE P == {k \in 0..n : fold[1..k] \in S}
<1>8. 0 \in P
  BY <1>1, <1>3, <1>6, FirstNumbers
<1>9. \A k \in 1..n : k - 1 \in P => k \in P
  BY <1>4, <1>7
<1> HIDE DEF P
<1>10. n \in P
  BY <1>3, <1>8, <1>9, LastStage
<1>11. fold[DOMAIN output] \in S
  BY <1>3, <1>10 DEF P
<1>12. QED
  BY <1>2, <1>11 DEF S

\* No call is shown when all are done.
LEMMA NoneOpenNoneShown ==
  ASSUME NEW c, NEW s, Live(c, s, {}), Stuck(s)
  PROVE  s.active = 0
BY DEF Live, Stuck, Expected, ResponsesMid, Exclusive, ActiveCall

LEMMA EventIs ==
  ASSUME upstream \in ResponsesUpstreams, Len(upstream.items) <= MaxItems,
         NEW type \in PartTypes \cup {"item.added", "item.done", "arguments.delta",
                                      "arguments.done"},
         NEW k \in DOMAIN upstream.items, NEW parts \in Parts, NEW key \in {0, k},
         NEW sig \in Int
  PROVE  LET ev == [type |-> type, kind |-> upstream.items[k].kind, key |-> key,
                    parts |-> parts, sig |-> sig, name |-> 0] IN
         /\ ev \in Events
         /\ ev.type = type /\ ev.kind = upstream.items[k].kind /\ ev.key = key
         /\ type \in PartTypes => ev \in QuietEvents
         /\ Responses!Event(type, k, parts)
              = [type |-> type, kind |-> upstream.items[k].kind, key |-> k,
                 parts |-> parts, sig |-> 0, name |-> 0]
<1>1. upstream.items[k].kind \in CallKinds \cup SaidKinds \cup {"search"}
      /\ k \in Items /\ k # 0 /\ k \in Int /\ key \in Int
  BY ItemsOf DEF ResponsesItems
<1>2. QED
  BY <1>1, ResponsesFrames DEF Events, QuietEvents, Responses!Event

LEMMA EventForm ==
  ASSUME NEW type, NEW k, NEW parts, k # 0
  PROVE  Responses!Event(type, k, parts)
           = [type |-> type, kind |-> upstream.items[k].kind, key |-> k,
              parts |-> parts, sig |-> 0, name |-> 0]
BY ResponsesFrames DEF Responses!Event

LEMMA QuietEvent ==
  ASSUME upstream \in ResponsesUpstreams, Len(upstream.items) <= MaxItems,
         NEW k \in DOMAIN upstream.items, NEW type \in PartTypes
  PROVE  Responses!Event(type, k, << >>) \in QuietEvents
<1>1. upstream.items[k].kind \in CallKinds \cup SaidKinds \cup {"search"}
      /\ k \in Items /\ k # 0 /\ k \in Int
  BY ItemsOf DEF ResponsesItems
<1>2. << >> \in Parts
  BY ChatPieces
<1>3. QED
  BY <1>1, <1>2, EventForm DEF Events, QuietEvents

LEMMA ItemAppended ==
  ASSUME NEW items \in Seq(ResponsesItems), NEW item \in ResponsesItems
  PROVE  LET more == Append(items, item) IN
         /\ more \in Seq(ResponsesItems) /\ Len(more) = Len(items) + 1
         /\ OpenCalls(more) \subseteq OpenCalls(items) \cup {Len(items) + 1}
         /\ OpenCalls(items) \subseteq OpenCalls(more)
         /\ ~item.open \/ item.kind \notin CallKinds => OpenCalls(more) = OpenCalls(items)
         /\ item.open /\ item.kind \in CallKinds =>
              OpenCalls(more) = OpenCalls(items) \cup {Len(items) + 1}
<1> DEFINE more == Append(items, item)
           n == Len(items)
<1>1. /\ more \in Seq(ResponsesItems) /\ Len(more) = n + 1 /\ n \in Nat
      /\ DOMAIN more = 1..(n + 1) /\ DOMAIN items = 1..n
      /\ \A j \in 1..n : more[j] = items[j]
      /\ more[n + 1] = item
  OBVIOUS
<1> HIDE DEF more, n
<1>2. \A j \in DOMAIN more : j \in DOMAIN items \/ j = n + 1
  BY <1>1
<1>3. \A j \in DOMAIN items : j \in DOMAIN more /\ more[j] = items[j] /\ j # n + 1
  BY <1>1
<1>4. \A j : j \in OpenCalls(more) <=>
        \/ j \in OpenCalls(items)
        \/ j = n + 1 /\ item.open /\ item.kind \in CallKinds
  BY <1>1, <1>2, <1>3 DEF OpenCalls
<1>5. QED
  BY <1>1, <1>4 DEF more, n

\* What is remembered of an event that is no output.
LEMMA NotMeaningful ==
  ASSUME NEW s \in ResponsesStates, NEW ev, ~Responses!is_meaningful_output_delta(ev)
  PROVE  [s EXCEPT !.sawDelta = @ \/ Responses!is_meaningful_output_delta(ev)] = s
<1>1. s.sawDelta \in BOOLEAN
  BY DEF ResponsesStates
<1>2. (s.sawDelta \/ Responses!is_meaningful_output_delta(ev)) = s.sawDelta
  BY <1>1
<1>3. QED
  BY <1>2 DEF ResponsesStates

LEMMA CreatedStep ==
  ASSUME ResponsesInv(client, relay, upstream), Responses!Created
  PROVE  client' = client /\ ResponsesInv(client, relay', upstream')
<1> DEFINE ev == Responses!Event("created", Responses!None, << >>)
           t == Responses!ensure_started(relay)
<1>1. /\ Responses!Reads /\ ~relay.started /\ relay' = Responses!process(relay, ev)
      /\ client' = client /\ upstream' = upstream
  BY DEF Responses!Created, Responses!Sends
<1>2. /\ ResponsesWaiting(client, relay) /\ upstream.items = << >>
      /\ upstream \in ResponsesUpstreams
  BY <1>1, ResponsesReads DEF Live
<1>3. ev.type = "created"
  BY DEF Responses!Event
<1> HIDE DEF ev
<1>4. /\ relay \in ResponsesStates /\ ~relay.finished
      /\ Responses!None = 0 /\ relay.active = 0
  BY <1>2, ResponsesFrames DEF ResponsesWaiting
<1>5. ~Responses!is_meaningful_output_delta(ev)
  BY <1>3 DEF Responses!is_meaningful_output_delta
<1>6. relay' = Responses!Handle(relay, ev)
  BY <1>1, <1>4, <1>5, NotMeaningful DEF Responses!process
<1>7. relay' = t
  BY <1>3, <1>6 DEF Responses!Handle
<1>8. Live(client, t, {}) /\ t.active = 0
  BY <1>2, ResponsesStarted
<1> HIDE DEF t
<1>9. OpenCalls(upstream.items) = {} /\ Len(upstream.items) <= MaxItems
  BY <1>1, <1>2, ResponsesReads DEF OpenCalls
<1>10. QED
  BY <1>1, <1>2, <1>7, <1>8, <1>9 DEF ResponsesInv, Stuck

LEMMA AddItemStep ==
  ASSUME ResponsesInv(client, relay, upstream), Responses!AddItem
  PROVE  client' = client /\ ResponsesInv(client, relay', upstream')
<1> DEFINE k == Len(upstream.items) + 1
<1>1. PICK kind \in Responses!ItemKinds, sig \in Responses!Signatures(k),
           name \in {Responses!None, k} :
        /\ Responses!Reads /\ relay.started /\ k \in Responses!Items
        /\ relay' = Responses!process(relay,
             [type |-> "item.added", kind |-> kind, key |-> k, parts |-> << >>,
              sig |-> sig, name |-> name])
        /\ upstream' = [upstream EXCEPT
             !.items = Append(@, [kind |-> kind, open |-> TRUE, text |-> << >>,
                                  part |-> "none"]),
             !.named = @ \cup ({name} \ {Responses!None})]
        /\ client' = client
  BY Zenon DEF Responses!AddItem, Responses!Sends
<1> DEFINE ev == [type |-> "item.added", kind |-> kind, key |-> k, parts |-> << >>,
                  sig |-> sig, name |-> name]
           item == [kind |-> kind, open |-> TRUE, text |-> << >>, part |-> "none"]
           items == Append(upstream.items, item)
           named == upstream.named \cup ({name} \ {Responses!None})
           open == OpenCalls(upstream.items)
<1>2. /\ Live(client, relay, open) /\ Stuck(relay)
      /\ upstream \in ResponsesUpstreams /\ Len(upstream.items) <= MaxItems
  BY <1>1, ResponsesReads DEF ResponsesWaiting
<1>3. /\ upstream.count \in Nat /\ upstream.said \in Parts
      /\ upstream.thought \in [Items -> Parts] /\ upstream.args \in [Items -> Parts]
      /\ upstream.items \in Seq(ResponsesItems) /\ upstream.named \in SUBSET Int
  BY <1>2 DEF ResponsesUpstreams
<1>4. Len(upstream.items) \in Nat /\ k \in Items /\ k \in Nat \ {0} /\ k <= MaxItems
  BY <1>1, <1>2, ItemsOf, SizeAssumption DEF Items, Responses!Items
<1> HIDE DEF k
<1>5. kind \in CallKinds \cup SaidKinds /\ sig \in Int /\ name \in Int
  BY <1>4, ResponsesFrames, SizeAssumption
     DEF Responses!ItemKinds, Responses!CallKinds, CallKinds, SaidKinds,
         Responses!Signatures
<1>6. ev \in Events /\ (kind \in SaidKinds => ev \in QuietEvents)
      /\ ev.type = "item.added" /\ ev.kind = kind /\ ev.key = k
  BY <1>4, <1>5, ChatPieces DEF Events, QuietEvents
<1>7. item \in ResponsesItems /\ item.kind = kind /\ item.open
  BY <1>5, ChatPieces DEF ResponsesItems
<1>8. relay' = Responses!process(relay, ev)
  BY <1>1
<1>9. upstream' = [upstream EXCEPT !.items = items, !.named = named]
  BY <1>1, <1>2 DEF ResponsesUpstreams
<1> HIDE DEF ev, item
<1>10. /\ items \in Seq(ResponsesItems) /\ Len(items) = k
       /\ kind \notin CallKinds => OpenCalls(items) = open
       /\ kind \in CallKinds => OpenCalls(items) = open \cup {k}
  BY <1>3, <1>7, ItemAppended DEF k
<1> HIDE DEF items, open
<1>11. named \in SUBSET Int
  BY <1>3, <1>5
<1> HIDE DEF named
<1>12. upstream' \in ResponsesUpstreams /\ upstream'.items = items
  <2>1. upstream' = Grown(upstream.count, upstream.said, upstream.thought, upstream.args,
                          items, named)
    BY <1>2, <1>9 DEF Grown, ResponsesUpstreams
  <2>2. QED
    BY <1>2, <1>3, <1>10, <1>11, <2>1, GrownIs
<1>13. Live(client, relay', OpenCalls(items)) /\ Stuck(relay')
  <2>1. CASE kind \in SaidKinds
    <3>1. kind \notin CallKinds
      BY <2>1 DEF SaidKinds, CallKinds
    <3>2. QED
      BY <1>2, <1>6, <1>8, <1>10, <2>1, <3>1, QuietKept
  <2>2. CASE kind \in CallKinds
    <3>1. ev.key \in Items \cup {0} /\ ev.key # 0
      BY <1>4, <1>6
    <3>2. ev.type = "item.added" /\ ev.kind \in CallKinds /\ ev \in Events
      BY <1>6, <2>2
    <3>3. Live(client, relay, open) /\ Stuck(relay)
      BY <1>2
    <3>4. Live(client, Responses!process(relay, ev), open \cup {ev.key})
          /\ Stuck(Responses!process(relay, ev))
      BY <3>1, <3>2, <3>3, CallEventKept, Zenon
    <3>5. OpenCalls(items) = open \cup {ev.key}
      BY <1>6, <1>10, <2>2
    <3>6. QED
      BY <1>8, <3>4, <3>5
  <2>3. QED
    BY <1>5, <2>1, <2>2
<1>14. QED
  BY <1>1, <1>4, <1>10, <1>12, <1>13 DEF ResponsesInv

\* An event about an item comes when the item is open.
LEMMA CurrentItem ==
  ASSUME ResponsesInv(client, relay, upstream), Responses!Reads,
         NEW k \in Responses!Current
  PROVE  /\ Live(client, relay, OpenCalls(upstream.items)) /\ Stuck(relay)
         /\ upstream \in ResponsesUpstreams /\ Len(upstream.items) <= MaxItems
         /\ upstream.items \in Seq(ResponsesItems)
         /\ k \in DOMAIN upstream.items /\ k \in Items /\ k # 0
         /\ upstream.items[k] \in ResponsesItems /\ upstream.items[k].open
<1>1. k \in DOMAIN upstream.items /\ upstream.items[k].open
  BY DEF Responses!Current, Responses!ItemsSent
<1>2. upstream.items # << >>
  BY <1>1
<1>3. QED
  BY <1>1, <1>2, ResponsesReads, ItemsOf DEF ResponsesUpstreams

\* Part k is opened or closed.
LEMMA PartStep ==
  ASSUME ResponsesInv(client, relay, upstream), NEW k \in Responses!Current,
         Responses!SummaryPart(k) \/ Responses!TextPart(k)
  PROVE  client' = client /\ ResponsesInv(client, relay', upstream')
<1>1. PICK type \in {"part.added", "text.added", "text.done"},
           to \in {"open", "closed"} :
        /\ Responses!Reads
        /\ relay' = Responses!process(relay, Responses!Event(type, k, << >>))
        /\ upstream' = [upstream EXCEPT !.items[k].part = to]
        /\ client' = client
  BY Zenon DEF Responses!SummaryPart, Responses!TextPart, Responses!Part,
     Responses!Sends
<1> DEFINE item == [upstream.items[k] EXCEPT !.part = to]
           items == ItemChanged(upstream.items, k, item)
<1>2. /\ Live(client, relay, OpenCalls(upstream.items)) /\ Stuck(relay)
      /\ upstream \in ResponsesUpstreams /\ Len(upstream.items) <= MaxItems
      /\ upstream.items \in Seq(ResponsesItems)
      /\ k \in DOMAIN upstream.items /\ upstream.items[k] \in ResponsesItems
  BY <1>1, CurrentItem
<1>3. Responses!Event(type, k, << >>) \in QuietEvents
  <2>1. type \in PartTypes /\ << >> \in Parts /\ 0 \in Int
    BY ChatPieces DEF PartTypes
  <2>2. QED
    BY <1>2, <2>1, QuietEvent
<1>4. Live(client, relay', OpenCalls(upstream.items)) /\ Stuck(relay')
  BY <1>1, <1>2, <1>3, QuietKept
<1>5. /\ item \in ResponsesItems
      /\ item.kind = upstream.items[k].kind /\ item.open = upstream.items[k].open
  BY <1>2 DEF ResponsesItems
<1>6. /\ items \in Seq(ResponsesItems) /\ Len(items) = Len(upstream.items)
      /\ OpenCalls(items) = OpenCalls(upstream.items)
  BY <1>2, <1>5, ItemChangedIs
<1>7. upstream' = [upstream EXCEPT !.items = items]
  BY <1>1, <1>2 DEF ItemChanged, ResponsesUpstreams, ResponsesItems
<1> HIDE DEF items
<1>8. upstream' \in ResponsesUpstreams /\ upstream'.items = items
  BY <1>2, <1>6, <1>7 DEF ResponsesUpstreams
<1>9. QED
  BY <1>1, <1>2, <1>4, <1>6, <1>8 DEF ResponsesInv

\* More of item k has been sent; the message goes on.
LEMMA SentKept ==
  ASSUME upstream \in ResponsesUpstreams, Len(upstream.items) <= MaxItems,
         NEW k \in DOMAIN upstream.items, NEW parts \in Parts,
         Live(client, relay', OpenCalls(upstream.items)), Stuck(relay'),
         upstream' = Responses!Sent(k, parts)
  PROVE  ResponsesInv(client, relay', upstream')
<1> DEFINE item == ItemSent(k, parts)
           items == ItemChanged(upstream.items, k, item)
<1>1. upstream.items \in Seq(ResponsesItems) /\ upstream.named \in SUBSET Int
  BY DEF ResponsesUpstreams
<1>2. /\ item \in ResponsesItems
      /\ item.kind = upstream.items[k].kind /\ item.open = upstream.items[k].open
  BY ItemSentIs
<1>3. /\ items \in Seq(ResponsesItems) /\ Len(items) = Len(upstream.items)
      /\ OpenCalls(items) = OpenCalls(upstream.items)
  BY <1>1, <1>2, ItemChangedIs
<1>4. PICK count \in Nat, said \in Parts, thought \in [Items -> Parts],
           args \in [Items -> Parts] :
        upstream' = Grown(count, said, thought, args, items, upstream.named)
  BY SentIs
<1> HIDE DEF items
<1>5. upstream' \in ResponsesUpstreams /\ upstream'.items = items
  BY <1>1, <1>3, <1>4, GrownIs
<1>6. QED
  BY <1>3, <1>5 DEF ResponsesInv

LEMMA FreshIs == \A parts \in Responses!Fresh :
                   upstream \in ResponsesUpstreams => parts \in Parts
BY ChatPieces DEF Responses!Fresh, Responses!Next1, ResponsesUpstreams

LEMMA DeltaStep ==
  ASSUME ResponsesInv(client, relay, upstream), NEW k \in Responses!Current,
         Responses!Delta(k)
  PROVE  client' = client /\ ResponsesInv(client, relay', upstream')
<1> DEFINE type == CASE upstream.items[k].kind = "reasoning" -> "reasoning.delta"
                     [] Responses!IsCall(k) -> "arguments.delta"
                     [] OTHER -> "text.delta"
<1>1. PICK parts \in Responses!Fresh, keyed \in BOOLEAN :
        /\ Responses!Reads
        /\ ~keyed => Responses!IsCall(k)
        /\ relay' = Responses!process(relay, [Responses!Event(type, k, parts) EXCEPT
                                                !.key = IF keyed THEN k ELSE Responses!None])
        /\ upstream' = Responses!Sent(k, parts)
        /\ client' = client
  BY Zenon DEF Responses!Delta, Responses!Sends
<1> DEFINE key == IF keyed THEN k ELSE 0
           ev == [type |-> type, kind |-> upstream.items[k].kind, key |-> key,
                  parts |-> parts, sig |-> 0, name |-> 0]
<1>2. /\ Live(client, relay, OpenCalls(upstream.items)) /\ Stuck(relay)
      /\ upstream \in ResponsesUpstreams /\ Len(upstream.items) <= MaxItems
      /\ k \in DOMAIN upstream.items /\ k \in Items
  BY <1>1, CurrentItem
<1>3. parts \in Parts
  BY <1>2, FreshIs
<1>4. /\ type \in PartTypes \/ type = "arguments.delta"
      /\ type \in PartTypes \cup {"item.added", "item.done", "arguments.delta",
                                  "arguments.done"}
  BY DEF PartTypes
<1> HIDE DEF type
<1>5. key \in {0, k} /\ key \in Items \cup {0} /\ k \in {0, k} /\ 0 \in Int
  BY <1>2
<1> HIDE DEF key
<1>6. /\ ev \in Events /\ ev.type = type /\ ev.key = key
      /\ type \in PartTypes => ev \in QuietEvents
      /\ Responses!Event(type, k, parts)
           = [type |-> type, kind |-> upstream.items[k].kind, key |-> k,
              parts |-> parts, sig |-> 0, name |-> 0]
  BY <1>2, <1>3, <1>4, <1>5, EventIs
<1>7. relay' = Responses!process(relay, ev)
  BY <1>1, <1>6, ResponsesFrames DEF key
<1> HIDE DEF ev
<1>8. Live(client, relay', OpenCalls(upstream.items)) /\ Stuck(relay')
  <2>1. CASE type \in PartTypes
    BY <1>2, <1>6, <1>7, <2>1, QuietKept
  <2>2. CASE type = "arguments.delta"
    BY <1>2, <1>5, <1>6, <1>7, <2>2, CallEventKept
  <2>3. QED
    BY <1>4, <2>1, <2>2
<1>9. QED
  BY <1>1, <1>2, <1>3, <1>8, SentKept

LEMMA AllArgumentsStep ==
  ASSUME ResponsesInv(client, relay, upstream), NEW k \in Responses!Current,
         Responses!AllArguments(k)
  PROVE  client' = client /\ ResponsesInv(client, relay', upstream')
<1>1. PICK parts \in Responses!Fresh :
        /\ Responses!Reads
        /\ relay' = Responses!process(relay, Responses!Event("arguments.done", k,
                                               upstream.args[k] \o parts))
        /\ upstream' = Responses!Sent(k, parts)
        /\ client' = client
  BY Zenon DEF Responses!AllArguments, Responses!Sends
<1> DEFINE args == upstream.args[k] \o parts
           ev == [type |-> "arguments.done", kind |-> upstream.items[k].kind, key |-> k,
                  parts |-> args, sig |-> 0, name |-> 0]
<1>2. /\ Live(client, relay, OpenCalls(upstream.items)) /\ Stuck(relay)
      /\ upstream \in ResponsesUpstreams /\ Len(upstream.items) <= MaxItems
      /\ k \in DOMAIN upstream.items /\ k \in Items
  BY <1>1, CurrentItem
<1>3. parts \in Parts
  BY <1>2, FreshIs
<1>4. args \in Parts
  <2>1. upstream.args[k] \in Parts
    BY <1>2 DEF ResponsesUpstreams
  <2>2. QED
    BY <1>3, <2>1, ChatPieces
<1>5. k \in {0, k} /\ k \in Items \cup {0} /\ 0 \in Int
      /\ "arguments.done" \in PartTypes \cup {"item.added", "item.done",
                                "arguments.delta", "arguments.done"}
  BY <1>2
<1> HIDE DEF args
<1>6. /\ ev \in Events /\ ev.type = "arguments.done" /\ ev.key = k
      /\ Responses!Event("arguments.done", k, args) = ev
  BY <1>2, <1>4, <1>5, EventIs
<1>7. relay' = Responses!process(relay, ev)
  BY <1>1, <1>6 DEF args
<1> HIDE DEF ev
<1>8. Live(client, relay', OpenCalls(upstream.items)) /\ Stuck(relay')
  BY <1>2, <1>5, <1>6, <1>7, CallEventKept
<1>9. QED
  BY <1>1, <1>2, <1>3, <1>8, SentKept

LEMMA FinishItemStep ==
  ASSUME ResponsesInv(client, relay, upstream), NEW k \in Responses!Current,
         Responses!FinishItem(k)
  PROVE  client' = client /\ ResponsesInv(client, relay', upstream')
<1>1. PICK parts \in Responses!Fresh, sig \in Responses!Signatures(k) :
        /\ Responses!Reads
        /\ relay' = Responses!process(relay,
             [Responses!Event("item.done", k, upstream.items[k].text \o parts)
                EXCEPT !.sig = sig])
        /\ upstream' = [Responses!Sent(k, parts) EXCEPT
             !.items[k].open = FALSE,
             !.named = IF Responses!IsCall(k) THEN @ \cup {k} ELSE @]
        /\ client' = client
  BY Zenon DEF Responses!FinishItem, Responses!Sends
<1> DEFINE kind == upstream.items[k].kind
           text == upstream.items[k].text \o parts
           ev == [type |-> "item.done", kind |-> kind, key |-> k,
                  parts |-> text, sig |-> sig, name |-> 0]
           sent == ItemSent(k, parts)
           item == [sent EXCEPT !.open = FALSE]
           items == ItemChanged(upstream.items, k, item)
           named == IF Responses!IsCall(k) THEN upstream.named \cup {k} ELSE upstream.named
           open == OpenCalls(upstream.items)
<1>2. /\ Live(client, relay, open) /\ Stuck(relay)
      /\ upstream \in ResponsesUpstreams /\ Len(upstream.items) <= MaxItems
      /\ upstream.items \in Seq(ResponsesItems) /\ upstream.named \in SUBSET Int
      /\ k \in DOMAIN upstream.items /\ k \in Items /\ k # 0 /\ k \in Int
      /\ upstream.items[k] \in ResponsesItems /\ upstream.items[k].open
  BY <1>1, CurrentItem DEF ResponsesUpstreams, Items
<1>3. parts \in Parts
  BY <1>2, FreshIs
<1>4. text \in Parts
  <2>1. upstream.items[k].text \in Parts
    BY <1>2 DEF ResponsesItems
  <2>2. QED
    BY <1>3, <2>1, ChatPieces
<1>5. sig \in Int
  BY <1>2, ResponsesFrames, SizeAssumption DEF Responses!Signatures
<1>6. /\ ev \in Events /\ ev.type = "item.done" /\ ev.kind = kind /\ ev.key = k
      /\ ev = [Responses!Event("item.done", k, text) EXCEPT !.sig = sig]
  <2>1. k \in {0, k} /\ "item.done" \in PartTypes \cup {"item.added", "item.done",
                                "arguments.delta", "arguments.done"}
    OBVIOUS
  <2>2. Responses!Event("item.done", k, text)
          = [type |-> "item.done", kind |-> kind, key |-> k,
             parts |-> text, sig |-> 0, name |-> 0]
    BY <1>2, EventForm
  <2>3. /\ kind \in CallKinds \cup SaidKinds \cup {"search"}
        /\ k \in Int /\ 0 \in Int
    BY <1>2 DEF ResponsesItems
  <2> HIDE DEF kind, text
  <2>4. ev \in Events
    BY <1>4, <1>5, <2>1, <2>3 DEF Events
  <2>5. QED
    BY <2>2, <2>4
<1>7. relay' = Responses!process(relay, ev)
  BY <1>1, <1>6
<1> HIDE DEF ev, text
<1>8. kind \in CallKinds \cup SaidKinds \cup {"search"}
  BY <1>2 DEF ResponsesItems
<1>9. /\ kind \in CallKinds => Live(client, relay', open \ {k})
      /\ kind \notin CallKinds => Live(client, relay', open) /\ k \notin open
      /\ Stuck(relay')
  <2>1. CASE kind \in CallKinds
    <3>1. ev.key \in Items \cup {0} /\ ev.key # 0
      BY <1>2, <1>6
    <3>2. QED
      BY <1>2, <1>6, <1>7, <2>1, <3>1, CallEventKept
  <2>2. CASE kind \notin CallKinds
    <3>1. ev \in QuietEvents
      BY <1>6, <1>8, <2>2 DEF QuietEvents
    <3>2. k \notin open
      BY <2>2 DEF OpenCalls
    <3>3. QED
      BY <1>2, <1>7, <2>2, <3>1, <3>2, QuietKept
  <2>3. QED
    BY <2>1, <2>2
<1>10. /\ item \in ResponsesItems /\ item.kind = kind /\ ~item.open
  BY <1>2, <1>3, ItemSentIs
<1>11. /\ items \in Seq(ResponsesItems) /\ Len(items) = Len(upstream.items)
       /\ OpenCalls(items) = open \ {k}
  BY <1>2, <1>10, ItemChangedIs
<1>12. Live(client, relay', OpenCalls(items))
  <2>1. k \notin open => open \ {k} = open
    OBVIOUS
  <2>2. QED
    BY <1>9, <1>11, <2>1
<1> HIDE DEF open
<1>13. named \in SUBSET Int
  BY <1>2
<1> HIDE DEF named
<1>14. upstream' \in ResponsesUpstreams /\ upstream'.items = items
  <2>1. PICK count \in Nat, said \in Parts, thought \in [Items -> Parts],
             args \in [Items -> Parts] :
          Responses!Sent(k, parts)
            = Grown(count, said, thought, args,
                    ItemChanged(upstream.items, k, sent), upstream.named)
    BY <1>2, <1>3, SentIs
  <2> DEFINE was == ItemChanged(upstream.items, k, sent)
  <2>2. [was EXCEPT ![k].open = FALSE] = items
    BY <1>2 DEF ItemChanged
  <2>3. Grown(count, said, thought, args, was, upstream.named).items = was
        /\ Grown(count, said, thought, args, was, upstream.named).named = upstream.named
    BY <1>2 DEF Grown, ResponsesUpstreams
  <2> HIDE DEF was, items
  <2>4. upstream' = [Grown(count, said, thought, args, was, upstream.named)
                       EXCEPT !.items = items, !.named = named]
    BY <1>1, <2>1, <2>2, <2>3 DEF was, named
  <2>5. upstream' = Grown(count, said, thought, args, items, named)
    BY <2>4 DEF Grown
  <2>6. QED
    BY <1>2, <1>11, <1>13, <2>5, GrownIs
<1>15. QED
  BY <1>1, <1>2, <1>9, <1>11, <1>12, <1>14 DEF ResponsesInv

LEMMA SearchStep ==
  ASSUME ResponsesInv(client, relay, upstream), Responses!Search
  PROVE  client' = client /\ ResponsesInv(client, relay', upstream')
<1> DEFINE k == Len(upstream.items) + 1
<1>1. PICK parts \in Responses!Fresh :
        /\ Responses!Reads /\ relay.started /\ k \in Responses!Items
        /\ relay' = Responses!process(relay,
             [type |-> "item.done", kind |-> "search", key |-> k, parts |-> parts,
              sig |-> Responses!None, name |-> Responses!None])
        /\ upstream' = [upstream EXCEPT
             !.count = @ + Len(parts),
             !.items = Append(@, [kind |-> "search", open |-> FALSE, text |-> parts,
                                  part |-> "closed"])]
        /\ client' = client
  BY Zenon DEF Responses!Search, Responses!Sends
<1> DEFINE ev == [type |-> "item.done", kind |-> "search", key |-> k, parts |-> parts,
                  sig |-> Responses!None, name |-> Responses!None]
           item == [kind |-> "search", open |-> FALSE, text |-> parts, part |-> "closed"]
           items == Append(upstream.items, item)
           count == upstream.count + Len(parts)
           open == OpenCalls(upstream.items)
<1>2. /\ Live(client, relay, open) /\ Stuck(relay)
      /\ upstream \in ResponsesUpstreams /\ Len(upstream.items) <= MaxItems
  BY <1>1, ResponsesReads DEF ResponsesWaiting
<1>3. upstream.items \in Seq(ResponsesItems) /\ upstream.count \in Nat
  BY <1>2 DEF ResponsesUpstreams
<1>4. Len(upstream.items) \in Nat /\ k \in Int /\ k <= MaxItems
  BY <1>1, <1>2, ItemsOf, SizeAssumption DEF Items, Responses!Items
<1> HIDE DEF k
<1>5. parts \in Parts /\ Len(parts) \in Nat /\ count \in Nat
  <2>1. parts \in Parts
    BY <1>2, FreshIs
  <2>2. QED
    BY <1>3, <2>1 DEF Parts
<1>6. ev \in QuietEvents
  BY <1>4, <1>5, ResponsesFrames DEF Events, QuietEvents
<1>7. item \in ResponsesItems /\ ~item.open
  BY <1>5 DEF ResponsesItems
<1>8. Live(client, relay', open) /\ Stuck(relay')
  <2>1. relay' = Responses!process(relay, ev)
    BY <1>1
  <2> HIDE DEF ev
  <2>2. QED
    BY <1>2, <1>6, <2>1, QuietKept
<1>9. upstream' = [upstream EXCEPT !.count = count, !.items = items]
  BY <1>1, <1>2 DEF ResponsesUpstreams
<1> HIDE DEF item, count
<1>10. items \in Seq(ResponsesItems) /\ Len(items) = k /\ OpenCalls(items) = open
  BY <1>3, <1>7, ItemAppended DEF k
<1> HIDE DEF items, open
<1>11. upstream' \in ResponsesUpstreams /\ upstream'.items = items
  BY <1>2, <1>5, <1>9, <1>10 DEF ResponsesUpstreams
<1>12. QED
  BY <1>1, <1>4, <1>8, <1>10, <1>11 DEF ResponsesInv

LEMMA DoomLoopStep ==
  ASSUME ResponsesInv(client, relay, upstream), Responses!DoomLoop
  PROVE  client' = client /\ ResponsesInv(client, relay', upstream')
<1> DEFINE ev == Responses!Event("doom", Responses!None, << >>)
<1>1. /\ Responses!Reads /\ relay' = Responses!process(relay, ev) /\ client' = client
      /\ relay.active # 0 => "interrupts" \in upstream.habits
      /\ upstream' = [upstream EXCEPT !.looped = TRUE]
  BY ResponsesFrames DEF Responses!DoomLoop, Responses!Sends
<1>2. /\ upstream \in ResponsesUpstreams /\ Len(upstream.items) <= MaxItems
      /\ ResponsesWaiting(client, relay) \/ ResponsesMid(client, relay)
      /\ relay \in ResponsesStates /\ ~relay.finished
  BY <1>1, ResponsesReads DEF Live, ResponsesWaiting, ResponsesMid
<1>3. ev.type = "doom"
  BY DEF Responses!Event
<1> HIDE DEF ev
<1>4. relay.active = 0 /\ Responses!None = 0
  BY <1>1, <1>2, ResponsesFrames DEF ResponsesUpstreams
<1>5. ~Responses!is_meaningful_output_delta(ev)
  BY <1>3 DEF Responses!is_meaningful_output_delta
<1>6. relay' = Responses!Handle(relay, ev)
  BY <1>1, <1>2, <1>4, <1>5, NotMeaningful DEF Responses!process
<1>7. relay' = [Responses!Emit(relay, Responses!StreamError) EXCEPT !.finished = TRUE]
  BY <1>3, <1>6 DEF Responses!Handle, Responses!process_doom_loop_check
<1>8. ResponsesOver(client, relay')
  BY <1>2, <1>7, ResponsesFailed
<1>9. upstream' \in ResponsesUpstreams /\ upstream'.items = upstream.items
  BY <1>1, <1>2 DEF ResponsesUpstreams
<1>10. QED
  BY <1>1, <1>2, <1>8, <1>9 DEF ResponsesInv

\* Without items there are no calls in the output.
LEMMA NoOutputCalls ==
  ASSUME upstream.items = << >>
  PROVE  Responses!OutputCalls = << >>
<1> DEFINE output == [k \in DOMAIN upstream.items |-> k]
           IsFold(it) == it = [u \in SUBSET DOMAIN output |->
                                 IF u = {} THEN << >>
                                 ELSE Listed(it[u \ {Max(u)}], output[Max(u)])]
           fold == CHOOSE it : IsFold(it)
<1>1. Responses!OutputCalls = fold[DOMAIN output]
  BY DEF Responses!OutputCalls, Responses!ItemsSent, Listed, Responses!FoldLeft,
     Responses!MapThenFoldSet, Responses!Max, Max
<1>2. DOMAIN output = {}
  OBVIOUS
<1> HIDE DEF output
<1>3. IsFold([u \in SUBSET {} |-> << >>])
  BY <1>2
<1>4. IsFold(fold)
  <2> HIDE DEF IsFold
  <2>1. QED
    BY <1>3
<1> HIDE DEF fold
<1>5. fold[{}] = << >>
  BY <1>2, <1>4
<1>6. QED
  BY <1>1, <1>2, <1>5

LEMMA FinishStep ==
  ASSUME ResponsesInv(client, relay, upstream), Responses!Finish
  PROVE  client' = client /\ ResponsesInv(client, relay', upstream')
<1> DEFINE k == Len(upstream.items) + 1
<1>1. PICK incomplete \in BOOLEAN, zero \in BOOLEAN, output \in BOOLEAN,
           text \in Responses!Fresh,
           call \in {<< >>, << [key |-> k, custom |-> FALSE, args |-> << >>] >>},
           reason \in {"end_turn", "max_tokens", "refusal"} :
        /\ Responses!Sends
        /\ incomplete <=> reason # "end_turn"
        /\ zero => incomplete /\ upstream.count = 0
        /\ ~output => text = << >> /\ call = << >>
        /\ text # << >> => /\ upstream.said = << >>
                           /\ \A j \in Responses!ItemsSent : ~upstream.items[j].open
        /\ call # << >> => k \in Responses!Items /\ relay.started
        /\ output /\ upstream.said \o text # << >> =>
             /\ "repeats" \in upstream.habits \/ upstream.said = << >>
             /\ \A j \in Responses!ItemsSent :
                  Responses!IsCall(j) => ~upstream.items[j].open
        /\ relay' = Responses!Terminal(relay,
             [incomplete |-> incomplete, zero |-> zero, reason |-> reason,
              text |-> IF output THEN upstream.said \o text ELSE << >>,
              calls |-> IF output THEN Responses!OutputCalls \o call ELSE << >>])
        /\ upstream' = [upstream EXCEPT
             !.count = @ + Len(text), !.said = @ \o text, !.ended = TRUE,
             !.named = @ \cup {call[n].key : n \in DOMAIN call}
                         \cup IF output
                              THEN {j \in Responses!ItemsSent : Responses!IsCall(j)}
                              ELSE {}]
        /\ UNCHANGED client
  BY Zenon DEF Responses!Finish
<1> DEFINE shown == IF output THEN upstream.said \o text ELSE << >>
           calls == IF output THEN Responses!OutputCalls \o call ELSE << >>
           ev == [incomplete |-> incomplete, zero |-> zero, reason |-> reason,
                  text |-> shown, calls |-> calls]
           open == OpenCalls(upstream.items)
<1>2. /\ upstream \in ResponsesUpstreams /\ Len(upstream.items) <= MaxItems
      /\ \/ ResponsesWaiting(client, relay) /\ upstream.items = << >>
         \/ Live(client, relay, open) /\ Stuck(relay)
  <2>1. Responses!Reads
    BY <1>1 DEF Responses!Sends
  <2>2. QED
    BY <2>1, ResponsesReads
<1>3. /\ upstream.count \in Nat /\ upstream.said \in Parts /\ upstream.named \in SUBSET Int
      /\ Len(upstream.items) \in Nat /\ k \in Int
      /\ \A j \in DOMAIN upstream.items : j \in Items /\ j \in Int
  BY <1>2, ItemsOf DEF ResponsesUpstreams
<1>4. text \in Parts
  BY <1>2, FreshIs
<1>5. shown \in Parts /\ upstream.said \o text \in Parts
  BY <1>3, <1>4, ChatPieces
<1>6. call \in Seq(TerminalCalls)
  <2>1. CASE call = << >>
    BY <2>1
  <2>2. CASE call # << >>
    <3>1. k \in Items
      BY <1>1, <2>2 DEF Responses!Items, Items
    <3> HIDE DEF k
    <3> DEFINE only == [key |-> k, custom |-> FALSE, args |-> << >>]
    <3>2. only \in TerminalCalls
      BY <3>1, ChatPieces DEF TerminalCalls
    <3>3. call = << only >>
      BY <1>1, <2>2
    <3> HIDE DEF only
    <3>4. << only >> \in Seq(TerminalCalls)
      BY <3>2
    <3>5. QED
      BY <3>3, <3>4
  <2>3. QED
    BY <2>1, <2>2
<1>7. \A n \in DOMAIN call : call[n].key \in Int
  BY <1>3
<1> HIDE DEF k
<1>8. calls \in Seq(TerminalCalls)
  BY <1>2, <1>6, OutputCallsAre
<1>9. /\ ev \in TerminalEvents /\ ev.text = shown /\ ev.calls = calls
  BY <1>5, <1>8 DEF TerminalEvents, Reasons
<1>10. relay' = Responses!Terminal(relay, ev)
  BY <1>1
<1> HIDE DEF ev
<1>11. ResponsesOver(client, relay')
  <2>1. CASE ResponsesWaiting(client, relay) /\ upstream.items = << >>
    <3>1. Responses!OutputCalls = << >> /\ call = << >>
      BY <1>1, <2>1, NoOutputCalls DEF ResponsesWaiting
    <3>2. calls = << >>
      BY <3>1
    <3>3. QED
      BY <1>9, <1>10, <2>1, <3>2, WaitingTerminal
  <2>2. CASE Live(client, relay, open) /\ Stuck(relay)
    <3>1. open \subseteq Items
      BY <1>3 DEF OpenCalls
    <3>2. shown # << >> => relay.active = 0
      <4>1. SUFFICES ASSUME shown # << >> PROVE relay.active = 0
        OBVIOUS
      <4>2. \A j \in DOMAIN upstream.items :
              upstream.items[j].kind \in CallKinds => ~upstream.items[j].open
        BY <1>1, <4>1 DEF Responses!ItemsSent, Responses!IsCall, Responses!CallKinds,
           CallKinds
      <4>3. open = {}
        BY <4>2 DEF OpenCalls
      <4>4. QED
        BY <2>2, <4>3, NoneOpenNoneShown
    <3> HIDE DEF open
    <3>3. Live(client, relay, Items)
      BY <2>2, <3>1, LiveWithMore
    <3>4. QED
      BY <1>9, <1>10, <3>2, <3>3, LiveTerminal
  <2>3. QED
    BY <1>2, <2>1, <2>2
<1>12. upstream' \in ResponsesUpstreams /\ upstream'.items = upstream.items
  <2> DEFINE count == upstream.count + Len(text)
             said == upstream.said \o text
             of == IF output THEN {j \in Responses!ItemsSent : Responses!IsCall(j)} ELSE {}
             named == upstream.named \cup {call[n].key : n \in DOMAIN call} \cup of
  <2>1. count \in Nat
    BY <1>3, <1>4 DEF Parts
  <2>2. of \subseteq Int
    BY <1>3 DEF Responses!ItemsSent
  <2>3. named \in SUBSET Int
    <3> HIDE DEF of
    <3>1. {call[n].key : n \in DOMAIN call} \subseteq Int
      BY <1>7
    <3>2. QED
      BY <1>3, <2>2, <3>1
  <2>4. upstream' = [upstream EXCEPT !.count = count, !.said = said, !.ended = TRUE,
                                     !.named = named]
    BY <1>1, <1>2, Zenon DEF ResponsesUpstreams
  <2> HIDE DEF count, said, named
  <2>5. QED
    BY <1>2, <1>5, <2>1, <2>3, <2>4 DEF ResponsesUpstreams, said
<1>13. QED
  BY <1>1, <1>2, <1>11, <1>12 DEF ResponsesInv

LEMMA ResponsesStep ==
  ASSUME ResponsesInv(client, relay, upstream), Responses!Receive
  PROVE  client' = client /\ ResponsesInv(client, relay', upstream')
<1>1. CASE Responses!Break
  <2>1. Responses!Reads /\ relay' = Responses!stream_error(relay)
        /\ client' = client /\ upstream' = upstream
    BY <1>1 DEF Responses!Break
  <2>2. /\ upstream \in ResponsesUpstreams /\ Len(upstream.items) <= MaxItems
        /\ ResponsesWaiting(client, relay) \/ ResponsesMid(client, relay)
    BY <2>1, ResponsesReads DEF Live
  <2>3. ResponsesOver(client, relay')
    BY <2>1, <2>2, ResponsesFailed DEF Responses!stream_error
  <2>4. QED
    BY <2>1, <2>2, <2>3 DEF ResponsesInv
<1>2. QED
  BY <1>1, CreatedStep, AddItemStep, PartStep, DeltaStep, AllArgumentsStep,
     FinishItemStep, SearchStep, DoomLoopStep, FinishStep DEF Responses!Receive
-----------------------------------------------------------------------------
(***************************************************************************)
(* The frames are yielded.                                                 *)
(***************************************************************************)
\* What is left of a list of frames ends as the whole does.
LEMMA OverShown ==
  ASSUME NEW order, Over(client, relay.out, order), Yield
  PROVE  Stream!Next /\ Over(client', Tail(relay.out), order)
<1>1. PICK phase \in {"stopped", "failed"} : \E open, used :
        /\ Ends(client, relay.out, phase, open, used, order)
        /\ phase = "stopped" => \E n \in Nat : used = 0..(n - 1)
  BY DEF Over
<1>2. PICK open, used :
        /\ Ends(client, relay.out, phase, open, used, order)
        /\ phase = "stopped" => \E n \in Nat : used = 0..(n - 1)
  BY <1>1
<1>3. /\ Stream!Next
      /\ Ends(client', Tail(relay.out), phase, open, used, order)
  BY <1>2, YieldShown
<1>4. QED
  BY <1>2, <1>3 DEF Over

LEMMA GeminiShown ==
  ASSUME GeminiInv(client, relay, upstream), Yield
  PROVE  Stream!Next /\ GeminiInv(client', relay', upstream')
<1> DEFINE out == Tail(relay.out)
<1>1. /\ relay \in GeminiStates /\ relay.out \in Seq(Frames) /\ relay.out # << >>
      /\ relay' = [relay EXCEPT !.out = out] /\ upstream' = upstream
  BY DEF Yield, GeminiInv, GeminiOver, GeminiBegun, GeminiWaiting, GeminiMid, GeminiTold,
     GeminiStates
<1>2. out \in Seq(Frames)
  BY <1>1
<1> HIDE DEF out
<1>3. relay' \in GeminiStates /\ relay'.out = out
  BY <1>1, <1>2 DEF GeminiStates
<1>4. /\ relay'.finished = relay.finished /\ relay'.payload = relay.payload
      /\ relay'.started = relay.started /\ relay'.type = relay.type
      /\ relay'.index = relay.index /\ relay'.hasContent = relay.hasContent
      /\ relay'.sawTool = relay.sawTool /\ relay'.finalSent = relay.finalSent
  BY <1>1 DEF GeminiStates
<1>5. /\ relay'.apiError = relay.apiError /\ relay'.pending = relay.pending
      /\ relay'.hasUsage = relay.hasUsage /\ relay'.hasFinish = relay.hasFinish
      /\ relay'.finish = relay.finish
  BY <1>1 DEF GeminiStates
<1>6. GeminiAgrees(relay, upstream) => GeminiAgrees(relay', upstream')
  BY <1>1, <1>4, <1>5 DEF GeminiAgrees
<1>7. CASE GeminiOver(client, relay)
  <2>1. Stream!Next /\ Over(client', out, TRUE)
    BY <1>7, OverShown DEF GeminiOver, out
  <2>2. GeminiOver(client', relay')
    BY <1>3, <1>4, <1>7, <2>1 DEF GeminiOver
  <2>3. QED
    BY <1>1, <2>1, <2>2 DEF GeminiInv
<1>8. CASE GeminiWaiting(client, relay)
  <2>1. Stream!Next /\ Ends(client', out, "waiting", {}, {}, TRUE)
    BY <1>8, YieldShown DEF GeminiWaiting, out
  <2>2. GeminiWaiting(client', relay')
    BY <1>3, <1>4, <1>5, <1>8, <2>1 DEF GeminiWaiting
  <2>3. ~relay.started
    BY <1>8 DEF GeminiWaiting
  <2>4. ~GeminiTold(client, relay)
    BY <2>3 DEF GeminiTold
  <2>5. \/ GeminiOver(client, relay)
        \/ /\ GeminiBegun(client, relay) /\ upstream.finish = ""
           /\ GeminiAgrees(relay, upstream)
    BY <2>4 DEF GeminiInv
  <2>6. CASE GeminiOver(client, relay)
    BY <1>7, <2>6
  <2>7. CASE /\ GeminiBegun(client, relay) /\ upstream.finish = ""
             /\ GeminiAgrees(relay, upstream)
    <3>1. /\ ~relay'.finished /\ ~relay'.finalSent /\ ~relay'.apiError
          /\ ~relay'.hasFinish /\ relay'.finish = ""
      BY <1>4, <1>5, <2>7 DEF GeminiBegun
    <3>2. GeminiBegun(client', relay')
      BY <2>2, <3>1 DEF GeminiBegun
    <3>3. upstream \in GeminiUpstreams
      BY DEF GeminiInv
    <3>4. QED
      BY <1>1, <1>6, <2>1, <2>7, <3>2, <3>3 DEF GeminiInv
  <2>8. QED
    BY <2>5, <2>6, <2>7
<1>9. CASE GeminiMid(client, relay)
  <2>1. Stream!Next
        /\ Ends(client', out, "started", GeminiOpen(relay), GeminiUsed(relay), TRUE)
    BY <1>9, YieldShown DEF GeminiMid, out
  <2>2. GeminiOpen(relay') = GeminiOpen(relay) /\ GeminiUsed(relay') = GeminiUsed(relay)
    BY <1>4 DEF GeminiOpen, GeminiUsed
  <2>3. GeminiMid(client', relay')
    BY <1>3, <1>4, <1>5, <1>9, <2>1, <2>2 DEF GeminiMid
  <2>4. GeminiBegun(client, relay) => GeminiBegun(client', relay')
    <3>1. SUFFICES ASSUME GeminiBegun(client, relay)
                   PROVE  GeminiBegun(client', relay')
      OBVIOUS
    <3>2. /\ ~relay'.finished /\ ~relay'.finalSent /\ ~relay'.apiError
          /\ ~relay'.hasFinish /\ relay'.finish = ""
      BY <1>4, <1>5, <3>1 DEF GeminiBegun
    <3>3. CASE GeminiWaiting(client, relay)
      <4>1. Stream!Next /\ Ends(client', out, "waiting", {}, {}, TRUE)
        BY <3>3, YieldShown DEF GeminiWaiting, out
      <4>2. GeminiWaiting(client', relay')
        BY <1>3, <1>4, <1>5, <3>3, <4>1 DEF GeminiWaiting
      <4>3. QED
        BY <3>2, <4>2 DEF GeminiBegun
    <3>4. CASE GeminiMid(client, relay) /\ relay.started /\ relay.payload
      <4>1. relay'.started /\ relay'.payload
        BY <1>4, <3>4
      <4>2. QED
        BY <2>3, <3>2, <4>1 DEF GeminiBegun
    <3>5. QED
      BY <3>1, <3>3, <3>4 DEF GeminiBegun
  <2>5. GeminiTold(client, relay) =>
          Stream!Next /\ GeminiTold(client', relay')
    <3>1. SUFFICES ASSUME GeminiTold(client, relay)
                   PROVE  Stream!Next /\ GeminiTold(client', relay')
      OBVIOUS
    <3>2. PICK n \in Nat : Ends(client, relay.out, "told", {}, 0..(n - 1), TRUE)
      BY <3>1 DEF GeminiTold
    <3>3. Stream!Next /\ Ends(client', out, "told", {}, 0..(n - 1), TRUE)
      BY <3>2, YieldShown DEF out
    <3>4. QED
      BY <1>3, <1>4, <1>5, <3>1, <3>3 DEF GeminiTold
  <2>6. CASE GeminiOver(client, relay)
    BY <1>7, <2>6
  <2>7. QED
    BY <1>1, <1>5, <1>6, <2>1, <2>4, <2>5, <2>6 DEF GeminiInv
<1>10. CASE GeminiTold(client, relay)
  <2>1. PICK n \in Nat : Ends(client, relay.out, "told", {}, 0..(n - 1), TRUE)
    BY <1>10 DEF GeminiTold
  <2>2. Stream!Next /\ Ends(client', out, "told", {}, 0..(n - 1), TRUE)
    BY <2>1, YieldShown DEF out
  <2>3. GeminiTold(client', relay')
    BY <1>3, <1>4, <1>5, <1>10, <2>2 DEF GeminiTold
  <2>4. CASE GeminiOver(client, relay)
    BY <1>7, <2>4
  <2>5. CASE GeminiBegun(client, relay)
    BY <1>8, <1>9, <2>5 DEF GeminiBegun
  <2>6. QED
    BY <1>1, <1>5, <1>6, <1>10, <2>2, <2>3, <2>4, <2>5 DEF GeminiInv
<1>11. QED
  BY <1>7, <1>8, <1>9, <1>10 DEF GeminiInv, GeminiBegun

LEMMA ChatShown ==
  ASSUME ChatInv(client, relay, upstream), Yield
  PROVE  Stream!Next /\ ChatInv(client', relay', upstream')
<1> DEFINE out == Tail(relay.out)
<1>1. /\ relay \in ChatStates /\ relay.out \in Seq(Frames) /\ relay.out # << >>
      /\ relay' = [relay EXCEPT !.out = out] /\ upstream' = upstream
      /\ upstream \in ChatUpstreams
  BY DEF Yield, ChatInv, ChatOver, ChatBegun, ChatWaiting, ChatMid, ChatStates
<1>2. out \in Seq(Frames)
  BY <1>1
<1> HIDE DEF out
<1>3. relay' \in ChatStates /\ relay'.out = out
  BY <1>1, <1>2 DEF ChatStates
<1>4. /\ relay'.finished = relay.finished /\ relay'.started = relay.started
      /\ relay'.finish = relay.finish /\ relay'.active = relay.active
      /\ relay'.next = relay.next /\ relay'.calls = relay.calls
      /\ relay'.open = relay.open /\ relay'.saw = relay.saw
  BY <1>1 DEF ChatStates
<1>5. CASE ChatOver(client, relay)
  <2>1. Stream!Next /\ Over(client', out, FALSE)
    BY <1>5, OverShown DEF ChatOver, out
  <2>2. ChatOver(client', relay')
    BY <1>3, <1>4, <1>5, <2>1 DEF ChatOver
  <2>3. QED
    BY <1>1, <2>1, <2>2 DEF ChatInv
<1>6. CASE ChatBegun(client, relay)
  <2>1. Stream!Next
        /\ Ends(client', out, "started", ChatOpen(relay), ChatUsed(relay), FALSE)
    BY <1>6, YieldShown DEF ChatBegun, ChatMid, out
  <2>2. ChatOpen(relay') = ChatOpen(relay) /\ ChatUsed(relay') = ChatUsed(relay)
    BY <1>4 DEF ChatOpen, ChatUsed
  <2>3. ChatMid(client', relay')
    BY <1>3, <1>4, <1>6, <2>1, <2>2 DEF ChatBegun, ChatMid
  <2>4. CallsWait(relay')
    BY <1>4, <1>6 DEF ChatBegun, CallsWait
  <2>5. ChatBegun(client', relay')
    BY <1>4, <1>6, <2>3, <2>4 DEF ChatBegun
  <2>6. QED
    BY <1>1, <2>1, <2>5 DEF ChatInv
<1>7. CASE ChatWaiting(client, relay) /\ upstream.thought[1] = << >>
  <2>1. Stream!Next /\ Ends(client', out, "waiting", {}, {}, FALSE)
    BY <1>7, YieldShown DEF ChatWaiting, out
  <2>2. ChatWaiting(client', relay')
    BY <1>3, <1>4, <1>7, <2>1 DEF ChatWaiting
  <2>3. QED
    BY <1>1, <1>7, <2>1, <2>2 DEF ChatInv
<1>8. QED
  BY <1>5, <1>6, <1>7 DEF ChatInv

LEMMA ResponsesShown ==
  ASSUME ResponsesInv(client, relay, upstream), Yield
  PROVE  Stream!Next /\ ResponsesInv(client', relay', upstream')
<1> DEFINE out == Tail(relay.out)
<1>1. /\ relay \in ResponsesStates /\ relay.out \in Seq(Frames) /\ relay.out # << >>
      /\ relay' = [relay EXCEPT !.out = out] /\ upstream' = upstream
      /\ upstream \in ResponsesUpstreams /\ Len(upstream.items) <= MaxItems
  BY DEF Yield, ResponsesInv, ResponsesOver, ResponsesWaiting, Live, ResponsesMid,
     ResponsesStates
<1>2. out \in Seq(Frames)
  BY <1>1
<1> HIDE DEF out
<1>3. relay' \in ResponsesStates /\ relay'.out = out
  BY <1>1, <1>2 DEF ResponsesStates
<1>4. /\ relay'.finished = relay.finished /\ relay'.started = relay.started
      /\ relay'.next = relay.next
      /\ relay'.textOpen = relay.textOpen /\ relay'.textIndex = relay.textIndex
      /\ relay'.thinkingOpen = relay.thinkingOpen
      /\ relay'.thinkingIndex = relay.thinkingIndex
      /\ relay'.commentary = relay.commentary
  BY <1>1 DEF ResponsesStates
<1>5. /\ relay'.calls = relay.calls /\ relay'.queue = relay.queue
      /\ relay'.active = relay.active /\ relay'.last = relay.last
      /\ relay'.deferred = relay.deferred
  BY <1>1 DEF ResponsesStates
<1>6. CASE ResponsesOver(client, relay)
  <2>1. Stream!Next /\ Over(client', out, TRUE)
    BY <1>6, OverShown DEF ResponsesOver, out
  <2>2. ResponsesOver(client', relay')
    BY <1>3, <1>4, <1>6, <2>1 DEF ResponsesOver
  <2>3. QED
    BY <1>1, <2>1, <2>2 DEF ResponsesInv
<1>7. CASE ResponsesWaiting(client, relay) /\ upstream.items = << >>
  <2>1. Stream!Next /\ Ends(client', out, "waiting", {}, {}, TRUE)
    BY <1>7, YieldShown DEF ResponsesWaiting, out
  <2>2. ResponsesWaiting(client', relay')
    BY <1>3, <1>4, <1>5, <1>7, <2>1 DEF ResponsesWaiting
  <2>3. QED
    BY <1>1, <1>7, <2>1, <2>2 DEF ResponsesInv
<1>8. CASE Live(client, relay, OpenCalls(upstream.items)) /\ Stuck(relay)
  <2>1. Stream!Next
        /\ Ends(client', out, "started", ShownNow(relay), 0..(relay.next - 1), TRUE)
    <3> DEFINE used == 0..(relay.next - 1)
    <3>1. Ends(client, relay.out, "started", ShownNow(relay), used, TRUE)
      BY <1>8 DEF Live, ResponsesMid
    <3> HIDE DEF used
    <3>2. Stream!Next /\ Ends(client', out, "started", ShownNow(relay), used, TRUE)
      BY <3>1, YieldShown DEF out
    <3>3. QED
      BY <3>2 DEF used
  <2>2. ShownNow(relay') = ShownNow(relay)
    BY <1>4, <1>5 DEF ShownNow
  <2>3. Exclusive(relay')
    BY <1>4, <1>5, <1>8 DEF Live, ResponsesMid, Exclusive, ActiveCall
  <2>4. ResponsesMid(client', relay')
    BY <1>3, <1>4, <2>1, <2>2, <2>3 DEF ResponsesMid
  <2>5. Linked(relay') /\ Stuck(relay')
    BY <1>5, <1>8 DEF Live, Linked, Stuck
  <2>6. Expected(relay', OpenCalls(upstream.items))
    BY <1>5, <1>8 DEF Live, Expected
  <2>7. Live(client', relay', OpenCalls(upstream.items))
    BY <1>4, <1>8, <2>4, <2>5, <2>6 DEF Live
  <2>8. QED
    BY <1>1, <2>1, <2>5, <2>7 DEF ResponsesInv
<1>9. QED
  BY <1>6, <1>7, <1>8 DEF ResponsesInv
-----------------------------------------------------------------------------
(***************************************************************************)
(* All three.                                                              *)
(***************************************************************************)
\* Nothing is sent, and nothing shown.
Nothing == [phase |-> "waiting", blocks |-> << >>, reason |-> "none"]

LEMMA NothingEnds ==
  ASSUME NEW order
  PROVE  Ends(Nothing, << >>, "waiting", {}, {}, order)
<1>1. Nothing \in Messages
  <2>1. << >> \in Seq(Blocks) /\ OneAtATime(<< >>)
    BY DEF OneAtATime
  <2>2. QED
    BY <2>1 DEF Nothing, Messages, BlockLists, Phases
<1>2. OpenIn(<< >>) = {}
  BY DEF OpenIn
<1>3. Opens(<< >>) = {} /\ IndexesIn(<< >>) = {} /\ Ordered(<< >>)
  BY <1>2 DEF Opens, IndexesIn, Ordered
<1>4. Looks(Nothing, "waiting", {}, {}, order)
  BY <1>1, <1>3 DEF Looks, Nothing
<1>5. QED
  BY <1>4, NothingEmitted

LEMMA GeminiInit ==
  ASSUME Gemini!Init
  PROVE  client = Nothing /\ GeminiInv(client, relay, upstream)
<1>1. client = Nothing /\ relay = Gemini!InitRelay /\ upstream = Gemini!InitUpstream
  BY DEF Gemini!Init, Nothing
<1>2. /\ << >> \in Seq(Frames) /\ << >> \in Parts /\ {} \in SUBSET Int
      /\ [k \in Items |-> << >>] \in [Items -> Parts]
  BY ChatPieces
<1>3. relay \in GeminiStates /\ GeminiWaiting(client, relay)
  BY <1>1, <1>2, NothingEnds
     DEF Gemini!InitRelay, GeminiStates, GeminiWaiting, Gemini!Finishes
<1>4. upstream \in GeminiUpstreams /\ upstream.finish = ""
  BY <1>1, <1>2, GeminiFrames
     DEF Gemini!InitUpstream, GeminiUpstreams, Gemini!Finishes, Gemini!Items, Items
<1>5. GeminiBegun(client, relay) /\ GeminiAgrees(relay, upstream)
  BY <1>1, <1>3, GeminiFrames
     DEF Gemini!InitRelay, Gemini!InitUpstream, GeminiBegun, GeminiAgrees
<1>6. QED
  BY <1>1, <1>4, <1>5 DEF GeminiInv

LEMMA ChatInit ==
  ASSUME Chat!Init
  PROVE  client = Nothing /\ ChatInv(client, relay, upstream)
<1>1. PICK omits \in BOOLEAN, echoes \in BOOLEAN :
        /\ client = Nothing /\ relay = Chat!InitRelay
        /\ upstream = Chat!InitUpstream(omits, echoes)
  BY DEF Chat!Init, Nothing
<1>2. /\ << >> \in Seq(Frames) /\ << >> \in Parts /\ {} \in SUBSET Int
      /\ << >> \in Seq(Nat) /\ << >> \in Seq(ChatChunk) /\ << >> \in Seq(Parts)
      /\ [k \in Items |-> << >>] \in [Items -> Parts]
  BY ChatPieces
<1>3. << >> \in ChatCalls /\ DOMAIN << >> = {}
  <2>1. << >> \in [{} -> ChatCall]
    OBVIOUS
  <2>2. {} \in SUBSET (Nat \ {0}) /\ {} \subseteq 1..0
    OBVIOUS
  <2>3. QED
    BY <2>1, <2>2 DEF ChatCalls
<1>4. relay \in ChatStates
  <2>1. /\ Chat!NoBlock \in [kind : {"none", "text", "thinking"}, index : Int]
        /\ "" \in ChatFinishes /\ Chat!None \in Nat /\ 0 \in Nat /\ 1 \in Nat \ {0}
    BY ChatFrames DEF ChatFinishes, Chat!NoBlock, Chat!None
  <2>2. ASSUME NEW out \in Seq(Frames), NEW calls \in ChatCalls,
               NEW interleaved \in Seq(ChatChunk), NEW thinking \in Seq(Parts),
               NEW finish \in ChatFinishes, NEW open \in Nat, NEW omitted \in Nat \ {0},
               NEW active \in [kind : {"none", "text", "thinking"}, index : Int],
               NEW next \in Nat
        PROVE  [out |-> out, finished |-> FALSE, started |-> FALSE, finish |-> finish,
                active |-> active, next |-> next, calls |-> calls, omitted |-> omitted,
                saw |-> FALSE, open |-> open, interleaved |-> interleaved,
                thinking |-> thinking, hasText |-> FALSE] \in ChatStates
    BY DEF ChatStates
  <2>3. Chat!InitRelay \in ChatStates
    BY <1>2, <1>3, <2>1, <2>2, Zenon DEF Chat!InitRelay
  <2>4. QED
    BY <1>1, <2>3
<1>5. ChatWaiting(client, relay)
  BY <1>1, <1>3, <1>4, NothingEnds, ChatFrames DEF Chat!InitRelay, ChatWaiting
<1>6. upstream \in ChatUpstreams
  BY <1>1, <1>2 DEF Chat!InitUpstream, ChatUpstreams, Chat!Items, Items
<1>7. upstream.thought[1] = << >>
  <2>1. 1 \in Items
    BY SizeAssumption DEF Items
  <2>2. QED
    BY <1>1, <2>1 DEF Chat!InitUpstream, Chat!Items, Items
<1>8. QED
  BY <1>1, <1>5, <1>6, <1>7 DEF ChatInv

LEMMA ResponsesInit ==
  ASSUME NEW habits \in Habits, "interrupts" \notin habits, Responses!Init(habits)
  PROVE  client = Nothing /\ ResponsesInv(client, relay, upstream)
<1>1. /\ client = Nothing /\ relay = Responses!InitRelay
      /\ upstream = Responses!InitUpstream(habits)
  BY DEF Responses!Init, Nothing
<1>2. /\ << >> \in Seq(Frames) /\ << >> \in Parts /\ {} \in SUBSET Int
      /\ << >> \in Seq(QueuedCalls) /\ << >> \in Seq(QuietEvents)
      /\ << >> \in Seq(ResponsesItems)
      /\ [k \in Items |-> << >>] \in [Items -> Parts] /\ [k \in Items |-> 0] \in [Items -> Nat]
  BY ChatPieces
<1>3. relay \in ResponsesStates
  BY <1>1, <1>2, ResponsesFrames
     DEF Responses!InitRelay, ResponsesStates, Responses!Items, Items
<1>4. ResponsesWaiting(client, relay)
  BY <1>1, <1>3, NothingEnds, ResponsesFrames
     DEF Responses!InitRelay, ResponsesWaiting, Responses!Items, Items
<1>5. upstream \in ResponsesUpstreams
  BY <1>1, <1>2 DEF Responses!InitUpstream, ResponsesUpstreams, Responses!Items, Items
<1>6. upstream.items = << >> /\ Len(upstream.items) <= MaxItems
  BY <1>1, SizeAssumption DEF Responses!InitUpstream
<1>7. QED
  BY <1>1, <1>4, <1>5, <1>6 DEF ResponsesInv

\* The frames that are waiting to be yielded go on with the message that the
\* client has, whichever protocol it comes from.
StreamInv ==
  \/ protocol = "gemini" /\ GeminiInv(client, relay, upstream)
  \/ protocol = "chat" /\ ChatInv(client, relay, upstream)
  \/ protocol = "responses" /\ ResponsesInv(client, relay, upstream)

\* The upstream reports no loop while a tool call is being shown.
Uninterrupted == protocol = "responses" => "interrupts" \notin upstream.habits

LEMMA StreamInit ==
  ASSUME Init, Uninterrupted
  PROVE  Stream!Init /\ StreamInv
<1>1. CASE protocol = "responses" /\ \E habits \in Habits : Responses!Init(habits)
  <2>1. PICK habits \in Habits : Responses!Init(habits)
    BY <1>1
  <2>2. upstream.habits = habits
    BY <2>1 DEF Responses!Init, Responses!InitUpstream
  <2>3. client = Nothing /\ ResponsesInv(client, relay, upstream)
    BY <1>1, <2>1, <2>2, ResponsesInit DEF Uninterrupted
  <2>4. QED
    BY <1>1, <2>3 DEF StreamInv, Stream!Init, Stream!Waiting, Nothing
<1>2. CASE protocol = "chat" /\ Chat!Init
  BY <1>2, ChatInit DEF StreamInv, Stream!Init, Stream!Waiting, Nothing
<1>3. CASE protocol = "gemini" /\ Gemini!Init
  BY <1>3, GeminiInit DEF StreamInv, Stream!Init, Stream!Waiting, Nothing
<1>4. QED
  BY <1>1, <1>2, <1>3 DEF Init

\* Whatever is received, the client has what it had; whatever is yielded it may
\* be shown.
LEMMA StreamStep ==
  ASSUME StreamInv, [Next]_vars
  PROVE  [Stream!Next]_client /\ StreamInv'
<1>1. CASE Receive
  <2>1. CASE protocol = "gemini"
    <3>1. Gemini!Receive /\ GeminiInv(client, relay, upstream) /\ protocol' = protocol
      BY <1>1, <2>1 DEF Receive, StreamInv
    <3>2. client' = client /\ GeminiInv(client, relay', upstream')
      BY <3>1, GeminiStep
    <3>3. QED
      BY <2>1, <3>1, <3>2 DEF StreamInv
  <2>2. CASE protocol = "chat"
    <3>1. Chat!Receive /\ ChatInv(client, relay, upstream) /\ protocol' = protocol
      BY <1>1, <2>2 DEF Receive, StreamInv
    <3>2. client' = client /\ ChatInv(client, relay', upstream')
      BY <3>1, ChatStep
    <3>3. QED
      BY <2>2, <3>1, <3>2 DEF StreamInv
  <2>3. CASE protocol = "responses"
    <3>1. Responses!Receive /\ ResponsesInv(client, relay, upstream)
          /\ protocol' = protocol
      BY <1>1, <2>3 DEF Receive, StreamInv
    <3>2. client' = client /\ ResponsesInv(client, relay', upstream')
      BY <3>1, ResponsesStep
    <3>3. QED
      BY <2>3, <3>1, <3>2 DEF StreamInv
  <2>4. QED
    BY <2>1, <2>2, <2>3 DEF StreamInv
<1>2. CASE Show
  <2>1. Yield /\ protocol' = protocol
    BY <1>2 DEF Show
  <2>2. QED
    BY <2>1, GeminiShown, ChatShown, ResponsesShown DEF StreamInv
<1>3. CASE UNCHANGED vars
  BY <1>3 DEF vars, StreamInv
<1>4. QED
  BY <1>1, <1>2, <1>3 DEF Next

\* Whichever protocol the upstream speaks, and however long the response is, the
\* client is shown a message as the Messages API has it: blocks opened and closed
\* one at a time, under indexes of their own, then the reason and the end; or the
\* message fails, and nothing follows.
THEOREM StreamsImplement == Spec /\ Uninterrupted => ImplementsAnthropicStream
<1>1. Init /\ Uninterrupted => Stream!Init /\ StreamInv
  BY StreamInit
<1>2. StreamInv /\ [Next]_vars => [Stream!Next]_client /\ StreamInv'
  BY StreamStep
<1>3. QED
  BY <1>1, <1>2, PTL DEF Spec, ImplementsAnthropicStream, Stream!Spec

\* Nothing is left to be yielded when the message has stopped.
LEMMA StoppedLooks ==
  ASSUME NEW c, c.phase = "stopped", NEW out, NEW phase, NEW open, NEW used, NEW order,
         Ends(c, out, phase, open, used, order)
  PROVE  Looks(c, phase, open, used, order)
<1>1. PICK d : Becomes(c, out, d) /\ Looks(d, phase, open, used, order)
  BY DEF Ends
<1>2. out \in Seq(Frames)
  BY DEF Ends
<1>3. out = << >>
  <2>1. SUFFICES ASSUME out # << >> PROVE FALSE
    OBVIOUS
  <2>2. Fits(c, Head(out))
    BY <1>1, <1>2, <2>1, FirstShown
  <2>3. QED
    BY <2>2 DEF Fits
<1>4. d = c
  BY <1>1, <1>3 DEF Becomes, Between
<1>5. QED
  BY <1>1, <1>4

\* As many indexes as there are blocks.
LEMMA IndexesCounted ==
  ASSUME NEW blocks \in BlockLists, NEW m \in Nat, IndexesIn(blocks) = 0..(m - 1)
  PROVE  m = Len(blocks)
<1> DEFINE n == Len(blocks)
           f == [i \in 1..n |-> blocks[i].index]
<1>1. blocks \in Seq(Blocks) /\ OneAtATime(blocks)
  BY DEF BlockLists
<1>2. n \in Nat /\ DOMAIN blocks = 1..n
  BY <1>1
<1>3. \A i \in 1..n : f[i] \in 0..(m - 1)
  BY <1>2 DEF IndexesIn
<1>4. \A i, j \in 1..n : f[i] = f[j] => i = j
  BY <1>1, <1>2 DEF OneAtATime
<1>5. \A k \in 0..(m - 1) : \E i \in 1..n : f[i] = k
  BY <1>2 DEF IndexesIn
<1>6. f \in Bijection(1..n, 0..(m - 1))
  <2>1. f \in [1..n -> 0..(m - 1)]
    BY <1>3
  <2> HIDE DEF f
  <2>2. QED
    BY <1>4, <1>5, <2>1 DEF Bijection, Injection, Surjection, IsInjective
<1> HIDE DEF n, f
<1>7. IsFiniteSet(1..n) /\ Cardinality(1..n) = n /\ Cardinality(0..(m - 1)) = m
  <2>1. /\ IsFiniteSet(1..n)
        /\ Cardinality(1..n) = IF 1 > n THEN 0 ELSE n - 1 + 1
    BY <1>2, FS_Interval
  <2>2. Cardinality(0..(m - 1)) = IF 0 > m - 1 THEN 0 ELSE (m - 1) - 0 + 1
    <3>1. m - 1 \in Int /\ 0 \in Int
      OBVIOUS
    <3>2. QED
      BY <3>1, FS_Interval
  <2>3. QED
    BY <1>2, <2>1, <2>2
<1>8. Cardinality(0..(m - 1)) = Cardinality(1..n)
  BY <1>6, <1>7, FS_Bijection DEF ExistsBijection
<1>9. QED
  BY <1>7, <1>8 DEF n

LEMMA OverDense ==
  ASSUME NEW order, Over(client, relay.out, order), Stopped,
         order \/ protocol = "chat"
  PROVE  IndexesDense
<1> DEFINE n == Len(client.blocks)
<1>1. PICK phase \in {"stopped", "failed"} : \E open, used :
        /\ Ends(client, relay.out, phase, open, used, order)
        /\ phase = "stopped" => \E m \in Nat : used = 0..(m - 1)
  BY DEF Over
<1>2. PICK open, used :
        /\ Ends(client, relay.out, phase, open, used, order)
        /\ phase = "stopped" => \E m \in Nat : used = 0..(m - 1)
  BY <1>1
<1>3. Looks(client, phase, open, used, order)
  BY <1>2, StoppedLooks DEF Stopped
<1>4. PICK m \in Nat : used = 0..(m - 1)
  BY <1>2, <1>3 DEF Looks, Stopped
<1>5. /\ client.blocks \in BlockLists /\ IndexesIn(client.blocks) = 0..(m - 1)
      /\ order => Ordered(client.blocks)
      /\ DOMAIN client.blocks = 1..n /\ n \in Nat
  BY <1>3, <1>4, MessageFields DEF Looks
<1>6. m = n
  BY <1>5, IndexesCounted
<1>7. {client.blocks[i].index : i \in 1..n} = 0..(n - 1)
  BY <1>5, <1>6 DEF IndexesIn
<1>8. protocol # "chat" => \A i \in 1..n : client.blocks[i].index = i - 1
  BY <1>5 DEF Ordered
<1>9. QED
  BY <1>7, <1>8 DEF IndexesDense

LEMMA StreamDense ==
  ASSUME StreamInv
  PROVE  IndexesDense
<1>1. SUFFICES ASSUME Stopped PROVE IndexesDense
  BY DEF IndexesDense
<1>2. \A phase, open, used, order :
        Ends(client, relay.out, phase, open, used, order) => phase = "stopped"
  BY <1>1, StoppedLooks DEF Looks, Stopped
<1>3. CASE protocol = "gemini" /\ GeminiInv(client, relay, upstream)
  <2>1. GeminiOver(client, relay)
    BY <1>2, <1>3 DEF GeminiInv, GeminiBegun, GeminiWaiting, GeminiMid, GeminiTold
  <2>2. QED
    BY <1>1, <2>1, OverDense DEF GeminiOver
<1>4. CASE protocol = "chat" /\ ChatInv(client, relay, upstream)
  <2>1. ChatOver(client, relay)
    BY <1>2, <1>4 DEF ChatInv, ChatBegun, ChatWaiting, ChatMid
  <2>2. QED
    BY <1>1, <1>4, <2>1, OverDense DEF ChatOver
<1>5. CASE protocol = "responses" /\ ResponsesInv(client, relay, upstream)
  <2>1. ResponsesOver(client, relay)
    BY <1>2, <1>5 DEF ResponsesInv, ResponsesWaiting, Live, ResponsesMid
  <2>2. QED
    BY <1>1, <2>1, OverDense DEF ResponsesOver
<1>6. QED
  BY <1>3, <1>4, <1>5 DEF StreamInv

\* The blocks of a message that has stopped bear the indexes from 0 on, each once,
\* though calls are given theirs before they are shown; and in their order, where
\* calls are not gathered first.
THEOREM StreamsIndexesDense == Spec /\ Uninterrupted => []IndexesDense
<1>1. Init /\ Uninterrupted => StreamInv
  BY StreamInit
<1>2. StreamInv /\ [Next]_vars => StreamInv'
  BY StreamStep
<1>3. StreamInv => IndexesDense
  BY StreamDense
<1>4. QED
  BY <1>1, <1>2, <1>3, PTL DEF Spec
=============================================================================
