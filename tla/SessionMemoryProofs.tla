-------------------------- MODULE SessionMemoryProofs --------------------------
(***************************************************************************)
(* Proofs about what the gateway remembers of a session, for any number of *)
(* conversations, sessions, models, streams and requests.                  *)
(***************************************************************************)
EXTENDS SessionMemory, FoldLemmas

-----------------------------------------------------------------------------
(***************************************************************************)
(* Sequences                                                               *)
(***************************************************************************)
\* A sequence one element longer.
LEMMA Appended ==
  ASSUME NEW S, NEW s \in Seq(S), NEW x
  PROVE  /\ Append(s, x) \in Seq(S \cup {x})
         /\ Len(Append(s, x)) = Len(s) + 1
         /\ DOMAIN Append(s, x) = 1..(Len(s) + 1) /\ DOMAIN s = 1..Len(s) /\ Len(s) \in Nat
         /\ Append(s, x)[Len(s) + 1] = x
         /\ \A i \in DOMAIN s : Append(s, x)[i] = s[i]
<1>1. s \in Seq(S \cup {x})
  BY SeqMonotonic
<1>2. QED
  BY <1>1

\* A sequence is one of its own elements.
LEMMA OwnElements ==
  ASSUME NEW S, NEW s \in Seq(S)
  PROVE  s \in Seq(ToSet(s))
<1>1. DOMAIN s = 1..Len(s) /\ Len(s) \in Nat
  OBVIOUS
<1>2. \A i \in 1..Len(s) : s[i] \in ToSet(s)
  BY <1>1 DEF ToSet
<1>3. QED
  BY <1>1, <1>2

-----------------------------------------------------------------------------
(***************************************************************************)
(* The thinking of Kimi: what is left of an answer without it.             *)
(***************************************************************************)
KeptPart(kept, b) == IF IsThought(b) THEN kept ELSE Append(kept, b)

\* What is left of an answer is the parts of it that are no thinking, all of
\* them and nothing else.
LEMMA PartsLeft ==
  ASSUME NEW m \in Nat, NEW content, DOMAIN content = 1..m
  PROVE  /\ non_thinking_parts(content) \in Seq({content[i] : i \in 1..m})
         /\ \A j \in DOMAIN non_thinking_parts(content) : ~IsThought(non_thinking_parts(content)[j])
         /\ \A i \in 1..m : ~IsThought(content[i]) =>
              \E j \in DOMAIN non_thinking_parts(content) : non_thinking_parts(content)[j] = content[i]
<1> DEFINE S == Seq({content[i] : i \in 1..m})
           step == [p \in S \X (1..m) |-> KeptPart(p[1], content[p[2]])]
           IsFold(it) == it = [u \in SUBSET DOMAIN content |->
                                 IF u = {} THEN <<>> ELSE KeptPart(it[u \ {Max(u)}], content[Max(u)])]
           fold == CHOOSE it : IsFold(it)
<1>1. <<>> \in S
  OBVIOUS
<1>2. non_thinking_parts(content) = fold[DOMAIN content]
  BY DEF non_thinking_parts, KeptPart, FoldLeft, MapThenFoldSet, Max
<1>3. ASSUME NEW t \in S, NEW k \in 1..m PROVE KeptPart(t, content[k]) \in S
  BY DEF KeptPart
<1> HIDE DEF S
<1>4. IsFold(fold)
  <2>1. step \in [S \X (1..m) -> S]
    BY <1>3
  <2>2. PICK g \in [SUBSET (1..m) -> S] : Staged(m, g, <<>>, step)
    BY <1>1, <2>1, StagesExist
  <2>3. \A t \in S, k \in 1..m : step[<<t, k>>] = KeptPart(t, content[k])
    OBVIOUS
  <2> HIDE DEF step
  <2>4. \A u \in SUBSET (1..m) : u # {} =>
          step[<<g[u \ {Max(u)}], Max(u)>>] = KeptPart(g[u \ {Max(u)}], content[Max(u)])
    BY <2>3, FirstNumbers
  <2>5. \A u \in SUBSET (1..m) :
          g[u] = IF u = {} THEN <<>> ELSE KeptPart(g[u \ {Max(u)}], content[Max(u)])
    BY <2>2, <2>4 DEF Staged
  <2>6. IsFold(g)
    BY <2>5
  <2>7. QED
    BY <2>6
<1> HIDE DEF fold
<1>5. fold[{}] = <<>>
  <2>1. {} \in SUBSET (DOMAIN content)
    OBVIOUS
  <2>2. QED
    BY <1>4, <2>1
<1>6. \A k \in 1..m : fold[1..k] = KeptPart(fold[1..(k - 1)], content[k])
  <2>1. TAKE k \in 1..m
  <2> DEFINE all == 1..k
             less == 1..(k - 1)
  <2>2. all \in SUBSET (1..m) /\ all # {} /\ Max(all) = k /\ all \ {k} = less
    BY FirstNumbers
  <2> HIDE DEF all, less
  <2>3. fold[all] = KeptPart(fold[all \ {Max(all)}], content[Max(all)])
    BY <1>4, <2>2
  <2>4. QED
    BY <2>2, <2>3 DEF all, less
<1> HIDE DEF IsFold
<1> DEFINE Left(t, k) == /\ \A j \in DOMAIN t : ~IsThought(t[j])
                         /\ \A i \in 1..k : ~IsThought(content[i]) => \E j \in DOMAIN t : t[j] = content[i]
           P == {k \in 0..m : fold[1..k] \in S /\ Left(fold[1..k], k)}
<1>7. 0 \in P
  <2>1. fold[1..0] = <<>>
    BY <1>5, FirstNumbers
  <2>2. Left(<<>>, 0)
    OBVIOUS
  <2>3. QED
    BY <1>1, <2>1, <2>2
<1>8. ASSUME NEW k \in 1..m, k - 1 \in P PROVE k \in P
  <2> DEFINE t == fold[1..(k - 1)]
             b == content[k]
  <2>1. t \in S /\ Left(t, k - 1) /\ fold[1..k] = KeptPart(t, b) /\ KeptPart(t, b) \in S
    BY <1>3, <1>6, <1>8
  <2> HIDE DEF t
  <2>2. CASE IsThought(b)
    <3>1. KeptPart(t, b) = t
      BY <2>2 DEF KeptPart
    <3>2. Left(t, k)
      BY <2>1, <2>2
    <3>3. QED
      BY <2>1, <3>1, <3>2
  <2>3. CASE ~IsThought(b)
    <3>1. KeptPart(t, b) = Append(t, b)
      BY <2>3 DEF KeptPart
    <3>2. /\ DOMAIN Append(t, b) = 1..(Len(t) + 1) /\ DOMAIN t = 1..Len(t) /\ Len(t) \in Nat
          /\ Append(t, b)[Len(t) + 1] = b /\ \A i \in DOMAIN t : Append(t, b)[i] = t[i]
      BY <2>1, Appended DEF S
    <3> DEFINE a == Append(t, b)
    <3>3. \A j \in DOMAIN a : ~IsThought(a[j])
      BY <2>1, <2>3, <3>2
    <3>4. \A i \in 1..k : ~IsThought(content[i]) => \E j \in DOMAIN a : a[j] = content[i]
      <4>1. TAKE i \in 1..k
      <4>2. CASE i = k
        <5>1. Len(t) + 1 \in DOMAIN a
          BY <3>2
        <5>2. QED
          BY <3>2, <4>2, <5>1
      <4>3. CASE i # k
        <5>1. i \in 1..(k - 1) /\ DOMAIN t \subseteq DOMAIN a
          BY <3>2, <4>3
        <5>2. QED
          BY <2>1, <3>2, <5>1
      <4>4. QED
        BY <4>2, <4>3
    <3> HIDE DEF a
    <3>5. Left(a, k)
      BY <3>3, <3>4
    <3>6. fold[1..k] = a /\ fold[1..k] \in S
      BY <2>1, <3>1 DEF a
    <3> HIDE DEF Left
    <3>7. Left(fold[1..k], k)
      BY <3>5, <3>6
    <3>8. QED
      BY <3>6, <3>7
  <2>4. QED
    BY <2>2, <2>3
<1> HIDE DEF P
<1>9. m \in P
  BY <1>7, <1>8, LastStage
<1>10. QED
  BY <1>2, <1>9 DEF P, S

\* An answer that calls can be told by what is left of it.
LEMMA CallsLeft ==
  ASSUME NEW m \in Nat, NEW content, DOMAIN content = 1..m, hasCall(content)
  PROVE  hasCall(non_thinking_parts(content)) /\ ~content_has_thinking(non_thinking_parts(content))
<1> DEFINE kept == non_thinking_parts(content)
<1>1. /\ kept \in Seq({content[i] : i \in 1..m})
      /\ \A j \in DOMAIN kept : ~IsThought(kept[j])
      /\ \A i \in 1..m : ~IsThought(content[i]) => \E j \in DOMAIN kept : kept[j] = content[i]
  BY PartsLeft
<1> HIDE DEF kept
<1>2. \A j \in DOMAIN kept : \E i \in 1..m : kept[j] = content[i]
  BY <1>1
<1>3. PICK i \in 1..m : content[i].type = "tool_use"
  BY DEF hasCall
<1>4. ~IsThought(content[i])
  BY <1>3 DEF IsThought
<1>5. PICK j \in DOMAIN kept : kept[j] = content[i]
  BY <1>1, <1>4
<1>6. \A k \in DOMAIN kept : kept[k].type = "tool_use" => kept[k].id # 0
  BY <1>2 DEF hasCall
<1>7. hasCall(kept)
  BY <1>3, <1>5, <1>6 DEF hasCall
<1>8. ~content_has_thinking(kept)
  BY <1>1 DEF content_has_thinking
<1>9. QED
  BY <1>7, <1>8 DEF kept

-----------------------------------------------------------------------------
(***************************************************************************)
(* What the gateway gathers of a stream, and what the client is told.      *)
(***************************************************************************)
Blocks == [type: STRING, id: Nat, pieces: Seq(STRING), sig: Nat]
Maps(S) == UNION {[D -> S] : D \in SUBSET Nat}
Accs == [blocks: Maps([block: Blocks, finished: BOOLEAN]), observed: BOOLEAN, complete: BOOLEAN,
         error: BOOLEAN, abandoned: BOOLEAN]

LEMMA MapsAre ==
  ASSUME NEW S, NEW m
  PROVE  /\ m \in Maps(S) => DOMAIN m \subseteq Nat /\ m \in [DOMAIN m -> S]
         /\ \A D \in SUBSET Nat : m \in [D -> S] => m \in Maps(S)
BY DEF Maps

\* The frames of an answer stay frames when they bear its number.
LEMMA NumberedFrames ==
  ASSUME NEW f \in Frames, NEW n \in Nat
  PROVE  Numbered(f, n) \in Frames
<1>1. f.type \in {"message_start", "message_stop", "error", "start", "delta", "stop"}
  BY DEF Frames
<1>2. CASE f.type = "start"
  BY <1>2 DEF Frames, Numbered
<1>3. CASE f.type = "delta"
  <2>1. CASE f.kind = "signature"
    BY <1>3, <2>1 DEF Frames, Numbered
  <2>2. CASE f.kind # "signature"
    <3>1. Numbered(f, n) = f
      BY <1>3, <2>2 DEF Frames, Numbered
    <3>2. QED
      BY <3>1
  <2>3. QED
    BY <2>1, <2>2
<1>4. CASE f.type \notin {"start", "delta"}
  BY <1>4 DEF Numbered
<1>5. QED
  BY <1>1, <1>2, <1>3, <1>4

\* The fields of a frame.
LEMMA FrameFields ==
  ASSUME NEW f \in Frames
  PROVE  /\ f.type \in {"message_start", "message_stop", "error", "start", "delta", "stop"}
         /\ f.type \in {"start", "delta", "stop"} => f.index \in Nat
         /\ f.type = "start" => f.block \in Blocks /\ f.block.pieces = <<>>
         /\ f.type = "delta" /\ f.kind = "signature" => f.piece \in Nat
         /\ f.type = "delta" /\ f.kind # "signature" => f.piece \in STRING
<1>1. CASE f \in [type: {"message_start", "message_stop", "error"}]
  BY <1>1
<1>2. CASE f \in [type: {"start"}, index: Nat, block: [type: STRING, id: Nat, pieces: {<<>>}, sig: {0}]]
  <2>1. f.block \in [type: STRING, id: Nat, pieces: {<<>>}, sig: {0}] /\ <<>> \in Seq(STRING)
    BY <1>2
  <2>2. f.block \in Blocks
    <3>1. f.block.pieces = <<>> /\ f.block.sig = 0
      BY <2>1
    <3> DEFINE none == <<>>
    <3>2. none \in Seq(STRING) /\ f.block.pieces = none
      BY <2>1, <3>1
    <3> HIDE DEF none
    <3>3. QED
      BY <2>1, <3>1, <3>2 DEF Blocks
  <2>3. QED
    BY <1>2, <2>1, <2>2
<1>3. CASE f \in [type: {"delta"}, index: Nat, kind: {"signature"}, piece: Nat]
  BY <1>3
<1>4. CASE f \in [type: {"delta"}, index: Nat, kind: STRING \ {"signature"}, piece: STRING]
  BY <1>4
<1>5. CASE f \in [type: {"stop"}, index: Nat]
  BY <1>5
<1>6. QED
  BY <1>1, <1>2, <1>3, <1>4, <1>5 DEF Frames

\* What the client is told is blocks by their indexes.
LEMMA HearsBlocks ==
  ASSUME NEW said \in Maps(Blocks), NEW f \in Frames
  PROVE  hears(said, f) \in Maps(Blocks)
<1>1. DOMAIN said \subseteq Nat /\ said \in [DOMAIN said -> Blocks]
  BY MapsAre
<1>2. CASE f.type = "start"
  <2> DEFINE D == DOMAIN said \cup {f.index}
             next == [i \in D |-> IF i = f.index THEN f.block ELSE said[i]]
  <2>1. hears(said, f) = next
    BY <1>2 DEF hears
  <2>2. D \in SUBSET Nat /\ next \in [D -> Blocks]
    BY <1>1, <1>2, FrameFields
  <2> HIDE DEF D, next
  <2>3. QED
    BY <2>1, <2>2, MapsAre
<1>3. CASE f.type = "delta" /\ f.index \in DOMAIN said /\ f.kind = "signature"
  <2> DEFINE b == [said[f.index] EXCEPT !.sig = f.piece]
             next == [said EXCEPT ![f.index] = b]
  <2>1. hears(said, f) = next
    BY <1>3 DEF hears
  <2>2. b \in Blocks
    BY <1>1, <1>3, FrameFields DEF Blocks
  <2> HIDE DEF b
  <2>3. next \in [DOMAIN said -> Blocks]
    BY <1>1, <1>3, <2>2
  <2> HIDE DEF next
  <2>4. QED
    BY <1>1, <2>1, <2>3, MapsAre
<1>4. CASE f.type = "delta" /\ f.index \in DOMAIN said /\ f.kind \notin {"signature", "unknown"}
  <2> DEFINE b == [said[f.index] EXCEPT !.pieces = Append(said[f.index].pieces, f.piece)]
             next == [said EXCEPT ![f.index] = b]
  <2>1. hears(said, f) = next
    BY <1>4 DEF hears
  <2>2. said[f.index] \in Blocks /\ f.piece \in STRING
    BY <1>1, <1>4, FrameFields
  <2>3. b \in Blocks
    <3>1. said[f.index].pieces \in Seq(STRING)
      BY <2>2 DEF Blocks
    <3>2. Append(said[f.index].pieces, f.piece) \in Seq(STRING)
      BY <2>2, <3>1
    <3>3. QED
      BY <2>2, <3>2 DEF Blocks
  <2> HIDE DEF b
  <2>4. next \in [DOMAIN said -> Blocks]
    BY <1>1, <1>4, <2>3
  <2> HIDE DEF next
  <2>5. QED
    BY <1>1, <2>1, <2>4, MapsAre
<1>5. CASE ~(f.type = "start") /\ ~(f.type = "delta" /\ f.index \in DOMAIN said /\ f.kind # "unknown")
  <2>1. hears(said, f) = said
    BY <1>5 DEF hears
  <2>2. QED
    BY <2>1
<1>6. QED
  BY <1>2, <1>3, <1>4, <1>5

\* An accumulator keeps its flags.
SameFlags(a, b) ==
  /\ b.observed = a.observed /\ b.complete = a.complete
  /\ b.error = a.error /\ b.abandoned = a.abandoned

LEMMA Abandoned ==
  ASSUME NEW acc \in Accs
  PROVE  /\ abandon(acc) \in Accs /\ abandon(acc).abandoned /\ DOMAIN abandon(acc).blocks = {}
         /\ abandon(acc).error = acc.error /\ abandon(acc).complete = acc.complete
<1> DEFINE none == [i \in {} |-> 0]
<1>1. none \in Maps([block: Blocks, finished: BOOLEAN]) /\ DOMAIN none = {}
  <2>1. none \in [{} -> [block: Blocks, finished: BOOLEAN]] /\ {} \in SUBSET Nat
    OBVIOUS
  <2> HIDE DEF none
  <2>2. QED
    BY <2>1, MapsAre
<1>2. abandon(acc) = [acc EXCEPT !.abandoned = TRUE, !.blocks = none]
  BY DEF abandon
<1> HIDE DEF none
<1>3. QED
  BY <1>1, <1>2 DEF Accs

\* A block begins.
LEMMA OnStart ==
  ASSUME NEW acc \in Accs, ~acc.abandoned, NEW f \in Frames, f.type = "start"
  PROVE  LET next == observe_payload(acc, f)
             full == Cardinality(DOMAIN acc.blocks) >= MaxBlocks \/ f.index \in DOMAIN acc.blocks
         IN  /\ next \in Accs
             /\ full => next = abandon(acc)
             /\ ~full => /\ SameFlags(acc, next)
                         /\ DOMAIN next.blocks = DOMAIN acc.blocks \cup {f.index}
                         /\ \A i \in DOMAIN acc.blocks : next.blocks[i] = acc.blocks[i]
                         /\ next.blocks[f.index] = [block |-> f.block, finished |-> FALSE]
<1> DEFINE next == observe_payload(acc, f)
           full == Cardinality(DOMAIN acc.blocks) >= MaxBlocks \/ f.index \in DOMAIN acc.blocks
           D == DOMAIN acc.blocks \cup {f.index}
           blocks == [i \in D |-> IF i = f.index THEN [block |-> f.block, finished |-> FALSE] ELSE acc.blocks[i]]
<1>1. acc.blocks \in Maps([block: Blocks, finished: BOOLEAN]) /\ f.index \in Nat /\ f.block \in Blocks
  BY FrameFields DEF Accs
<1>2. DOMAIN acc.blocks \subseteq Nat /\ acc.blocks \in [DOMAIN acc.blocks -> [block: Blocks, finished: BOOLEAN]]
  BY <1>1, MapsAre
<1>3. next = IF full THEN abandon(acc) ELSE [acc EXCEPT !.blocks = blocks]
  BY DEF observe_payload, observe_block_start
<1> HIDE DEF next, full
<1>4. CASE full
  BY <1>3, <1>4, Abandoned DEF next, full
<1>5. CASE ~full
  <2>1. f.index \notin DOMAIN acc.blocks
    BY <1>5 DEF full
  <2>2. [block |-> f.block, finished |-> FALSE] \in [block: Blocks, finished: BOOLEAN]
    BY <1>1
  <2>3. D \in SUBSET Nat /\ blocks \in [D -> [block: Blocks, finished: BOOLEAN]]
    BY <1>1, <1>2, <2>2
  <2>4. /\ DOMAIN blocks = D /\ blocks[f.index] = [block |-> f.block, finished |-> FALSE]
        /\ \A i \in DOMAIN acc.blocks : blocks[i] = acc.blocks[i]
    BY <2>1
  <2>5. next = [acc EXCEPT !.blocks = blocks]
    BY <1>3, <1>5
  <2> HIDE DEF D, blocks
  <2>6. blocks \in Maps([block: Blocks, finished: BOOLEAN])
    BY <2>3, MapsAre
  <2>7. next \in Accs /\ next.blocks = blocks /\ SameFlags(acc, next)
    BY <2>5, <2>6 DEF Accs, SameFlags
  <2>8. QED
    BY <1>5, <2>4, <2>7 DEF next, full, D
<1>6. QED
  BY <1>4, <1>5

Longer(b, f) ==
  IF f.kind = "signature" THEN [b EXCEPT !.sig = f.piece] ELSE [b EXCEPT !.pieces = Append(b.pieces, f.piece)]

LEMMA LongerBlock ==
  ASSUME NEW b \in Blocks, NEW f \in Frames, f.type = "delta"
  PROVE  Longer(b, f) \in Blocks
<1>1. CASE f.kind = "signature"
  BY <1>1, FrameFields DEF Longer, Blocks
<1>2. CASE f.kind # "signature"
  <2>1. f.piece \in STRING /\ b.pieces \in Seq(STRING)
    BY <1>2, FrameFields DEF Blocks
  <2>2. Append(b.pieces, f.piece) \in Seq(STRING)
    BY <2>1
  <2>3. QED
    BY <1>2, <2>2 DEF Longer, Blocks
<1>3. QED
  BY <1>1, <1>2

\* A piece of a block.
LEMMA OnDelta ==
  ASSUME NEW acc \in Accs, ~acc.abandoned, NEW f \in Frames, f.type = "delta"
  PROVE  LET next == observe_payload(acc, f)
             lost == f.index \notin DOMAIN acc.blocks \/ f.kind = "unknown"
         IN  /\ next \in Accs
             /\ lost => next = abandon(acc)
             /\ ~lost => /\ SameFlags(acc, next)
                         /\ DOMAIN next.blocks = DOMAIN acc.blocks
                         /\ \A i \in DOMAIN acc.blocks : i # f.index => next.blocks[i] = acc.blocks[i]
                         /\ next.blocks[f.index] = [block |-> Longer(acc.blocks[f.index].block, f),
                                                   finished |-> acc.blocks[f.index].finished]
<1> DEFINE next == observe_payload(acc, f)
           lost == f.index \notin DOMAIN acc.blocks \/ f.kind = "unknown"
           Kept == [block: Blocks, finished: BOOLEAN]
           old == acc.blocks[f.index]
           new == [block |-> Longer(old.block, f), finished |-> old.finished]
           blocks == [acc.blocks EXCEPT ![f.index] = new]
<1>1. DOMAIN acc.blocks \subseteq Nat /\ acc.blocks \in [DOMAIN acc.blocks -> Kept]
  BY MapsAre DEF Accs
<1>2. lost => next = abandon(acc)
  BY DEF observe_payload, observe_block_delta
<1>3. CASE ~lost
  <2>1. old \in Kept /\ f.index \in DOMAIN acc.blocks
    BY <1>1, <1>3
  <2>2. new \in Kept
    BY <2>1, LongerBlock
  <2>3. next = [acc EXCEPT !.blocks = blocks]
    <3>1. CASE f.kind = "signature"
      <4>1. next = [acc EXCEPT !.blocks[f.index].block.sig = f.piece]
        BY <1>3, <3>1 DEF observe_payload, observe_block_delta
      <4>2. new = [old EXCEPT !.block.sig = f.piece]
        BY <2>1, <3>1 DEF Longer
      <4>3. QED
        BY <4>1, <4>2
    <3>2. CASE f.kind # "signature"
      <4>1. next = [acc EXCEPT !.blocks[f.index].block.pieces = Append(old.block.pieces, f.piece)]
        BY <1>3, <3>2 DEF observe_payload, observe_block_delta
      <4>2. new = [old EXCEPT !.block.pieces = Append(old.block.pieces, f.piece)]
        BY <2>1, <3>2 DEF Longer
      <4>3. QED
        BY <4>1, <4>2
    <3>3. QED
      BY <3>1, <3>2
  <2> HIDE DEF next, new, old, Kept
  <2>4. /\ blocks \in [DOMAIN acc.blocks -> Kept] /\ DOMAIN blocks = DOMAIN acc.blocks
        /\ blocks[f.index] = new
        /\ \A i \in DOMAIN acc.blocks : i # f.index => blocks[i] = acc.blocks[i]
    BY <1>1, <2>1, <2>2
  <2> HIDE DEF blocks
  <2>5. blocks \in Maps(Kept)
    BY <1>1, <2>4, MapsAre
  <2>6. next \in Accs /\ next.blocks = blocks /\ SameFlags(acc, next)
    BY <2>3, <2>5 DEF Accs, SameFlags, Kept
  <2>7. QED
    BY <1>3, <2>4, <2>6 DEF next, new, old
<1>4. QED
  BY <1>2, <1>3, Abandoned

\* A block is over.
LEMMA OnStop ==
  ASSUME NEW acc \in Accs, ~acc.abandoned, NEW f \in Frames, f.type = "stop"
  PROVE  LET next == observe_payload(acc, f)
             torn == \/ f.index \notin DOMAIN acc.blocks
                     \/ /\ acc.blocks[f.index].block.type = "tool_use"
                        /\ Contains(acc.blocks[f.index].block.pieces, "torn")
         IN  /\ next \in Accs
             /\ torn => next = abandon(acc)
             /\ ~torn => /\ SameFlags(acc, next)
                         /\ DOMAIN next.blocks = DOMAIN acc.blocks
                         /\ \A i \in DOMAIN acc.blocks : i # f.index => next.blocks[i] = acc.blocks[i]
                         /\ next.blocks[f.index].block = acc.blocks[f.index].block
                         /\ next.blocks[f.index].finished
<1> DEFINE next == observe_payload(acc, f)
           torn == \/ f.index \notin DOMAIN acc.blocks
                   \/ /\ acc.blocks[f.index].block.type = "tool_use"
                      /\ Contains(acc.blocks[f.index].block.pieces, "torn")
           Kept == [block: Blocks, finished: BOOLEAN]
           old == acc.blocks[f.index]
           new == [old EXCEPT !.finished = TRUE]
           blocks == [acc.blocks EXCEPT ![f.index] = new]
<1>1. DOMAIN acc.blocks \subseteq Nat /\ acc.blocks \in [DOMAIN acc.blocks -> Kept]
  BY MapsAre DEF Accs
<1>2. next = IF torn THEN abandon(acc) ELSE [acc EXCEPT !.blocks[f.index].finished = TRUE]
  BY Zenon DEF observe_payload, finish_block
<1> HIDE DEF next
<1>3. CASE ~torn
  <2>1. old \in Kept /\ f.index \in DOMAIN acc.blocks
    BY <1>1, <1>3
  <2>2. new \in Kept /\ new.block = old.block /\ new.finished
    BY <2>1
  <2>3. next = [acc EXCEPT !.blocks = blocks]
    BY <1>2, <1>3
  <2> HIDE DEF new, old, Kept, torn
  <2>4. /\ blocks \in [DOMAIN acc.blocks -> Kept] /\ DOMAIN blocks = DOMAIN acc.blocks
        /\ blocks[f.index] = new
        /\ \A i \in DOMAIN acc.blocks : i # f.index => blocks[i] = acc.blocks[i]
    BY <1>1, <2>1, <2>2
  <2> HIDE DEF blocks
  <2>5. blocks \in Maps(Kept)
    BY <1>1, <2>4, MapsAre
  <2>6. next \in Accs /\ next.blocks = blocks /\ SameFlags(acc, next)
    BY <2>3, <2>5 DEF Accs, SameFlags, Kept
  <2>7. next.blocks[f.index].block = old.block /\ next.blocks[f.index].finished
    BY <2>2, <2>4, <2>6
  <2>8. QED
    BY <1>3, <2>7, <2>4, <2>6 DEF next, new, old, torn
<1>4. CASE torn
  <2> HIDE DEF torn
  <2>1. QED
    BY <1>2, <1>4, Abandoned DEF next, torn
<1>5. QED
  BY <1>3, <1>4

\* What is no block's, and what comes after it was abandoned.
LEMMA OnOther ==
  ASSUME NEW acc \in Accs, NEW f \in Frames
  PROVE  LET next == observe_payload(acc, f) IN
         /\ acc.abandoned => next = acc
         /\ ~acc.abandoned /\ f.type = "message_start" => next = [acc EXCEPT !.observed = TRUE] /\ next \in Accs
         /\ ~acc.abandoned /\ f.type = "message_stop"  => next = [acc EXCEPT !.complete = TRUE] /\ next \in Accs
         /\ ~acc.abandoned /\ f.type = "error" => next = [abandon(acc) EXCEPT !.error = TRUE] /\ next \in Accs
<1>1. /\ [acc EXCEPT !.observed = TRUE] \in Accs /\ [acc EXCEPT !.complete = TRUE] \in Accs
      /\ [abandon(acc) EXCEPT !.error = TRUE] \in Accs
  BY Abandoned DEF Accs
<1>2. QED
  BY <1>1 DEF observe_payload

\* A frame makes an accumulator of an accumulator.
LEMMA Observed ==
  ASSUME NEW acc \in Accs, NEW f \in Frames
  PROVE  observe_payload(acc, f) \in Accs
<1>1. CASE acc.abandoned
  <2>1. observe_payload(acc, f) = acc
    BY <1>1, OnOther
  <2>2. QED
    BY <2>1
<1>2. CASE ~acc.abandoned
  BY <1>2, FrameFields, OnStart, OnDelta, OnStop, OnOther
<1>3. QED
  BY <1>1, <1>2

\* What is gathered of a stream is gathered frame by frame.
LEMMA GatheredInStages ==
  ASSUME NEW frames \in Seq(Frames)
  PROVE  \E g \in [0..Len(frames) -> Accs] :
           /\ g[0] = Unseen /\ g[Len(frames)] = Gathered(frames)
           /\ \A k \in 1..Len(frames) : g[k] = observe_payload(g[k - 1], frames[k])
<1> DEFINE n == Len(frames)
           base == Unseen
           step == [p \in Accs \X (1..n) |-> observe_payload(p[1], frames[p[2]])]
           IsFold(it) == it = [u \in SUBSET DOMAIN frames |->
                                 IF u = {} THEN base ELSE observe_payload(it[u \ {Max(u)}], frames[Max(u)])]
           fold == CHOOSE it : IsFold(it)
<1>1. base \in Accs
  <2> DEFINE none == [i \in {} |-> 0]
  <2>1. none \in [{} -> [block: Blocks, finished: BOOLEAN]] /\ {} \in SUBSET Nat
    OBVIOUS
  <2>2. Unseen = [blocks |-> none, observed |-> FALSE, complete |-> FALSE, error |-> FALSE, abandoned |-> FALSE]
    BY DEF Unseen
  <2> HIDE DEF none
  <2>3. none \in Maps([block: Blocks, finished: BOOLEAN])
    BY <2>1, MapsAre
  <2>4. QED
    BY <2>2, <2>3 DEF Accs
<1>2. Gathered(frames) = fold[DOMAIN frames]
  BY DEF Gathered, FoldLeft, MapThenFoldSet, Max
<1>3. n \in Nat /\ DOMAIN frames = 1..n /\ \A k \in 1..n : frames[k] \in Frames
  OBVIOUS
<1> HIDE DEF n, base
<1>4. \A t \in Accs, k \in 1..n : observe_payload(t, frames[k]) \in Accs
  BY <1>3, Observed
<1>5. IsFold(fold)
  <2>1. step \in [Accs \X (1..n) -> Accs]
    BY <1>4
  <2>2. PICK g \in [SUBSET (1..n) -> Accs] : Staged(n, g, base, step)
    BY <1>1, <1>3, <2>1, StagesExist
  <2>3. \A t \in Accs, k \in 1..n : step[<<t, k>>] = observe_payload(t, frames[k])
    OBVIOUS
  <2> HIDE DEF step
  <2>4. \A u \in SUBSET (1..n) : u # {} =>
          step[<<g[u \ {Max(u)}], Max(u)>>] = observe_payload(g[u \ {Max(u)}], frames[Max(u)])
    BY <1>3, <2>3, FirstNumbers
  <2>5. \A u \in SUBSET (1..n) :
          g[u] = IF u = {} THEN base ELSE observe_payload(g[u \ {Max(u)}], frames[Max(u)])
    BY <2>2, <2>4 DEF Staged
  <2>6. IsFold(g)
    BY <1>3, <2>5
  <2>7. QED
    BY <2>6
<1> HIDE DEF fold
<1>6. fold[{}] = base
  <2>1. {} \in SUBSET (DOMAIN frames)
    OBVIOUS
  <2>2. QED
    BY <1>5, <2>1
<1>7. \A k \in 1..n : fold[1..k] = observe_payload(fold[1..(k - 1)], frames[k])
  <2>1. TAKE k \in 1..n
  <2> DEFINE all == 1..k
             less == 1..(k - 1)
  <2>2. all \in SUBSET (1..n) /\ all # {} /\ Max(all) = k /\ all \ {k} = less
    BY <1>3, FirstNumbers
  <2> HIDE DEF all, less
  <2>3. fold[all] = observe_payload(fold[all \ {Max(all)}], frames[Max(all)])
    BY <1>3, <1>5, <2>2
  <2>4. QED
    BY <2>2, <2>3 DEF all, less
<1> HIDE DEF IsFold
<1> DEFINE g == [k \in 0..n |-> fold[1..k]]
           P == {k \in 0..n : fold[1..k] \in Accs}
<1>8. \A k \in 0..n : k \in P
  <2>1. 0 \in P
    BY <1>1, <1>3, <1>6, FirstNumbers
  <2>2. ASSUME NEW k \in 0..(n - 1), k \in P PROVE k + 1 \in P
    <3>1. k + 1 \in 1..n /\ (k + 1) - 1 = k /\ k + 1 \in 0..n
      BY <1>3
    <3>2. fold[1..(k + 1)] = observe_payload(fold[1..k], frames[k + 1])
      BY <1>7, <3>1
    <3>3. fold[1..(k + 1)] \in Accs
      BY <1>4, <2>2, <3>1, <3>2
    <3>4. QED
      BY <3>1, <3>3
  <2> HIDE DEF P
  <2>3. QED
    BY <1>3, <2>1, <2>2, UpTo
<1>9. g \in [0..n -> Accs]
  BY <1>8
<1>10. g[0] = base /\ g[n] = Gathered(frames)
  BY <1>2, <1>3, <1>6, FirstNumbers
<1>11. \A k \in 1..n : g[k] = observe_payload(g[k - 1], frames[k])
  BY <1>3, <1>7
<1> HIDE DEF g
<1>12. QED
  BY <1>9, <1>10, <1>11 DEF n, base


\* So is what the client is told.
LEMMA ToldInStages ==
  ASSUME NEW frames \in Seq(Frames)
  PROVE  \E g \in [0..Len(frames) -> Maps(Blocks)] :
           /\ g[0] = [i \in {} |-> 0] /\ g[Len(frames)] = Told(frames)
           /\ \A k \in 1..Len(frames) : g[k] = hears(g[k - 1], frames[k])
<1> DEFINE n == Len(frames)
           base == [i \in {} |-> 0]
           step == [p \in Maps(Blocks) \X (1..n) |-> hears(p[1], frames[p[2]])]
           IsFold(it) == it = [u \in SUBSET DOMAIN frames |->
                                 IF u = {} THEN base ELSE hears(it[u \ {Max(u)}], frames[Max(u)])]
           fold == CHOOSE it : IsFold(it)
<1>1. base \in Maps(Blocks)
  <2>1. base \in [{} -> Blocks] /\ {} \in SUBSET Nat
    OBVIOUS
  <2> HIDE DEF base
  <2>2. QED
    BY <2>1, MapsAre
<1>2. Told(frames) = fold[DOMAIN frames]
  BY DEF Told, FoldLeft, MapThenFoldSet, Max
<1>3. n \in Nat /\ DOMAIN frames = 1..n /\ \A k \in 1..n : frames[k] \in Frames
  OBVIOUS
<1> HIDE DEF n, base
<1>4. \A t \in Maps(Blocks), k \in 1..n : hears(t, frames[k]) \in Maps(Blocks)
  BY <1>3, HearsBlocks
<1>5. IsFold(fold)
  <2>1. step \in [Maps(Blocks) \X (1..n) -> Maps(Blocks)]
    BY <1>4
  <2>2. PICK g \in [SUBSET (1..n) -> Maps(Blocks)] : Staged(n, g, base, step)
    BY <1>1, <1>3, <2>1, StagesExist
  <2>3. \A t \in Maps(Blocks), k \in 1..n : step[<<t, k>>] = hears(t, frames[k])
    OBVIOUS
  <2> HIDE DEF step
  <2>4. \A u \in SUBSET (1..n) : u # {} =>
          step[<<g[u \ {Max(u)}], Max(u)>>] = hears(g[u \ {Max(u)}], frames[Max(u)])
    BY <1>3, <2>3, FirstNumbers
  <2>5. \A u \in SUBSET (1..n) :
          g[u] = IF u = {} THEN base ELSE hears(g[u \ {Max(u)}], frames[Max(u)])
    BY <2>2, <2>4 DEF Staged
  <2>6. IsFold(g)
    BY <1>3, <2>5
  <2>7. QED
    BY <2>6
<1> HIDE DEF fold
<1>6. fold[{}] = base
  <2>1. {} \in SUBSET (DOMAIN frames)
    OBVIOUS
  <2>2. QED
    BY <1>5, <2>1
<1>7. \A k \in 1..n : fold[1..k] = hears(fold[1..(k - 1)], frames[k])
  <2>1. TAKE k \in 1..n
  <2> DEFINE all == 1..k
             less == 1..(k - 1)
  <2>2. all \in SUBSET (1..n) /\ all # {} /\ Max(all) = k /\ all \ {k} = less
    BY <1>3, FirstNumbers
  <2> HIDE DEF all, less
  <2>3. fold[all] = hears(fold[all \ {Max(all)}], frames[Max(all)])
    BY <1>3, <1>5, <2>2
  <2>4. QED
    BY <2>2, <2>3 DEF all, less
<1> HIDE DEF IsFold
<1> DEFINE g == [k \in 0..n |-> fold[1..k]]
           P == {k \in 0..n : fold[1..k] \in Maps(Blocks)}
<1>8. \A k \in 0..n : k \in P
  <2>1. 0 \in P
    BY <1>1, <1>3, <1>6, FirstNumbers
  <2>2. ASSUME NEW k \in 0..(n - 1), k \in P PROVE k + 1 \in P
    <3>1. k + 1 \in 1..n /\ (k + 1) - 1 = k /\ k + 1 \in 0..n
      BY <1>3
    <3>2. fold[1..(k + 1)] = hears(fold[1..k], frames[k + 1])
      BY <1>7, <3>1
    <3>3. fold[1..(k + 1)] \in Maps(Blocks)
      BY <1>4, <2>2, <3>1, <3>2
    <3>4. QED
      BY <3>1, <3>3
  <2> HIDE DEF P
  <2>3. QED
    BY <1>3, <2>1, <2>2, UpTo
<1>9. g \in [0..n -> Maps(Blocks)]
  BY <1>8
<1>10. g[0] = base /\ g[n] = Told(frames)
  BY <1>2, <1>3, <1>6, FirstNumbers
<1>11. \A k \in 1..n : g[k] = hears(g[k - 1], frames[k])
  BY <1>3, <1>7
<1> HIDE DEF g
<1>12. QED
  BY <1>9, <1>10, <1>11 DEF n, base

\* While a stream is followed, the gateway has the blocks the client has.
Agrees(acc, said) ==
  acc.abandoned \/ /\ DOMAIN acc.blocks = DOMAIN said
                   /\ \A i \in DOMAIN said : acc.blocks[i].block = said[i]

LEMMA AgreesStill ==
  ASSUME NEW acc \in Accs, NEW said \in Maps(Blocks), NEW f \in Frames, Agrees(acc, said)
  PROVE  /\ Agrees(observe_payload(acc, f), hears(said, f))
         /\ observe_payload(acc, f).complete => acc.complete \/ f.type = "message_stop"
<1> DEFINE next == observe_payload(acc, f)
           heard == hears(said, f)
<1>1. DOMAIN said \subseteq Nat /\ said \in [DOMAIN said -> Blocks]
  BY MapsAre
<1>2. CASE acc.abandoned
  BY <1>2, OnOther DEF Agrees
<1>3. CASE ~acc.abandoned /\ f.type = "start"
  <2> DEFINE full == Cardinality(DOMAIN acc.blocks) >= MaxBlocks \/ f.index \in DOMAIN acc.blocks
  <2>1. CASE full
    <3>1. next = abandon(acc)
      BY <1>3, <2>1, OnStart
    <3>2. abandon(acc).abandoned /\ abandon(acc).complete = acc.complete
      BY Abandoned
    <3> HIDE DEF next
    <3>3. Agrees(next, heard) /\ (next.complete => acc.complete)
      BY <3>1, <3>2 DEF Agrees
    <3>4. QED
      BY <3>3 DEF next
  <2>2. CASE ~full
    <3>1. /\ SameFlags(acc, next)
          /\ DOMAIN next.blocks = DOMAIN acc.blocks \cup {f.index}
          /\ \A i \in DOMAIN acc.blocks : next.blocks[i] = acc.blocks[i]
          /\ next.blocks[f.index] = [block |-> f.block, finished |-> FALSE]
      BY <1>3, <2>2, OnStart
    <3>2. /\ DOMAIN heard = DOMAIN said \cup {f.index} /\ heard[f.index] = f.block
          /\ \A i \in DOMAIN said : i # f.index => heard[i] = said[i]
      BY <1>3 DEF hears
    <3>3. f.index \notin DOMAIN acc.blocks
      BY <2>2
    <3> HIDE DEF next, heard, full
    <3>4. Agrees(next, heard) /\ (next.complete => acc.complete)
      BY <1>3, <3>1, <3>2, <3>3 DEF Agrees, SameFlags
    <3>5. QED
      BY <3>4 DEF next, heard
  <2>3. QED
    BY <2>1, <2>2
<1>4. CASE ~acc.abandoned /\ f.type = "delta"
  <2> DEFINE lost == f.index \notin DOMAIN acc.blocks \/ f.kind = "unknown"
  <2>1. CASE lost
    <3>1. next = abandon(acc)
      BY <1>4, <2>1, OnDelta
    <3>2. abandon(acc).abandoned /\ abandon(acc).complete = acc.complete
      BY Abandoned
    <3> HIDE DEF next
    <3>3. Agrees(next, heard) /\ (next.complete => acc.complete)
      BY <3>1, <3>2 DEF Agrees
    <3>4. QED
      BY <3>3 DEF next
  <2>2. CASE ~lost
    <3>1. /\ SameFlags(acc, next)
          /\ DOMAIN next.blocks = DOMAIN acc.blocks
          /\ \A i \in DOMAIN acc.blocks : i # f.index => next.blocks[i] = acc.blocks[i]
          /\ next.blocks[f.index].block = Longer(acc.blocks[f.index].block, f)
      <4>1. /\ SameFlags(acc, next)
            /\ DOMAIN next.blocks = DOMAIN acc.blocks
            /\ \A i \in DOMAIN acc.blocks : i # f.index => next.blocks[i] = acc.blocks[i]
            /\ next.blocks[f.index] = [block |-> Longer(acc.blocks[f.index].block, f),
                                      finished |-> acc.blocks[f.index].finished]
        BY <1>4, <2>2, OnDelta
      <4> HIDE DEF next, lost
      <4>2. QED
        BY <4>1
    <3>2. f.index \in DOMAIN said /\ f.kind # "unknown" /\ acc.blocks[f.index].block = said[f.index]
      BY <1>4, <2>2 DEF Agrees
    <3>3. /\ DOMAIN heard = DOMAIN said /\ heard[f.index] = Longer(said[f.index], f)
          /\ \A i \in DOMAIN said : i # f.index => heard[i] = said[i]
      <4>1. CASE f.kind = "signature"
        BY <1>1, <1>4, <3>2, <4>1 DEF hears, Longer
      <4>2. CASE f.kind # "signature"
        BY <1>1, <1>4, <3>2, <4>2 DEF hears, Longer
      <4>3. QED
        BY <4>1, <4>2
    <3> HIDE DEF next, heard, lost
    <3>4. Agrees(next, heard) /\ (next.complete => acc.complete)
      BY <1>4, <3>1, <3>2, <3>3 DEF Agrees, SameFlags
    <3>5. QED
      BY <3>4 DEF next, heard
  <2>3. QED
    BY <2>1, <2>2
<1>5. CASE ~acc.abandoned /\ f.type = "stop"
  <2> DEFINE torn == \/ f.index \notin DOMAIN acc.blocks
                     \/ /\ acc.blocks[f.index].block.type = "tool_use"
                        /\ Contains(acc.blocks[f.index].block.pieces, "torn")
  <2>1. torn => next = abandon(acc)
    BY <1>5, OnStop
  <2>2. ~torn => /\ SameFlags(acc, next)
                 /\ DOMAIN next.blocks = DOMAIN acc.blocks
                 /\ \A i \in DOMAIN acc.blocks : i # f.index => next.blocks[i] = acc.blocks[i]
                 /\ next.blocks[f.index].block = acc.blocks[f.index].block
    BY <1>5, OnStop
  <2>3. heard = said
    BY <1>5 DEF hears
  <2> HIDE DEF next, heard, torn
  <2>4. CASE torn
    <3>1. Agrees(next, heard) /\ (next.complete => acc.complete)
      BY <2>1, <2>4, Abandoned DEF Agrees
    <3>2. QED
      BY <3>1 DEF next, heard
  <2>5. CASE ~torn
    <3>1. Agrees(next, heard) /\ (next.complete => acc.complete)
      BY <1>5, <2>2, <2>3, <2>5 DEF Agrees, SameFlags
    <3>2. QED
      BY <3>1 DEF next, heard
  <2>6. QED
    BY <2>4, <2>5
<1>6. CASE ~acc.abandoned /\ f.type \in {"message_start", "message_stop", "error"}
  <2>1. heard = said
    BY <1>6 DEF hears
  <2>2. CASE f.type = "error"
    <3>1. next = [abandon(acc) EXCEPT !.error = TRUE]
      BY <1>6, <2>2, OnOther
    <3>2. abandon(acc) \in Accs /\ abandon(acc).abandoned /\ abandon(acc).complete = acc.complete
      BY Abandoned
    <3> HIDE DEF next
    <3>3. next.abandoned /\ next.complete = acc.complete
      BY <3>1, <3>2 DEF Accs
    <3>4. Agrees(next, heard) /\ (next.complete => acc.complete)
      BY <3>3 DEF Agrees
    <3>5. QED
      BY <3>4 DEF next
  <2>3. CASE f.type # "error"
    <3>1. IF f.type = "message_start" THEN next = [acc EXCEPT !.observed = TRUE]
          ELSE next = [acc EXCEPT !.complete = TRUE]
      BY <1>6, <2>3, OnOther
    <3> HIDE DEF next
    <3>2. next.blocks = acc.blocks /\ (f.type = "message_start" => next.complete = acc.complete)
      BY <1>6, <2>3, <3>1 DEF Accs
    <3>3. Agrees(next, heard) /\ (next.complete => acc.complete \/ f.type = "message_stop")
      BY <1>6, <2>1, <2>3, <3>2 DEF Agrees
    <3>4. QED
      BY <3>3 DEF next
  <2>4. QED
    BY <2>2, <2>3
<1>7. QED
  BY <1>2, <1>3, <1>4, <1>5, <1>6, FrameFields

\* What is taken of a stream is the very answer the client has of it, and is taken
\* only if the stream came to its end.
LEMMA TakenIsTold ==
  ASSUME NEW frames \in Seq(Frames), take_content(Gathered(frames)) # <<>>
  PROVE  take_content(Gathered(frames)) = <<InOrder(Told(frames))>> /\ Finishes(frames)
<1> DEFINE n == Len(frames)
<1>1. n \in Nat /\ DOMAIN frames = 1..n /\ \A k \in 1..n : frames[k] \in Frames
  OBVIOUS
<1>2. PICK g \in [0..n -> Accs] :
        /\ g[0] = Unseen /\ g[n] = Gathered(frames)
        /\ \A k \in 1..n : g[k] = observe_payload(g[k - 1], frames[k])
  BY GatheredInStages
<1>3. PICK h \in [0..n -> Maps(Blocks)] :
        /\ h[0] = [i \in {} |-> 0] /\ h[n] = Told(frames)
        /\ \A k \in 1..n : h[k] = hears(h[k - 1], frames[k])
  BY ToldInStages
<1> DEFINE Good(k) == /\ Agrees(g[k], h[k])
                      /\ g[k].complete => \E i \in 1..k : frames[i].type = "message_stop"
           P == {k \in 0..n : Good(k)}
<1> HIDE DEF n
<1>4. 0 \in P
  <2>1. g[0].complete = FALSE /\ DOMAIN g[0].blocks = {} /\ DOMAIN h[0] = {}
    BY <1>2, <1>3 DEF Unseen
  <2>2. QED
    BY <1>1, <2>1 DEF Agrees
<1>5. ASSUME NEW k \in 1..n, k - 1 \in P PROVE k \in P
  <2>1. /\ k - 1 \in 0..n /\ g[k - 1] \in Accs /\ h[k - 1] \in Maps(Blocks) /\ frames[k] \in Frames
        /\ g[k] = observe_payload(g[k - 1], frames[k]) /\ h[k] = hears(h[k - 1], frames[k])
    BY <1>1, <1>2, <1>3
  <2>2. Good(k - 1)
    BY <1>5
  <2>3. /\ Agrees(g[k], h[k])
        /\ g[k].complete => g[k - 1].complete \/ frames[k].type = "message_stop"
    BY <2>1, <2>2, AgreesStill
  <2>4. k \in 0..n /\ 1..(k - 1) \subseteq 1..k /\ k \in 1..k
    BY <1>1
  <2>5. Good(k)
    BY <2>2, <2>3, <2>4
  <2> HIDE DEF Good
  <2>6. QED
    BY <2>4, <2>5
<1> HIDE DEF P
<1>6. n \in P
  BY <1>1, <1>4, <1>5, LastStage
<1> DEFINE acc == Gathered(frames)
           said == Told(frames)
<1>7. /\ Agrees(acc, said) /\ acc \in Accs /\ said \in Maps(Blocks)
      /\ acc.complete => \E i \in 1..n : frames[i].type = "message_stop"
  <2>1. Good(n) /\ n \in 0..n
    BY <1>1, <1>6 DEF P
  <2>2. g[n] \in Accs /\ h[n] \in Maps(Blocks) /\ g[n] = acc /\ h[n] = said
    BY <1>2, <1>3, <2>1 DEF n
  <2> HIDE DEF acc, said
  <2>3. QED
    BY <2>1, <2>2
<1> HIDE DEF acc, said
<1>8. /\ acc.complete /\ ~acc.abandoned
      /\ take_content(acc) = <<InOrder([i \in DOMAIN acc.blocks |-> acc.blocks[i].block])>>
  BY DEF take_content, acc
<1>9. [i \in DOMAIN acc.blocks |-> acc.blocks[i].block] = said
  BY <1>7, <1>8, MapsAre DEF Agrees
<1>10. Finishes(frames)
  BY <1>1, <1>7, <1>8 DEF Finishes
<1>11. QED
  BY <1>8, <1>9, <1>10 DEF acc, said

\* No piece of what is gathered is torn.
Untorn(acc) ==
  \A i \in DOMAIN acc.blocks : \A p \in DOMAIN acc.blocks[i].block.pieces : acc.blocks[i].block.pieces[p] # "torn"

\* A frame that has its place among those before it is followed.
Placed(acc, f) ==
  /\ f.type # "error"
  /\ f.type = "start" => ~(Cardinality(DOMAIN acc.blocks) >= MaxBlocks) /\ f.index \notin DOMAIN acc.blocks
  /\ f.type \in {"delta", "stop"} => f.index \in DOMAIN acc.blocks
  /\ f.type = "delta" /\ f.kind # "signature" => f.kind # "unknown" /\ f.piece # "torn"

Follows(acc, f, next) ==
  /\ ~next.abandoned /\ ~next.error /\ Untorn(next)
  /\ DOMAIN next.blocks = DOMAIN acc.blocks \cup (IF f.type = "start" THEN {f.index} ELSE {})
  /\ acc.observed \/ f.type = "message_start" => next.observed
  /\ acc.complete \/ f.type = "message_stop" => next.complete
  /\ \A i \in DOMAIN acc.blocks : acc.blocks[i].finished => next.blocks[i].finished
  /\ f.type = "stop" => next.blocks[f.index].finished

LEMMA PlacedIsFollowed ==
  ASSUME NEW acc \in Accs, NEW f \in Frames, ~acc.abandoned, ~acc.error, Untorn(acc), Placed(acc, f)
  PROVE  Follows(acc, f, observe_payload(acc, f))
<1> DEFINE next == observe_payload(acc, f)
           Kept == [block: Blocks, finished: BOOLEAN]
<1>1. DOMAIN acc.blocks \subseteq Nat /\ acc.blocks \in [DOMAIN acc.blocks -> Kept]
  BY MapsAre DEF Accs
<1>2. CASE f.type = "start"
  <2>1. /\ SameFlags(acc, next)
        /\ DOMAIN next.blocks = DOMAIN acc.blocks \cup {f.index}
        /\ \A i \in DOMAIN acc.blocks : next.blocks[i] = acc.blocks[i]
        /\ next.blocks[f.index] = [block |-> f.block, finished |-> FALSE]
    BY <1>2, OnStart DEF Placed
  <2>2. f.block.pieces = <<>>
    BY <1>2, FrameFields
  <2> HIDE DEF next
  <2>3. Untorn(next)
    BY <2>1, <2>2 DEF Untorn
  <2>4. QED
    BY <1>2, <2>1, <2>3 DEF Follows, SameFlags, next
<1>3. CASE f.type = "delta"
  <2> DEFINE old == acc.blocks[f.index].block
  <2>1. /\ SameFlags(acc, next)
        /\ DOMAIN next.blocks = DOMAIN acc.blocks
        /\ \A i \in DOMAIN acc.blocks : i # f.index => next.blocks[i] = acc.blocks[i]
        /\ next.blocks[f.index] = [block |-> Longer(old, f), finished |-> acc.blocks[f.index].finished]
    BY <1>3, OnDelta DEF Placed
  <2>2. f.index \in DOMAIN acc.blocks /\ old \in Blocks
    BY <1>1, <1>3 DEF Placed
  <2>3. \A p \in DOMAIN Longer(old, f).pieces : Longer(old, f).pieces[p] # "torn"
    <3>1. CASE f.kind = "signature"
      <4>1. Longer(old, f).pieces = old.pieces
        BY <2>2, <3>1 DEF Longer, Blocks
      <4>2. QED
        BY <2>2, <4>1 DEF Untorn
    <3>2. CASE f.kind # "signature"
      <4>1. Longer(old, f).pieces = Append(old.pieces, f.piece) /\ old.pieces \in Seq(STRING)
        BY <2>2, <3>2 DEF Longer, Blocks
      <4>2. f.piece # "torn"
        BY <1>3, <3>2 DEF Placed
      <4>3. \A p \in DOMAIN old.pieces : old.pieces[p] # "torn"
        BY <2>2 DEF Untorn
      <4> DEFINE pieces == old.pieces
                 all == Append(pieces, f.piece)
      <4> HIDE DEF pieces
      <4>4. /\ DOMAIN all = 1..(Len(pieces) + 1) /\ DOMAIN pieces = 1..Len(pieces) /\ Len(pieces) \in Nat
            /\ all[Len(pieces) + 1] = f.piece /\ \A i \in DOMAIN pieces : all[i] = pieces[i]
        <5>1. pieces \in Seq(STRING)
          BY <4>1 DEF pieces
        <5>2. \A x : /\ DOMAIN Append(pieces, x) = 1..(Len(pieces) + 1) /\ DOMAIN pieces = 1..Len(pieces)
                     /\ Len(pieces) \in Nat /\ Append(pieces, x)[Len(pieces) + 1] = x
                     /\ \A i \in DOMAIN pieces : Append(pieces, x)[i] = pieces[i]
          BY <5>1, Appended
        <5>3. QED
          BY <5>2
      <4> HIDE DEF all
      <4>5. \A p \in DOMAIN all : p \in DOMAIN pieces \/ p = Len(pieces) + 1
        BY <4>4
      <4>6. \A p \in DOMAIN all : all[p] # "torn"
        BY <4>2, <4>3, <4>4, <4>5 DEF pieces
      <4>7. QED
        BY <4>1, <4>6 DEF all, pieces
    <3>3. QED
      BY <3>1, <3>2
  <2> HIDE DEF next
  <2>4. \A i \in DOMAIN next.blocks : \A p \in DOMAIN next.blocks[i].block.pieces : next.blocks[i].block.pieces[p] # "torn"
    <3>1. TAKE i \in DOMAIN next.blocks
    <3>2. CASE i = f.index
      <4>1. next.blocks[i].block = Longer(old, f)
        <5> HIDE DEF old
        <5>1. QED
          BY <2>1, <3>2
      <4>2. QED
        BY <2>3, <4>1
    <3>3. CASE i # f.index
      BY <2>1, <3>3 DEF Untorn
    <3>4. QED
      BY <3>2, <3>3
  <2>5. \A i \in DOMAIN acc.blocks : acc.blocks[i].finished => next.blocks[i].finished
    <3> HIDE DEF old
    <3>1. QED
      BY <2>1
  <2>6. QED
    BY <1>3, <2>1, <2>4, <2>5 DEF Follows, SameFlags, Untorn, next
<1>4. CASE f.type = "stop"
  <2>1. f.index \in DOMAIN acc.blocks /\ acc.blocks[f.index].block \in Blocks
    BY <1>1, <1>4 DEF Placed
  <2>2. ~Contains(acc.blocks[f.index].block.pieces, "torn")
    <3> DEFINE pieces == acc.blocks[f.index].block.pieces
    <3>1. pieces \in Seq(STRING) /\ \A p \in DOMAIN pieces : pieces[p] # "torn"
      BY <2>1 DEF Untorn, Blocks
    <3> HIDE DEF pieces
    <3>2. ~Contains(pieces, "torn")
      BY <3>1 DEF Contains
    <3>3. QED
      BY <3>2 DEF pieces
  <2>3. /\ SameFlags(acc, next)
        /\ DOMAIN next.blocks = DOMAIN acc.blocks
        /\ \A i \in DOMAIN acc.blocks : i # f.index => next.blocks[i] = acc.blocks[i]
        /\ next.blocks[f.index].block = acc.blocks[f.index].block
        /\ next.blocks[f.index].finished
    BY <1>4, <2>1, <2>2, OnStop
  <2> HIDE DEF next
  <2>4. Untorn(next)
    BY <2>1, <2>3 DEF Untorn
  <2>5. QED
    BY <1>4, <2>3, <2>4 DEF Follows, SameFlags, next
<1>5. CASE f.type = "message_start"
  <2>1. next = [acc EXCEPT !.observed = TRUE]
    BY <1>5, OnOther
  <2> HIDE DEF next
  <2>2. next.observed /\ next.blocks = acc.blocks /\ next.complete = acc.complete
        /\ next.error = acc.error /\ next.abandoned = acc.abandoned
    BY <2>1 DEF Accs
  <2>3. QED
    BY <1>5, <2>2 DEF Follows, Untorn, next
<1>6. CASE f.type = "message_stop"
  <2>1. next = [acc EXCEPT !.complete = TRUE]
    BY <1>6, OnOther
  <2> HIDE DEF next
  <2>2. next.complete /\ next.blocks = acc.blocks /\ next.observed = acc.observed
        /\ next.error = acc.error /\ next.abandoned = acc.abandoned
    BY <2>1 DEF Accs
  <2>3. QED
    BY <1>6, <2>2 DEF Follows, Untorn, next
<1>7. QED
  BY <1>2, <1>3, <1>4, <1>5, <1>6, FrameFields DEF Placed

\* A set of numbers a map is about is finite when it is that of a sequence's indexes.
LEMMA BegunIsFinite ==
  ASSUME NEW n \in Nat, NEW frames, NEW begun, begun \subseteq 1..n
  PROVE  IsFiniteSet({frames[i].index : i \in begun})
<1> DEFINE indexes == [i \in begun |-> frames[i].index]
           all == {frames[i].index : i \in begun}
<1>1. IsFiniteSet(begun)
  <2>1. IsFiniteSet(1..n) /\ begun \in SUBSET (1..n)
    BY FS_Interval
  <2>2. QED
    BY <2>1, FS_Subset
<1>2. indexes \in Surjection(begun, all)
  BY DEF Surjection
<1> HIDE DEF indexes, all
<1>3. IsFiniteSet(all)
  BY <1>1, <1>2, FS_Surjection
<1>4. QED
  BY <1>3 DEF all

\* The indexes of the blocks that begin among the first k frames.
BegunBy(frames, k) == {frames[i].index : i \in {j \in 1..k : frames[j].type = "start"}}

Saw(frames, k, type) == \E j \in 1..k : frames[j].type = type

FollowedTo(acc, frames, k) ==
  /\ ~acc.abandoned /\ ~acc.error /\ Untorn(acc)
  /\ DOMAIN acc.blocks = BegunBy(frames, k)
  /\ Saw(frames, k, "message_start") => acc.observed
  /\ Saw(frames, k, "message_stop") => acc.complete
  /\ \A j \in 1..k : frames[j].type = "stop" =>
       frames[j].index \in DOMAIN acc.blocks /\ acc.blocks[frames[j].index].finished

\* Each frame of a stream that can be followed has its place.
LEMMA FramesArePlaced ==
  ASSUME NEW frames \in Seq(Frames), Followable(frames), NEW k \in 1..Len(frames),
         NEW acc \in Accs, FollowedTo(acc, frames, k - 1)
  PROVE  Placed(acc, frames[k])
<1> DEFINE n == Len(frames)
           f == frames[k]
           begun == {i \in DOMAIN frames : frames[i].type = "start"}
           all == {frames[i].index : i \in begun}
           D == DOMAIN acc.blocks
<1>1. n \in Nat /\ DOMAIN frames = 1..n /\ k \in 1..n /\ k - 1 \in Nat
  OBVIOUS
<1>2. D = BegunBy(frames, k - 1)
  BY DEF FollowedTo
<1>3. f.type # "error" /\ (f.type = "delta" /\ f.kind # "signature" => f.kind # "unknown" /\ f.piece # "torn")
  BY <1>1 DEF Followable
<1>4. ASSUME f.type \in {"delta", "stop"} PROVE f.index \in D
  <2>1. PICK j \in begun : j < k /\ frames[j].index = f.index
    BY <1>1, <1>4 DEF Followable
  <2>2. j \in {i \in 1..(k - 1) : frames[i].type = "start"}
    BY <1>1, <2>1
  <2>3. QED
    BY <1>2, <2>1, <2>2 DEF BegunBy
<1>5. ASSUME f.type = "start" PROVE ~(Cardinality(D) >= MaxBlocks) /\ f.index \notin D
  <2>1. k \in begun
    BY <1>1, <1>5
  <2>2. f.index \notin D
    <3>1. SUFFICES ASSUME f.index \in D PROVE FALSE
      OBVIOUS
    <3>2. PICK j \in 1..(k - 1) : frames[j].type = "start" /\ frames[j].index = f.index
      BY <1>2, <3>1 DEF BegunBy
    <3>3. j \in begun /\ j # k
      BY <1>1, <3>2
    <3>4. QED
      BY <2>1, <3>2, <3>3 DEF Followable
  <2>3. D \cup {f.index} \subseteq all
    <3>1. \A i \in 1..(k - 1) : i \in 1..n
      BY <1>1
    <3>2. QED
      BY <1>1, <1>2, <2>1, <3>1 DEF BegunBy
  <2>4. IsFiniteSet(all) /\ Cardinality(all) <= MaxBlocks
    <3>1. begun \subseteq 1..n
      BY <1>1
    <3>2. Cardinality(all) <= MaxBlocks
      BY DEF Followable
    <3> HIDE DEF begun
    <3>3. QED
      BY <1>1, <3>1, <3>2, BegunIsFinite
  <2> HIDE DEF all, D, f, begun, n
  <2>5. D \in SUBSET all /\ D \cup {f.index} \in SUBSET all
    BY <2>3
  <2>6. IsFiniteSet(D) /\ IsFiniteSet(D \cup {f.index}) /\ Cardinality(D \cup {f.index}) <= Cardinality(all)
    BY <2>4, <2>5, FS_Subset
  <2>7. Cardinality(D \cup {f.index}) = Cardinality(D) + 1
    BY <2>2, <2>6, FS_AddElement
  <2>8. Cardinality(D) \in Nat /\ Cardinality(all) \in Nat /\ MaxBlocks \in Nat
    BY <2>4, <2>6, FS_CardinalityType, KimiAssumption
  <2>9. QED
    BY <2>2, <2>4, <2>6, <2>7, <2>8
<1>6. QED
  BY <1>3, <1>4, <1>5 DEF Placed

\* One frame further.
LEMMA FollowedFurther ==
  ASSUME NEW frames \in Seq(Frames), NEW k \in 1..Len(frames), NEW acc, NEW next,
         FollowedTo(acc, frames, k - 1), Follows(acc, frames[k], next),
         frames[k].type = "stop" => frames[k].index \in DOMAIN acc.blocks
  PROVE  FollowedTo(next, frames, k)
<1> DEFINE f == frames[k]
<1>1. \A j \in 1..k : j = k \/ j \in 1..(k - 1)
  OBVIOUS
<1>2. k \in 1..k /\ 1..(k - 1) \subseteq 1..k
  OBVIOUS
<1>3. BegunBy(frames, k) = BegunBy(frames, k - 1) \cup (IF f.type = "start" THEN {f.index} ELSE {})
  <2> DEFINE was == {j \in 1..(k - 1) : frames[j].type = "start"}
             is == {j \in 1..k : frames[j].type = "start"}
  <2>1. is = was \cup (IF f.type = "start" THEN {k} ELSE {})
    BY <1>1, <1>2
  <2>2. BegunBy(frames, k) = {frames[i].index : i \in is} /\ BegunBy(frames, k - 1) = {frames[i].index : i \in was}
    BY DEF BegunBy
  <2> HIDE DEF was, is
  <2>3. QED
    BY <2>1, <2>2
<1>4. \A type : Saw(frames, k, type) => Saw(frames, k - 1, type) \/ f.type = type
  BY <1>1 DEF Saw
<1>5. ASSUME NEW j \in 1..k, frames[j].type = "stop"
      PROVE  frames[j].index \in DOMAIN next.blocks /\ next.blocks[frames[j].index].finished
  BY <1>1, <1>5 DEF Follows, FollowedTo
<1> HIDE DEF f
<1>6. QED
  BY <1>3, <1>4, <1>5 DEF Follows, FollowedTo, f

\* A stream that can be followed and comes to its end is taken.
LEMMA FollowableIsTaken ==
  ASSUME NEW frames \in Seq(Frames), Followable(frames), Finishes(frames)
  PROVE  take_content(Gathered(frames)) # <<>> /\ ~Gathered(frames).error
<1> DEFINE n == Len(frames)
<1>1. n \in Nat /\ DOMAIN frames = 1..n /\ \A k \in 1..n : frames[k] \in Frames
  OBVIOUS
<1>2. PICK g \in [0..n -> Accs] :
        /\ g[0] = Unseen /\ g[n] = Gathered(frames)
        /\ \A k \in 1..n : g[k] = observe_payload(g[k - 1], frames[k])
  BY GatheredInStages
<1> DEFINE P == {k \in 0..n : FollowedTo(g[k], frames, k)}
<1>3. 0 \in P
  <2>1. 1..0 = {}
    OBVIOUS
  <2>2. FollowedTo(Unseen, frames, 0)
    BY <2>1 DEF FollowedTo, Unseen, Untorn, BegunBy, Saw
  <2>3. QED
    BY <1>1, <1>2, <2>2
<1>4. ASSUME NEW k \in 1..n, k - 1 \in P PROVE k \in P
  <2> DEFINE acc == g[k - 1]
  <2>1. /\ k \in 0..n /\ k \in 1..Len(frames) /\ acc \in Accs /\ frames[k] \in Frames
        /\ g[k] = observe_payload(acc, frames[k]) /\ FollowedTo(acc, frames, k - 1)
    BY <1>1, <1>2, <1>4
  <2> HIDE DEF acc, n, P
  <2>2. Placed(acc, frames[k])
    BY <2>1, FramesArePlaced
  <2>3. Follows(acc, frames[k], g[k])
    BY <2>1, <2>2, PlacedIsFollowed DEF FollowedTo
  <2>4. FollowedTo(g[k], frames, k)
    BY <2>1, <2>2, <2>3, FollowedFurther DEF Placed
  <2>5. QED
    BY <2>1, <2>4 DEF P
<1> HIDE DEF P
<1>5. n \in P
  <2> HIDE DEF n
  <2>1. QED
    BY <1>1, <1>3, <1>4, LastStage
<1> DEFINE acc == Gathered(frames)
<1>6. FollowedTo(acc, frames, n)
  BY <1>2, <1>5 DEF P
<1> HIDE DEF acc
<1>7. acc.observed /\ acc.complete
  <2>1. Saw(frames, n, "message_start")
    BY <1>1 DEF Followable, Saw
  <2>2. Saw(frames, n, "message_stop")
    BY <1>1 DEF Finishes, Saw
  <2>3. QED
    BY <1>6, <2>1, <2>2 DEF FollowedTo
<1>8. \A i \in DOMAIN acc.blocks : acc.blocks[i].finished
  <2>1. TAKE i \in DOMAIN acc.blocks
  <2>2. PICK b \in 1..n : frames[b].type = "start" /\ frames[b].index = i
    BY <1>6 DEF FollowedTo, BegunBy
  <2>3. PICK j \in 1..n : frames[j].type = "stop" /\ frames[j].index = i
    BY <1>1, <2>2 DEF Followable
  <2>4. QED
    BY <1>6, <2>3 DEF FollowedTo
<1>9. ~acc.abandoned /\ ~acc.error
  BY <1>6 DEF FollowedTo
<1>10. take_content(acc) = <<InOrder([i \in DOMAIN acc.blocks |-> acc.blocks[i].block])>>
  BY <1>7, <1>8, <1>9 DEF take_content
<1>11. QED
  BY <1>9, <1>10 DEF acc

\* The client is told finitely many blocks.
LEMMA ToldIsFinite ==
  ASSUME NEW frames \in Seq(Frames)
  PROVE  IsFiniteSet(DOMAIN Told(frames))
<1> DEFINE n == Len(frames)
<1>1. n \in Nat
  OBVIOUS
<1>2. PICK h \in [0..n -> Maps(Blocks)] :
        /\ h[0] = [i \in {} |-> 0] /\ h[n] = Told(frames)
        /\ \A k \in 1..n : h[k] = hears(h[k - 1], frames[k])
  BY ToldInStages
<1> HIDE DEF n
<1> DEFINE P == {k \in 0..n : IsFiniteSet(DOMAIN h[k])}
<1>3. 0 \in P
  BY <1>1, <1>2, FS_EmptySet
<1>4. ASSUME NEW k \in 1..n, k - 1 \in P PROVE k \in P
  <2> DEFINE said == h[k - 1]
             f == frames[k]
  <2>1. k \in 0..n /\ IsFiniteSet(DOMAIN said) /\ h[k] = hears(said, f)
    BY <1>1, <1>2, <1>4
  <2> HIDE DEF said, f
  <2>2. DOMAIN h[k] = DOMAIN said \/ DOMAIN h[k] = DOMAIN said \cup {f.index}
    BY <2>1 DEF hears
  <2>3. IsFiniteSet(DOMAIN h[k])
    BY <2>1, <2>2, FS_AddElement
  <2>4. QED
    BY <2>1, <2>3
<1> HIDE DEF P
<1>5. n \in P
  BY <1>1, <1>3, <1>4, LastStage
<1>6. QED
  BY <1>2, <1>5 DEF P

\* What the client has of an answer is a sequence.
LEMMA AnswerIsASequence ==
  ASSUME NEW blocks, IsFiniteSet(DOMAIN blocks)
  PROVE  InOrder(blocks) \in Seq(ToSet(InOrder(blocks)))
<1> DEFINE m == Cardinality(DOMAIN blocks)
           content == InOrder(blocks)
<1>1. m \in Nat
  BY FS_CardinalityType
<1>2. DOMAIN content = 1..m /\ content = [k \in 1..m |-> content[k]]
  BY DEF InOrder
<1> HIDE DEF content, m
<1>3. \A k \in 1..m : content[k] \in ToSet(content)
  BY <1>2 DEF ToSet
<1>4. content \in [1..m -> ToSet(content)]
  BY <1>2, <1>3
<1>5. content \in Seq(ToSet(content))
  BY <1>1, <1>4
<1>6. QED
  BY <1>5 DEF content

-----------------------------------------------------------------------------
(***************************************************************************)
(* The thinking of Kimi comes back: the invariant.                         *)
(***************************************************************************)
\* A conversation is a sequence of messages.
IsDialogue(s) == s \in Seq(ToSet(s)) /\ \A i \in DOMAIN s : s[i] = Says(s[i].role, s[i].content)

KimiTypes ==
  /\ DOMAIN messages = Chats /\ DOMAIN posted = Chats
  /\ \A c \in Chats : IsDialogue(messages[c])
  /\ \A c \in Chats : posted[c] = NotPosted \/ posted[c].after \in 0..Len(returned)
  /\ returned \in Seq(ToSet(returned)) /\ hitches \in Nat
  /\ \A n \in DOMAIN returned : returned[n].content \in Seq(ToSet(returned[n].content))
  /\ \A key \in DOMAIN cache :
       cache[key] = [value |-> cache[key].value, at |-> cache[key].at, stale |-> cache[key].stale]

\* What is kept is an answer of the key it is kept for.
KeptWasReturned ==
  \A key \in DOMAIN cache :
    /\ content_is_replayable(cache[key].value)
    /\ \E n \in DOMAIN returned : returned[n].content = cache[key].value /\ returned[n].key = key

Keys == {returned[n].key : n \in DOMAIN returned}

\* An answer worth keeping that no other of its key came after, of the first k.
Lasting(n, k) ==
  /\ content_is_replayable(returned[n].content) /\ returned[n].followed
  /\ \A m \in n + 1..k : returned[m].key # returned[n].key

\* While nothing is lost and there is room for all, the last answer is kept.
LastIsKept ==
  hitches = 0 =>
    /\ \A key \in DOMAIN cache : ~cache[key].stale
    /\ Cardinality(Keys) <= Capacity =>
         \A n \in DOMAIN returned : Lasting(n, Len(returned)) =>
           returned[n].key \in DOMAIN cache /\ cache[returned[n].key].value = returned[n].content

KimiInv == KimiTypes /\ KeptWasReturned /\ LastIsKept /\ ThinkingReturns

\* What leaves the cache leaves the rest as it is.
LEMMA Removed ==
  ASSUME NEW entries, NEW key
  PROVE  LET next == remove(entries, key) IN
         DOMAIN next = DOMAIN entries \ {key} /\ \A k \in DOMAIN next : next[k] = entries[k]
BY DEF remove, Restrict

\* Reading changes no value, and removes only what is stale.
LEMMA Touched ==
  ASSUME NEW entries, NEW key,
         \A k \in DOMAIN entries :
           entries[k] = [value |-> entries[k].value, at |-> entries[k].at, stale |-> entries[k].stale]
  PROVE  LET next == get_touch(entries, key) IN
         /\ DOMAIN next \subseteq DOMAIN entries
         /\ \A k \in DOMAIN entries : ~entries[k].stale => k \in DOMAIN next
         /\ \A k \in DOMAIN next : /\ next[k].value = entries[k].value /\ next[k].stale = entries[k].stale
                                  /\ next[k] = [value |-> next[k].value, at |-> next[k].at, stale |-> next[k].stale]
<1> DEFINE next == get_touch(entries, key)
<1>1. CASE key \notin DOMAIN entries
  <2>1. next = entries
    BY <1>1 DEF get_touch
  <2>2. QED
    BY <2>1
<1>2. CASE key \in DOMAIN entries /\ entries[key].stale
  <2>1. next = remove(entries, key)
    BY <1>2 DEF get_touch
  <2> HIDE DEF next
  <2>2. DOMAIN next = DOMAIN entries \ {key} /\ \A k \in DOMAIN next : next[k] = entries[k]
    BY <2>1 DEF remove, Restrict
  <2>3. QED
    BY <1>2, <2>2 DEF next
<1>3. CASE key \in DOMAIN entries /\ ~entries[key].stale
  <2> DEFINE old == entries[key]
             new == [old EXCEPT !.at = now]
  <2>1. next = [entries EXCEPT ![key] = new]
    BY <1>3 DEF get_touch
  <2>2. old = [value |-> old.value, at |-> old.at, stale |-> old.stale]
    BY <1>3
  <2> HIDE DEF old
  <2>3. new = [value |-> old.value, at |-> now, stale |-> old.stale]
    BY <2>2
  <2> HIDE DEF new, next
  <2>4. DOMAIN next = DOMAIN entries /\ next[key] = new /\ \A k \in DOMAIN entries : k # key => next[k] = entries[k]
    BY <1>3, <2>1
  <2>5. QED
    BY <2>3, <2>4 DEF old, next
<1>4. QED
  BY <1>1, <1>2, <1>3

\* A new entry leaves the others as they are, as far as there is room.
LEMMA Inserted ==
  ASSUME NEW entries, NEW key, NEW value
  PROVE  LET next == insert(entries, key, value) IN
         /\ DOMAIN next \subseteq DOMAIN entries \cup {key} /\ key \in DOMAIN next
         /\ next[key] = [value |-> value, at |-> now, stale |-> FALSE]
         /\ \A k \in DOMAIN next : k # key => next[k] = entries[k]
         /\ ~(Cardinality(DOMAIN entries) >= Capacity /\ key \notin DOMAIN entries) =>
              DOMAIN next = DOMAIN entries \cup {key}
<1> DEFINE room == makeRoom(entries, key)
           next == insert(entries, key, value)
<1>1. /\ DOMAIN room \subseteq DOMAIN entries /\ \A k \in DOMAIN room : room[k] = entries[k]
      /\ ~(Cardinality(DOMAIN entries) >= Capacity /\ key \notin DOMAIN entries) => room = entries
  BY DEF makeRoom, evict_oldest, Restrict
<1> HIDE DEF room
<1>2. next = [k \in DOMAIN room \cup {key} |->
                IF k = key THEN [value |-> value, at |-> now, stale |-> FALSE] ELSE room[k]]
  BY DEF insert, room
<1> HIDE DEF next
<1>3. /\ DOMAIN next = DOMAIN room \cup {key} /\ next[key] = [value |-> value, at |-> now, stale |-> FALSE]
      /\ \A k \in DOMAIN next : k # key => next[k] = room[k] /\ k \in DOMAIN room
  BY <1>2
<1>4. QED
  BY <1>1, <1>3 DEF next

\* A message is given back its thinking or left as it is, and only the last that
\* is the answer kept is given it.
LEMMA GivesBack ==
  ASSUME NEW msgs, IsDialogue(msgs), NEW cached
  PROVE  LET next == restore_kimi_thinking_replay(msgs, cached) IN
         /\ DOMAIN next = DOMAIN msgs /\ next \in Seq(ToSet(next))
         /\ \A i \in DOMAIN msgs : next[i] # msgs[i] =>
              next[i].content = cached /\ non_thinking_parts(cached) = msgs[i].content
         /\ (\E i \in DOMAIN msgs : msgs[i].role = "assistant" /\ sameAnswer(msgs[i].content, cached))
              => \E i \in DOMAIN next : next[i] = Says("assistant", cached)
<1> DEFINE given == restore_kimi_thinking_replay(msgs, cached)
           speaking == {i \in DOMAIN msgs : msgs[i].role = "assistant"}
           found == {i \in speaking : msgs[i].content = cached \/ sameAnswer(msgs[i].content, cached)}
           last == CHOOSE i \in found : \A j \in found : j <= i
<1>1. given = IF found = {} THEN msgs ELSE [msgs EXCEPT ![last].content = cached]
  BY DEF restore_kimi_thinking_replay
<1>2. DOMAIN msgs = 1..Len(msgs) /\ Len(msgs) \in Nat
  BY DEF IsDialogue
<1> HIDE DEF given
<1>3. CASE found = {}
  <2>1. given = msgs
    BY <1>1, <1>3
  <2>2. msgs \in Seq(ToSet(msgs))
    BY DEF IsDialogue
  <2>3. \A i \in DOMAIN msgs : ~(msgs[i].role = "assistant" /\ sameAnswer(msgs[i].content, cached))
    BY <1>3
  <2>4. QED
    BY <2>1, <2>2, <2>3 DEF given
<1>4. CASE found # {}
  <2>1. Max(found) \in found /\ \A j \in found : j <= Max(found)
    <3>1. found \subseteq 1..Len(msgs)
      BY <1>2
    <3> HIDE DEF found
    <3>2. QED
      BY <1>2, <1>4, <3>1, MaxIsIn
  <2> HIDE DEF found
  <2>2. last \in found
    BY <2>1
  <2> HIDE DEF last
  <2>3. /\ last \in DOMAIN msgs /\ msgs[last].role = "assistant"
        /\ msgs[last].content = cached \/ sameAnswer(msgs[last].content, cached)
    BY <2>2 DEF found
  <2> DEFINE m == msgs[last]
  <2>4. m = Says(m.role, m.content)
    BY <2>3 DEF IsDialogue
  <2>5. given = [msgs EXCEPT ![last] = [m EXCEPT !.content = cached]]
    BY <1>1, <1>4
  <2> HIDE DEF m
  <2>6. [m EXCEPT !.content = cached] = Says(m.role, cached)
    BY <2>4 DEF Says
  <2>7. /\ DOMAIN given = DOMAIN msgs /\ given[last] = Says("assistant", cached)
        /\ \A i \in DOMAIN msgs : i # last => given[i] = msgs[i]
    BY <2>3, <2>5, <2>6 DEF m
  <2>8. given[last] # m => m.content # cached
    BY <2>3, <2>4, <2>7 DEF m
  <2>9. given[last].content = cached
    BY <2>7 DEF Says
  <2>10. \A i \in DOMAIN msgs : given[i] # msgs[i] =>
           given[i].content = cached /\ non_thinking_parts(cached) = msgs[i].content
    BY <2>3, <2>7, <2>8, <2>9 DEF m, sameAnswer
  <2>11. given \in Seq(ToSet(given))
    <3>1. given \in [1..Len(msgs) -> ToSet(given)]
      <4>1. \A i \in 1..Len(msgs) : given[i] \in ToSet(given)
        BY <1>2, <2>7 DEF ToSet
      <4>2. given = [i \in 1..Len(msgs) |-> given[i]]
        BY <1>2, <2>5
      <4>3. QED
        BY <4>1, <4>2
    <3>2. QED
      BY <1>2, <3>1
  <2>12. QED
    BY <2>3, <2>7, <2>10, <2>11 DEF given
<1>5. QED
  BY <1>3, <1>4

\* What is put back in a conversation.
Put(c) ==
  \A i \in DOMAIN posted[c].messages :
    LET given == posted[c].messages[i]
    IN  given # messages[c][i] =>
          /\ non_thinking_parts(given.content) = messages[c][i].content
          /\ \E n \in DOMAIN returned : returned[n].content = given.content /\ returned[n].key = posted[c].key
          /\ \E k \in DOMAIN given.content : IsThought(given.content[k]) /\ given.content[k].sig # 0

\* The last answer of a conversation's session and family that it goes on after.
GoesOn(c, n) ==
  /\ returned[n].key = posted[c].key
  /\ \A m \in n + 1..posted[c].after : returned[m].key # returned[n].key
  /\ content_is_replayable(returned[n].content) /\ hasCall(returned[n].content) /\ returned[n].followed
  /\ \E i \in DOMAIN messages[c] : messages[c][i] = Says("assistant", non_thinking_parts(returned[n].content))

\* What is put back of the last answer.
Back(c) ==
  \A n \in 1..posted[c].after :
    hitches = 0 /\ Cardinality(Keys) <= Capacity /\ GoesOn(c, n)
      => Contains(posted[c].messages, Says("assistant", returned[n].content))

\* The property, conversation by conversation.
LEMMA ByConversation ==
  ThinkingReturns <=> \A c \in Chats : Put(c) /\ Back(c)
<1>1. ThinkingBelongs <=> \A c \in Chats : Put(c)
  BY DEF ThinkingBelongs, Put
<1>2. LastThinkingReturns <=> \A c \in Chats : Back(c)
  BY DEF LastThinkingReturns, Back, GoesOn, Keys
<1>3. QED
  BY <1>1, <1>2 DEF ThinkingReturns

\* So it is after a step.
LEMMA ByConversationNext ==
  ThinkingReturns' <=> \A c \in Chats : Put(c)' /\ Back(c)'
<1>1. ThinkingBelongs' <=> \A c \in Chats : Put(c)'
  BY DEF ThinkingBelongs, Put
<1>2. LastThinkingReturns' <=> \A c \in Chats : Back(c)'
  BY DEF LastThinkingReturns, Back, GoesOn, Keys
<1>3. QED
  BY <1>1, <1>2 DEF ThinkingReturns

\* Nothing is put back where nothing is awaited.
LEMMA NothingAwaited ==
  ASSUME NEW c
  PROVE  /\ posted[c] = NotPosted => Put(c) /\ Back(c)
         /\ posted'[c] = NotPosted => Put(c)' /\ Back(c)'
<1>1. NotPosted.messages = <<>> /\ NotPosted.after = 0
  BY DEF NotPosted
<1>2. QED
  BY <1>1 DEF Put, Back

\* The conversations start with nothing kept and nothing answered.
LEMMA KimiStarts ==
  ASSUME KimiInit
  PROVE  KimiInv
<1>1. /\ messages = [c \in Chats |-> <<>>] /\ posted = [c \in Chats |-> NotPosted]
      /\ cache = [key \in {} |-> 0] /\ returned = <<>> /\ hitches = 0
  BY DEF KimiInit, Empty
<1>2. KimiTypes
  <2> DEFINE none == <<>>
  <2>1. none \in Seq(ToSet(none)) /\ DOMAIN none = {} /\ Len(none) = 0
    <3>1. none = [i \in 1..0 |-> 0] /\ none \in Seq({})
      OBVIOUS
    <3>2. QED
      BY <3>1, OwnElements
  <2> HIDE DEF none
  <2>2. IsDialogue(none)
    BY <2>1 DEF IsDialogue
  <2>3. \A c \in Chats : messages[c] = none /\ posted[c] = NotPosted
    BY <1>1 DEF none
  <2>4. returned = none
    BY <1>1 DEF none
  <2>5. DOMAIN cache = {}
    BY <1>1
  <2>6. DOMAIN messages = Chats /\ DOMAIN posted = Chats
    BY <1>1
  <2>7. QED
    BY <1>1, <2>1, <2>2, <2>3, <2>4, <2>5, <2>6 DEF KimiTypes
<1>3. KeptWasReturned /\ LastIsKept
  <2>1. DOMAIN cache = {} /\ DOMAIN returned = {}
    BY <1>1
  <2>2. QED
    BY <2>1 DEF KeptWasReturned, LastIsKept
<1>4. ThinkingReturns
  <2>1. \A c \in Chats : posted[c] = NotPosted
    BY <1>1
  <2>2. QED
    BY <2>1, NothingAwaited, ByConversation
<1>5. QED
  BY <1>2, <1>3, <1>4 DEF KimiInv

\* A conversation goes on as a conversation.
LEMMA SpeaksOn ==
  ASSUME NEW msgs, IsDialogue(msgs), NEW role, NEW content
  PROVE  LET m == Says(role, content)
             next == Append(msgs, m)
         IN  /\ IsDialogue(next) /\ DOMAIN next = DOMAIN msgs \cup {Len(msgs) + 1}
             /\ next[Len(msgs) + 1] = m /\ \A i \in DOMAIN msgs : next[i] = msgs[i]
<1> DEFINE m == Says(role, content)
           next == Append(msgs, m)
<1>1. m.role = role /\ m.content = content
  BY DEF Says
<1>2. m = Says(m.role, m.content)
  BY <1>1
<1> HIDE DEF m
<1>3. msgs \in Seq(ToSet(msgs)) /\ \A i \in DOMAIN msgs : msgs[i] = Says(msgs[i].role, msgs[i].content)
  BY DEF IsDialogue
<1>4. /\ next \in Seq(ToSet(msgs) \cup {m}) /\ Len(msgs) \in Nat
      /\ DOMAIN next = 1..(Len(msgs) + 1) /\ DOMAIN msgs = 1..Len(msgs)
      /\ next[Len(msgs) + 1] = m /\ \A i \in DOMAIN msgs : next[i] = msgs[i]
  <2> DEFINE S == ToSet(msgs)
  <2>1. msgs \in Seq(S)
    BY <1>3
  <2> HIDE DEF S
  <2>2. /\ next \in Seq(S \cup {m}) /\ Len(msgs) \in Nat
        /\ DOMAIN next = 1..(Len(msgs) + 1) /\ DOMAIN msgs = 1..Len(msgs)
        /\ next[Len(msgs) + 1] = m /\ \A i \in DOMAIN msgs : next[i] = msgs[i]
    BY <2>1, Appended
  <2>3. QED
    BY <2>2 DEF S
<1> HIDE DEF next
<1>5. next \in Seq(ToSet(next))
  BY <1>4, OwnElements
<1>6. \A i \in DOMAIN next : next[i] = Says(next[i].role, next[i].content)
  BY <1>2, <1>3, <1>4
<1>7. IsDialogue(next)
  BY <1>5, <1>6 DEF IsDialogue
<1>8. DOMAIN next = DOMAIN msgs \cup {Len(msgs) + 1}
  BY <1>4
<1>9. QED
  BY <1>4, <1>7, <1>8 DEF next, m

\* Asking changes no answer, and gives the last one of the key its thinking back.
LEMMA PostKeeps ==
  ASSUME KimiInv, NEW c \in Chats, NEW model \in Models, Post(c, model)
  PROVE  KimiInv'
<1> DEFINE own   == messages[c]
           msgs  == IF own # <<>> /\ Last(own).role = "user" THEN own ELSE Append(own, NextWord(own))
           key   == Key(c, model)
           given == IF held(cache, key) THEN restore_kimi_thinking_replay(msgs, cache[key].value) ELSE msgs
           posting == [key |-> key, messages |-> given, applied |-> given # msgs, after |-> Len(returned)]
<1>1. /\ messages' = [messages EXCEPT ![c] = msgs] /\ posted' = [posted EXCEPT ![c] = posting]
      /\ cache' = get_touch(cache, key) /\ returned' = returned /\ hitches' = hitches
  BY DEF Post
<1>2. KimiTypes /\ KeptWasReturned /\ LastIsKept /\ \A d \in Chats : Put(d) /\ Back(d)
  BY ByConversation DEF KimiInv
<1>3. IsDialogue(msgs)
  <2>1. IsDialogue(own)
    BY <1>2 DEF KimiTypes
  <2>2. PICK word : NextWord(own) = Says("user", word)
    BY DEF NextWord
  <2>3. msgs = own \/ msgs = Append(own, Says("user", word))
    BY <2>2
  <2> HIDE DEF own, msgs
  <2>4. IsDialogue(Append(own, Says("user", word)))
    BY <2>1, SpeaksOn
  <2>5. QED
    BY <2>1, <2>3, <2>4
<1>4. /\ held(cache, key) => given = restore_kimi_thinking_replay(msgs, cache[key].value)
      /\ ~held(cache, key) => given = msgs
  OBVIOUS
<1>5. posting.key = key /\ posting.messages = given /\ posting.after = Len(returned)
  OBVIOUS
<1> HIDE DEF own, msgs, key, given, posting
<1>6. /\ DOMAIN messages = Chats /\ DOMAIN posted = Chats /\ DOMAIN messages' = Chats /\ DOMAIN posted' = Chats
      /\ messages'[c] = msgs /\ posted'[c] = posting
      /\ \A d \in Chats \ {c} : messages'[d] = messages[d] /\ posted'[d] = posted[d]
  BY <1>1, <1>2 DEF KimiTypes
<1>7. /\ DOMAIN cache' \subseteq DOMAIN cache
      /\ \A k \in DOMAIN cache : ~cache[k].stale => k \in DOMAIN cache'
      /\ \A k \in DOMAIN cache' : /\ cache'[k].value = cache[k].value /\ cache'[k].stale = cache[k].stale
                                  /\ cache'[k] = [value |-> cache'[k].value, at |-> cache'[k].at,
                                                  stale |-> cache'[k].stale]
  <2>1. \A k \in DOMAIN cache :
          cache[k] = [value |-> cache[k].value, at |-> cache[k].at, stale |-> cache[k].stale]
    BY <1>2 DEF KimiTypes
  <2> DEFINE entries == cache
             next == get_touch(entries, key)
  <2>2. cache' = next
    BY <1>1
  <2>3. \A k \in DOMAIN entries :
          entries[k] = [value |-> entries[k].value, at |-> entries[k].at, stale |-> entries[k].stale]
    BY <2>1
  <2> HIDE DEF entries
  <2>4. /\ DOMAIN next \subseteq DOMAIN entries
        /\ \A k \in DOMAIN entries : ~entries[k].stale => k \in DOMAIN next
        /\ \A k \in DOMAIN next : /\ next[k].value = entries[k].value /\ next[k].stale = entries[k].stale
                                  /\ next[k] = [value |-> next[k].value, at |-> next[k].at,
                                                stale |-> next[k].stale]
    BY <2>3, Touched
  <2> HIDE DEF next
  <2>5. QED
    BY <2>2, <2>4 DEF entries
<1>8. KimiTypes'
  <2>1. \A d \in Chats : IsDialogue(messages'[d])
    BY <1>2, <1>3, <1>6 DEF KimiTypes
  <2>2. \A d \in Chats : posted'[d] = NotPosted \/ posted'[d].after \in 0..Len(returned)
    <3>1. Len(returned) \in Nat
      <4> DEFINE S == ToSet(returned)
      <4>1. returned \in Seq(S)
        BY <1>2 DEF KimiTypes
      <4> HIDE DEF S
      <4>2. QED
        BY <4>1
    <3>2. posted'[c].after \in 0..Len(returned)
      BY <1>5, <1>6, <3>1
    <3>3. QED
      BY <1>2, <1>6, <3>2 DEF KimiTypes
  <2>3. QED
    BY <1>1, <1>2, <1>6, <1>7, <2>1, <2>2 DEF KimiTypes
<1>9. KeptWasReturned'
  BY <1>1, <1>2, <1>7 DEF KeptWasReturned
<1>10. LastIsKept'
  <2>1. Keys' = Keys /\ \A n, k : Lasting(n, k)' = Lasting(n, k)
    BY <1>1 DEF Keys, Lasting
  <2>2. QED
    BY <1>1, <1>2, <1>7, <2>1 DEF LastIsKept
<1>11. \A d \in Chats \ {c} : Put(d)' /\ Back(d)'
  <2>1. SUFFICES ASSUME NEW d \in Chats \ {c} PROVE Put(d)' /\ Back(d)'
    OBVIOUS
  <2>2. messages'[d] = messages[d] /\ posted'[d] = posted[d]
    BY <1>6
  <2>3. Put(d) /\ Back(d)
    BY <1>2
  <2>4. Put(d)'
    BY <1>1, <2>2, <2>3 DEF Put
  <2>5. Keys' = Keys /\ \A n : GoesOn(d, n)' = GoesOn(d, n)
    BY <1>1, <2>2 DEF Keys, GoesOn
  <2>6. Back(d)'
    BY <1>1, <2>2, <2>3, <2>5 DEF Back
  <2>7. QED
    BY <2>4, <2>6
<1>12. Put(c)'
  <2>1. SUFFICES ASSUME NEW i \in DOMAIN given, given[i] # msgs[i]
                 PROVE  /\ non_thinking_parts(given[i].content) = msgs[i].content
                        /\ \E n \in DOMAIN returned : returned[n].content = given[i].content /\ returned[n].key = key
                        /\ \E k \in DOMAIN given[i].content :
                             IsThought(given[i].content[k]) /\ given[i].content[k].sig # 0
    BY <1>1, <1>5, <1>6 DEF Put
  <2>2. held(cache, key)
    BY <1>4, <2>1
  <2> DEFINE cached == cache[key].value
  <2>3. given = restore_kimi_thinking_replay(msgs, cached)
    BY <1>4, <2>2
  <2>4. key \in DOMAIN cache
    BY <2>2 DEF held
  <2>5. /\ content_is_replayable(cached)
        /\ \E n \in DOMAIN returned : returned[n].content = cached /\ returned[n].key = key
    BY <1>2, <2>4 DEF KeptWasReturned
  <2> HIDE DEF cached
  <2>6. given[i].content = cached /\ non_thinking_parts(cached) = msgs[i].content
    <3> DEFINE next == restore_kimi_thinking_replay(msgs, cached)
    <3>1. next = given
      BY <2>3
    <3>2. /\ DOMAIN next = DOMAIN msgs
          /\ \A j \in DOMAIN msgs : next[j] # msgs[j] =>
               next[j].content = cached /\ non_thinking_parts(cached) = msgs[j].content
      BY <1>3, GivesBack
    <3> HIDE DEF next
    <3>3. QED
      BY <2>1, <3>1, <3>2
  <2>7. \E k \in DOMAIN cached : IsThought(cached[k]) /\ cached[k].sig # 0
    BY <2>5 DEF content_is_replayable, IsThought
  <2>8. QED
    BY <2>5, <2>6, <2>7
<1>13. Back(c)'
  <2>1. SUFFICES ASSUME NEW n \in 1..Len(returned), hitches = 0, Cardinality(Keys) <= Capacity, GoesOn(c, n)'
                 PROVE  Contains(given, Says("assistant", returned[n].content))
    <3>1. Keys' = Keys
      BY <1>1 DEF Keys
    <3>2. QED
      BY <1>1, <1>5, <1>6, <3>1 DEF Back
  <2> DEFINE content == returned[n].content
  <2>2. /\ returned[n].key = key /\ \A m \in n + 1..Len(returned) : returned[m].key # returned[n].key
        /\ content_is_replayable(content) /\ hasCall(content) /\ returned[n].followed
        /\ \E i \in DOMAIN msgs : msgs[i] = Says("assistant", non_thinking_parts(content))
    BY <1>1, <1>5, <1>6, <2>1 DEF GoesOn
  <2>3. n \in DOMAIN returned /\ Len(returned) \in Nat
    <3> DEFINE S == ToSet(returned)
    <3>1. returned \in Seq(S)
      BY <1>2 DEF KimiTypes
    <3> HIDE DEF S
    <3>2. QED
      BY <3>1
  <2>4. Lasting(n, Len(returned))
    BY <2>2 DEF Lasting
  <2>5. key \in DOMAIN cache /\ cache[key].value = content /\ ~cache[key].stale
    BY <1>2, <2>1, <2>2, <2>3, <2>4 DEF LastIsKept
  <2>6. content \in Seq(ToSet(content))
    BY <1>2, <2>3 DEF KimiTypes
  <2>7. given = restore_kimi_thinking_replay(msgs, content)
    BY <1>4, <2>5 DEF held
  <2> HIDE DEF content
  <2>8. sameAnswer(non_thinking_parts(content), content)
    <3> DEFINE S == ToSet(content)
               m == Len(content)
    <3>1. content \in Seq(S)
      BY <2>6
    <3> HIDE DEF S
    <3>2. m \in Nat /\ DOMAIN content = 1..m
      BY <3>1
    <3> HIDE DEF m
    <3>3. hasCall(non_thinking_parts(content)) /\ ~content_has_thinking(non_thinking_parts(content))
      BY <2>2, <3>2, CallsLeft
    <3>4. QED
      BY <3>3 DEF sameAnswer
  <2>9. \E i \in DOMAIN msgs : msgs[i].role = "assistant" /\ sameAnswer(msgs[i].content, content)
    <3>1. PICK i \in DOMAIN msgs : msgs[i] = Says("assistant", non_thinking_parts(content))
      BY <2>2
    <3>2. msgs[i].role = "assistant" /\ msgs[i].content = non_thinking_parts(content)
      BY <3>1 DEF Says
    <3>3. QED
      BY <2>8, <3>2
  <2>10. /\ given \in Seq(ToSet(given))
         /\ \E i \in DOMAIN given : given[i] = Says("assistant", content)
    <3> DEFINE next == restore_kimi_thinking_replay(msgs, content)
    <3>1. next = given
      BY <2>7
    <3>2. /\ next \in Seq(ToSet(next))
          /\ (\E i \in DOMAIN msgs : msgs[i].role = "assistant" /\ sameAnswer(msgs[i].content, content))
               => \E i \in DOMAIN next : next[i] = Says("assistant", content)
      BY <1>3, GivesBack
    <3> HIDE DEF next
    <3>3. QED
      BY <2>9, <3>1, <3>2
  <2>11. Contains(given, Says("assistant", content))
    <3> DEFINE S == ToSet(given)
    <3>1. given \in Seq(S)
      BY <2>10
    <3> HIDE DEF S
    <3>2. DOMAIN given = 1..Len(given)
      BY <3>1
    <3>3. QED
      BY <2>10, <3>2 DEF Contains
  <2>12. QED
    BY <2>11 DEF content
<1>14. ThinkingReturns'
  <2>1. \A d \in Chats : Put(d)' /\ Back(d)'
    BY <1>11, <1>12, <1>13
  <2>2. QED
    BY <2>1, ByConversationNext
<1>15. QED
  BY <1>8, <1>9, <1>10, <1>14 DEF KimiInv

\* A loss, a rejection or a broken answer changes no thinking that was put back.
LEMMA HitchKeeps ==
  ASSUME KimiInv, messages' = messages, returned' = returned, hitches' = hitches + 1,
         DOMAIN posted' = Chats, \A d \in Chats : posted'[d] \in {posted[d], NotPosted},
         DOMAIN cache' \subseteq DOMAIN cache,
         \A k \in DOMAIN cache' :
           /\ cache'[k].value = cache[k].value
           /\ cache'[k] = [value |-> cache'[k].value, at |-> cache'[k].at, stale |-> cache'[k].stale]
  PROVE  KimiInv'
<1>1. KimiTypes /\ KeptWasReturned /\ \A d \in Chats : Put(d) /\ Back(d)
  BY ByConversation DEF KimiInv
<1>2. hitches' \in Nat /\ hitches' # 0
  BY <1>1 DEF KimiTypes
<1>3. KimiTypes'
  BY <1>1, <1>2 DEF KimiTypes
<1>4. KeptWasReturned' /\ LastIsKept'
  BY <1>1, <1>2 DEF KeptWasReturned, LastIsKept
<1>5. \A d \in Chats : Put(d)' /\ Back(d)'
  <2>1. SUFFICES ASSUME NEW d \in Chats PROVE Put(d)' /\ Back(d)'
    OBVIOUS
  <2>2. CASE posted'[d] = NotPosted
    BY <2>2, NothingAwaited
  <2>3. CASE posted'[d] = posted[d]
    BY <1>1, <1>2, <2>3 DEF Put, Back
  <2>4. QED
    BY <2>2, <2>3
<1>6. QED
  BY <1>3, <1>4, <1>5, ByConversationNext DEF KimiInv

\* What the end of a stream leaves: an answer worth keeping that could be
\* followed is kept, and what is kept is the answer.
LEMMA Committed ==
  ASSUME NEW frames \in Seq(Frames), NEW entries, NEW waiting
  PROVE  LET answer == InOrder(Told(frames))
             next   == commit(entries, waiting, Gathered(frames))
         IN  \/ /\ next = insert(entries, waiting.key, answer)
                /\ content_is_replayable(answer) /\ Finishes(frames)
             \/ /\ next \in {entries, remove(entries, waiting.key)}
                /\ Followable(frames) /\ Finishes(frames) => ~content_is_replayable(answer)
<1> DEFINE answer  == InOrder(Told(frames))
           acc     == Gathered(frames)
           content == take_content(acc)
           next    == commit(entries, waiting, acc)
<1>1. content # <<>> => content = <<answer>> /\ Finishes(frames)
  BY TakenIsTold
<1>2. Followable(frames) /\ Finishes(frames) => content # <<>> /\ ~acc.error
  BY FollowableIsTaken
<1>3. /\ acc.error => next \in {entries, remove(entries, waiting.key)}
      /\ ~acc.error /\ content = <<>> => next = entries
      /\ ~acc.error /\ content # <<>> =>
           next = IF content_is_replayable(content[1]) THEN insert(entries, waiting.key, content[1])
                  ELSE remove(entries, waiting.key)
  BY DEF commit
<1> HIDE DEF answer, acc, content, next
<1>4. content = <<answer>> => content[1] = answer
  OBVIOUS
<1>5. QED
  BY <1>1, <1>2, <1>3, <1>4 DEF answer, acc, next

\* The frames the gateway sees of an answer.
LEMMA SeenFrames ==
  ASSUME NEW stream \in KimiStreams, NEW seen \in 1..Len(stream), NEW n \in Nat
  PROVE  [i \in 1..seen |-> Numbered(stream[i], n)] \in Seq(Frames)
<1>1. stream \in Seq(Frames)
  BY KimiStreamsAssumption
<1>2. seen \in Nat /\ \A i \in 1..seen : stream[i] \in Frames
  BY <1>1
<1>3. \A i \in 1..seen : Numbered(stream[i], n) \in Frames
  BY <1>2, NumberedFrames
<1>4. QED
  BY <1>2, <1>3

\* The answers and their keys.
LEMMA AnswersSoFar ==
  ASSUME KimiTypes
  PROVE  /\ Len(returned) \in Nat /\ DOMAIN returned = 1..Len(returned)
         /\ IsFiniteSet(Keys)
<1> DEFINE S == ToSet(returned)
<1>1. returned \in Seq(S)
  BY DEF KimiTypes
<1> HIDE DEF S
<1>2. Len(returned) \in Nat /\ DOMAIN returned = 1..Len(returned)
  BY <1>1
<1>3. IsFiniteSet(Keys)
  <2> DEFINE n == Len(returned)
             f == [i \in 1..n |-> returned[i].key]
  <2>1. IsFiniteSet(1..n)
    BY <1>2, FS_Interval
  <2>2. f \in Surjection(1..n, Keys)
    BY <1>2 DEF Keys, Surjection
  <2> HIDE DEF n, f
  <2>3. QED
    BY <2>1, <2>2, FS_Surjection
<1>4. QED
  BY <1>2, <1>3

\* One more answer: the answers so far stay, and so do their keys.
LEMMA OneMore ==
  ASSUME KimiTypes, NEW entry, returned' = Append(returned, entry)
  PROVE  /\ returned' \in Seq(ToSet(returned'))
         /\ Len(returned') = Len(returned) + 1 /\ DOMAIN returned' = 1..(Len(returned) + 1)
         /\ returned'[Len(returned) + 1] = entry
         /\ \A n \in 1..Len(returned) : returned'[n] = returned[n]
         /\ Keys' = Keys \cup {entry.key} /\ IsFiniteSet(Keys')
         /\ Cardinality(Keys) <= Cardinality(Keys')
<1> DEFINE S == ToSet(returned)
<1>1. returned \in Seq(S)
  BY DEF KimiTypes
<1> HIDE DEF S
<1>2. /\ returned' \in Seq(S \cup {entry}) /\ Len(returned') = Len(returned) + 1 /\ Len(returned) \in Nat
      /\ DOMAIN returned' = 1..(Len(returned) + 1) /\ DOMAIN returned = 1..Len(returned)
      /\ returned'[Len(returned) + 1] = entry /\ \A n \in DOMAIN returned : returned'[n] = returned[n]
  BY <1>1, Appended
<1>3. returned' \in Seq(ToSet(returned'))
  BY <1>2, OwnElements
<1>4. Keys' = Keys \cup {entry.key}
  BY <1>2 DEF Keys
<1>5. IsFiniteSet(Keys)
  BY AnswersSoFar
<1>6. IsFiniteSet(Keys')
  BY <1>4, <1>5, FS_AddElement
<1>7. Cardinality(Keys) <= Cardinality(Keys')
  <2>1. Keys \in SUBSET Keys'
    BY <1>4
  <2>2. QED
    BY <1>6, <2>1, FS_Subset
<1>8. QED
  BY <1>2, <1>3, <1>4, <1>6, <1>7

\* An answer that ends leaves the last answers where they were, and is the last
\* of its key.
LEMMA EndKeeps ==
  ASSUME KimiInv, NEW c \in Chats, NEW stream \in KimiStreams, NEW seen \in 1..Len(stream), NEW keeps \in BOOLEAN,
         StreamEnds(c, stream, seen, keeps)
  PROVE  KimiInv'
<1> DEFINE N      == Len(returned)
           frames == [i \in 1..seen |-> Numbered(stream[i], N + 1)]
           answer == InOrder(Told(frames))
           said   == IF keeps THEN answer ELSE non_thinking_parts(answer)
           key    == posted[c].key
           entry  == [content |-> answer, key |-> key, followed |-> Followable(frames)]
<1>1. KimiTypes /\ KeptWasReturned /\ LastIsKept /\ \A d \in Chats : Put(d) /\ Back(d)
  BY ByConversation DEF KimiInv
<1>2. N \in Nat /\ DOMAIN returned = 1..N
  BY <1>1, AnswersSoFar
<1>3. /\ posted' = [posted EXCEPT ![c] = NotPosted]
      /\ cache' = commit(cache, posted[c], Gathered(frames))
      /\ ~Finishes(frames) => returned' = returned /\ messages' = messages /\ hitches' = hitches + 1
      /\ Finishes(frames) => /\ returned' = Append(returned, entry) /\ hitches' = hitches + 0
                             /\ messages' = [messages EXCEPT ![c] = Append(@, Says("assistant", said))]
  BY Zenon DEF StreamEnds
<1>4. entry.content = answer /\ entry.key = key /\ entry.followed = Followable(frames)
  OBVIOUS
<1> HIDE DEF N
<1>5. frames \in Seq(Frames)
  BY <1>2, SeenFrames
<1>6. IsFiniteSet(DOMAIN Told(frames))
  BY <1>5, ToldIsFinite
<1>7. answer \in Seq(ToSet(answer))
  BY <1>6, AnswerIsASequence
<1>8. \/ /\ cache' = insert(cache, key, answer)
         /\ content_is_replayable(answer) /\ Finishes(frames)
      \/ /\ cache' \in {cache, remove(cache, key)}
         /\ Followable(frames) /\ Finishes(frames) => ~content_is_replayable(answer)
  <2> DEFINE f       == frames
             entries == cache
             waiting == posted[c]
  <2>1. f \in Seq(Frames)
    BY <1>5
  <2> HIDE DEF f, entries, waiting
  <2>2. \/ /\ commit(entries, waiting, Gathered(f)) = insert(entries, waiting.key, InOrder(Told(f)))
           /\ content_is_replayable(InOrder(Told(f))) /\ Finishes(f)
        \/ /\ commit(entries, waiting, Gathered(f)) \in {entries, remove(entries, waiting.key)}
           /\ Followable(f) /\ Finishes(f) => ~content_is_replayable(InOrder(Told(f)))
    BY <2>1, Committed
  <2>3. QED
    BY <1>3, <2>2 DEF f, entries, waiting
<1> HIDE DEF frames, answer, said, key, entry
<1>9. \A k \in DOMAIN cache :
        cache[k] = [value |-> cache[k].value, at |-> cache[k].at, stale |-> cache[k].stale]
  BY <1>1 DEF KimiTypes
<1>10. cache' \in {cache, remove(cache, key)} =>
         /\ DOMAIN cache \ {key} \subseteq DOMAIN cache' /\ DOMAIN cache' \subseteq DOMAIN cache
         /\ \A k \in DOMAIN cache' : cache'[k] = cache[k]
  BY DEF remove, Restrict
<1>11. /\ DOMAIN posted' = Chats /\ posted'[c] = NotPosted
       /\ \A d \in Chats \ {c} : posted'[d] = posted[d]
  BY <1>1, <1>3 DEF KimiTypes
<1>12. CASE ~Finishes(frames)
  <2>1. cache' \in {cache, remove(cache, key)}
    BY <1>8, <1>12
  <2>2. /\ DOMAIN cache' \subseteq DOMAIN cache
        /\ \A k \in DOMAIN cache' :
             /\ cache'[k].value = cache[k].value
             /\ cache'[k] = [value |-> cache'[k].value, at |-> cache'[k].at, stale |-> cache'[k].stale]
    BY <1>9, <1>10, <2>1
  <2>3. \A d \in Chats : posted'[d] \in {posted[d], NotPosted}
    BY <1>11
  <2>4. QED
    BY <1>3, <1>11, <1>12, <2>2, <2>3, HitchKeeps
<1>13. CASE Finishes(frames)
  <2>1. /\ returned' = Append(returned, entry) /\ hitches' = hitches
        /\ messages' = [messages EXCEPT ![c] = Append(@, Says("assistant", said))]
    BY <1>1, <1>3, <1>13 DEF KimiTypes
  <2>2. /\ returned' \in Seq(ToSet(returned'))
        /\ Len(returned') = N + 1 /\ DOMAIN returned' = 1..(N + 1)
        /\ returned'[N + 1] = entry
        /\ \A n \in 1..N : returned'[n] = returned[n]
        /\ Keys' = Keys \cup {key} /\ IsFiniteSet(Keys')
        /\ Cardinality(Keys) <= Cardinality(Keys')
    BY <1>1, <1>4, <2>1, OneMore DEF N
  <2>3. insert(cache, key, answer) = cache' =>
          /\ DOMAIN cache' \subseteq DOMAIN cache \cup {key} /\ key \in DOMAIN cache'
          /\ cache'[key].value = answer /\ ~cache'[key].stale
          /\ cache'[key] = [value |-> cache'[key].value, at |-> cache'[key].at, stale |-> cache'[key].stale]
          /\ \A k \in DOMAIN cache' : k # key => cache'[k] = cache[k]
          /\ ~(Cardinality(DOMAIN cache) >= Capacity /\ key \notin DOMAIN cache) =>
               DOMAIN cache' = DOMAIN cache \cup {key}
    <3> DEFINE entries == cache
               next == insert(entries, key, answer)
    <3>1. insert(cache, key, answer) = next
      OBVIOUS
    <3> HIDE DEF entries
    <3>2. /\ DOMAIN next \subseteq DOMAIN entries \cup {key} /\ key \in DOMAIN next
          /\ next[key] = [value |-> answer, at |-> now, stale |-> FALSE]
          /\ \A k \in DOMAIN next : k # key => next[k] = entries[k]
          /\ ~(Cardinality(DOMAIN entries) >= Capacity /\ key \notin DOMAIN entries) =>
               DOMAIN next = DOMAIN entries \cup {key}
      BY Inserted
    <3> HIDE DEF next
    <3>3. next[key].value = answer /\ next[key].stale = FALSE /\ next[key].at = now
      BY <3>2
    <3>4. QED
      BY <3>1, <3>2, <3>3 DEF entries
  <2>4. KimiTypes'
    <3>1. \A d \in Chats : IsDialogue(messages'[d])
      <4> DEFINE msgs == messages[c]
      <4>1. IsDialogue(msgs)
        BY <1>1 DEF KimiTypes
      <4> HIDE DEF msgs
      <4>2. IsDialogue(Append(msgs, Says("assistant", said)))
        BY <4>1, SpeaksOn
      <4>3. messages'[c] = Append(msgs, Says("assistant", said))
        BY <1>1, <2>1 DEF KimiTypes, msgs
      <4>4. DOMAIN messages' = Chats /\ \A d \in Chats \ {c} : messages'[d] = messages[d]
        BY <1>1, <2>1 DEF KimiTypes
      <4>5. QED
        BY <1>1, <4>2, <4>3, <4>4 DEF KimiTypes
    <3>2. \A d \in Chats : posted'[d] = NotPosted \/ posted'[d].after \in 0..Len(returned')
      BY <1>1, <1>2, <1>11, <2>2 DEF KimiTypes, N
    <3>3. hitches' \in Nat
      BY <1>1, <2>1 DEF KimiTypes
    <3>4. \A n \in DOMAIN returned' : returned'[n].content \in Seq(ToSet(returned'[n].content))
      BY <1>1, <1>2, <1>4, <1>7, <2>2 DEF KimiTypes
    <3>5. \A k \in DOMAIN cache' :
            cache'[k] = [value |-> cache'[k].value, at |-> cache'[k].at, stale |-> cache'[k].stale]
      BY <1>8, <1>9, <1>10, <2>3
    <3>6. DOMAIN messages' = Chats
      BY <1>1, <2>1 DEF KimiTypes
    <3>7. QED
      BY <1>11, <2>2, <3>1, <3>2, <3>3, <3>4, <3>5, <3>6 DEF KimiTypes
  <2>5. KeptWasReturned'
    <3>1. SUFFICES ASSUME NEW k \in DOMAIN cache'
                   PROVE  /\ content_is_replayable(cache'[k].value)
                          /\ \E n \in DOMAIN returned' : returned'[n].content = cache'[k].value /\ returned'[n].key = k
      BY DEF KeptWasReturned
    <3>2. CASE k = key /\ cache' = insert(cache, key, answer) /\ content_is_replayable(answer)
      BY <1>2, <1>4, <2>2, <2>3, <3>2
    <3>3. CASE k \in DOMAIN cache /\ cache'[k] = cache[k]
      <4>1. /\ content_is_replayable(cache[k].value)
            /\ \E n \in DOMAIN returned : returned[n].content = cache[k].value /\ returned[n].key = k
        BY <1>1, <3>3 DEF KeptWasReturned
      <4>2. QED
        BY <1>2, <2>2, <3>3, <4>1
    <3>4. QED
      BY <1>8, <1>10, <2>3, <3>1, <3>2, <3>3
  <2>6. LastIsKept'
    <3>9. PICK count : count = N + 1
      OBVIOUS
    <3>1. SUFFICES ASSUME hitches = 0
                   PROVE  /\ \A k \in DOMAIN cache' : ~cache'[k].stale
                          /\ Cardinality(Keys') <= Capacity =>
                               \A n \in DOMAIN returned' : Lasting(n, count)' =>
                                 /\ returned'[n].key \in DOMAIN cache'
                                 /\ cache'[returned'[n].key].value = returned'[n].content
      <4>1. Len(returned') = count
        BY <2>2, <3>9
      <4>2. \A n : Lasting(n, Len(returned))' = Lasting(n, count)'
        BY <4>1 DEF Lasting
      <4>3. QED
        BY <2>1, <4>2 DEF LastIsKept
    <3>2. \A k \in DOMAIN cache : ~cache[k].stale
      BY <1>1, <3>1 DEF LastIsKept
    <3>3. \A k \in DOMAIN cache' : ~cache'[k].stale
      BY <1>8, <1>10, <2>3, <3>2
    <3>4. SUFFICES ASSUME Cardinality(Keys') <= Capacity, NEW n \in DOMAIN returned', Lasting(n, count)'
                   PROVE  /\ returned'[n].key \in DOMAIN cache'
                          /\ cache'[returned'[n].key].value = returned'[n].content
      BY <3>3
    <3>5. /\ content_is_replayable(returned'[n].content) /\ returned'[n].followed
          /\ \A m \in n + 1..N + 1 : returned'[m].key # returned'[n].key
      BY <3>4, <3>9 DEF Lasting
    <3>6. CASE n = N + 1
      <4>1. returned'[n].content = answer /\ returned'[n].key = key /\ Followable(frames)
        BY <1>4, <2>2, <3>5, <3>6
      <4>2. cache' = insert(cache, key, answer)
        BY <1>8, <1>13, <3>5, <4>1
      <4>3. QED
        BY <2>3, <4>1, <4>2
    <3>7. CASE n \in 1..N
      <4>1. returned'[n] = returned[n] /\ returned[n].key # key
        BY <1>2, <1>4, <2>2, <3>5, <3>7
      <4>2. Lasting(n, N)
        BY <1>2, <2>2, <3>5, <3>7, <4>1 DEF Lasting
      <4>3. Cardinality(Keys) <= Capacity
        <5> DEFINE a == Cardinality(Keys)
                   b == Cardinality(Keys')
        <5>1. a \in Nat /\ b \in Nat /\ a <= b /\ b <= Capacity /\ Capacity \in Nat
          <6>1. IsFiniteSet(Keys)
            BY <1>1, AnswersSoFar
          <6>2. QED
            BY <2>2, <3>4, <6>1, FS_CardinalityType, KimiAssumption
        <5> HIDE DEF a, b
        <5>2. a <= Capacity
          BY <5>1
        <5>3. QED
          BY <5>2 DEF a
      <4>4. returned[n].key \in DOMAIN cache /\ cache[returned[n].key].value = returned[n].content
        BY <1>1, <1>2, <3>1, <3>7, <4>2, <4>3 DEF LastIsKept, N
      <4>5. CASE cache' \in {cache, remove(cache, key)}
        BY <1>10, <4>1, <4>4, <4>5
      <4>6. CASE cache' = insert(cache, key, answer)
        <5>1. ~(Cardinality(DOMAIN cache) >= Capacity /\ key \notin DOMAIN cache)
          <6>1. SUFFICES ASSUME key \notin DOMAIN cache PROVE ~(Cardinality(DOMAIN cache) >= Capacity)
            OBVIOUS
          <6> DEFINE D == DOMAIN cache
          <6>2. D \cup {key} \in SUBSET (Keys')
            <7>1. \A k \in D : k \in Keys
              BY <1>1 DEF KeptWasReturned, Keys
            <7>2. QED
              BY <2>2, <7>1
          <6>3. key \notin D
            BY <6>1
          <6> HIDE DEF D
          <6>4. IsFiniteSet(D \cup {key}) /\ Cardinality(D \cup {key}) <= Cardinality(Keys')
            BY <2>2, <6>2, FS_Subset
          <6>5. IsFiniteSet(D)
            <7>1. D \in SUBSET (D \cup {key})
              OBVIOUS
            <7>2. QED
              BY <6>4, <7>1, FS_Subset
          <6>6. Cardinality(D \cup {key}) = Cardinality(D) + 1 /\ Cardinality(D) \in Nat /\ Cardinality(Keys') \in Nat
            BY <2>2, <6>3, <6>5, FS_AddElement, FS_CardinalityType
          <6>7. ~(Cardinality(D) >= Capacity)
            <7> DEFINE a == Cardinality(D)
                       e == Cardinality(D \cup {key})
                       b == Cardinality(Keys')
            <7>1. a \in Nat /\ b \in Nat /\ e = a + 1 /\ e <= b /\ b <= Capacity /\ Capacity \in Nat
              BY <3>4, <6>4, <6>6, KimiAssumption
            <7> HIDE DEF a, e, b
            <7>2. ~(a >= Capacity)
              BY <7>1
            <7>3. QED
              BY <7>2 DEF a
          <6>8. QED
            BY <6>7 DEF D
        <5>2. DOMAIN cache' = DOMAIN cache \cup {key}
          BY <2>3, <4>6, <5>1
        <5>3. QED
          BY <2>3, <4>1, <4>4, <4>6, <5>2
      <4>7. QED
        BY <1>8, <4>5, <4>6
    <3>8. QED
      BY <1>2, <2>2, <3>6, <3>7
  <2>7. \A d \in Chats : Put(d)' /\ Back(d)'
    <3>1. SUFFICES ASSUME NEW d \in Chats PROVE Put(d)' /\ Back(d)'
      OBVIOUS
    <3>2. CASE posted'[d] = NotPosted
      BY <3>2, NothingAwaited
    <3>3. CASE posted'[d] # NotPosted
      <4>1. d # c /\ posted'[d] = posted[d] /\ messages'[d] = messages[d] /\ posted[d].after \in 0..N
        BY <1>1, <1>11, <2>1, <3>3 DEF KimiTypes, N
      <4>2. Put(d) /\ Back(d)
        BY <1>1
      <4>3. Put(d)'
        BY <1>2, <2>2, <4>1, <4>2 DEF Put
      <4>4. \A n \in 1..posted[d].after : GoesOn(d, n)' => GoesOn(d, n) /\ returned'[n] = returned[n]
        <5>1. \A n \in 1..posted[d].after : returned'[n] = returned[n]
          BY <1>2, <2>2, <4>1
        <5>2. \A n \in 1..posted[d].after : \A m \in n + 1..posted[d].after : returned'[m] = returned[m]
          BY <1>2, <2>2, <4>1
        <5>3. QED
          BY <4>1, <5>1, <5>2 DEF GoesOn
      <4>5. Cardinality(Keys') <= Capacity => Cardinality(Keys) <= Capacity
        <5> DEFINE a == Cardinality(Keys)
                   b == Cardinality(Keys')
        <5>1. a \in Nat /\ b \in Nat /\ a <= b /\ Capacity \in Nat
          <6>1. IsFiniteSet(Keys)
            BY <1>1, AnswersSoFar
          <6>2. QED
            BY <2>2, <6>1, FS_CardinalityType, KimiAssumption
        <5> HIDE DEF a, b
        <5>2. b <= Capacity => a <= Capacity
          BY <5>1
        <5>3. QED
          BY <5>2 DEF a, b
      <4>6. Back(d)'
        BY <2>1, <4>1, <4>2, <4>4, <4>5 DEF Back
      <4>7. QED
        BY <4>3, <4>6
    <3>4. QED
      BY <3>2, <3>3
  <2>8. QED
    BY <2>4, <2>5, <2>6, <2>7, ByConversationNext DEF KimiInv
<1>14. QED
  BY <1>12, <1>13

\* Every step of the ledger of thinking keeps the invariant.
LEMMA KimiStepKeeps ==
  ASSUME KimiInv, KimiNext
  PROVE  KimiInv'
<1>1. KimiTypes
  BY DEF KimiInv
<1>2. \A k \in DOMAIN cache : cache[k] = [value |-> cache[k].value, at |-> cache[k].at, stale |-> cache[k].stale]
  BY <1>1 DEF KimiTypes
<1>3. ASSUME NEW c \in Chats, NEW model \in Models, Post(c, model)
      PROVE  KimiInv'
  BY <1>3, PostKeeps
<1>4. ASSUME NEW c \in Chats, NEW stream \in KimiStreams, NEW seen \in 1..Len(stream), NEW keeps \in BOOLEAN,
             StreamEnds(c, stream, seen, keeps)
      PROVE  KimiInv'
  BY <1>4, EndKeeps
<1>5. ASSUME NEW key, cache' = remove(cache, key)
      PROVE  /\ DOMAIN cache' \subseteq DOMAIN cache
             /\ \A k \in DOMAIN cache' :
                  /\ cache'[k].value = cache[k].value
                  /\ cache'[k] = [value |-> cache'[k].value, at |-> cache'[k].at, stale |-> cache'[k].stale]
  <2>1. DOMAIN cache' \subseteq DOMAIN cache /\ \A k \in DOMAIN cache' : cache'[k] = cache[k]
    BY <1>5 DEF remove, Restrict
  <2>2. QED
    BY <1>2, <2>1
<1>6. ASSUME NEW c \in Chats, SentAgain(c)
      PROVE  KimiInv'
  <2>1. /\ messages' = messages /\ returned' = returned /\ hitches' = hitches + 1
        /\ posted' = posted /\ cache' = remove(cache, posted[c].key)
    BY <1>6 DEF SentAgain, Hitch
  <2>2. DOMAIN posted' = Chats /\ \A d \in Chats : posted'[d] \in {posted[d], NotPosted}
    BY <1>1, <2>1 DEF KimiTypes
  <2>3. QED
    BY <1>5, <2>1, <2>2, HitchKeeps
<1>7. ASSUME NEW c \in Chats, Rejected(c)
      PROVE  KimiInv'
  <2>1. /\ messages' = messages /\ returned' = returned /\ hitches' = hitches + 1
        /\ posted' = [posted EXCEPT ![c] = NotPosted] /\ cache' = remove(cache, posted[c].key)
    BY <1>7 DEF Rejected, Hitch
  <2>2. DOMAIN posted' = Chats /\ \A d \in Chats : posted'[d] \in {posted[d], NotPosted}
    BY <1>1, <2>1 DEF KimiTypes
  <2>3. QED
    BY <1>5, <2>1, <2>2, HitchKeeps
<1>8. ASSUME NEW key \in DOMAIN cache, Expires(key)
      PROVE  KimiInv'
  <2> DEFINE old == cache[key]
             new == [old EXCEPT !.stale = TRUE]
  <2>1. /\ messages' = messages /\ returned' = returned /\ hitches' = hitches + 1
        /\ posted' = posted /\ cache' = [cache EXCEPT ![key] = new]
    BY <1>8 DEF Expires, Hitch
  <2>2. old = [value |-> old.value, at |-> old.at, stale |-> old.stale]
    BY <1>2, <1>8
  <2> HIDE DEF old
  <2>3. new.value = old.value /\ new = [value |-> new.value, at |-> new.at, stale |-> new.stale]
    <3>1. DOMAIN old = {"value", "at", "stale"}
      BY <2>2
    <3>2. new = [f \in DOMAIN old |-> IF f = "stale" THEN TRUE ELSE old[f]]
      OBVIOUS
    <3> HIDE DEF new
    <3>3. new.value = old.value /\ DOMAIN new = {"value", "at", "stale"} /\ new = [f \in DOMAIN new |-> new[f]]
      BY <3>1, <3>2
    <3>4. QED
      BY <3>3
  <2>4. DOMAIN posted' = Chats /\ \A d \in Chats : posted'[d] \in {posted[d], NotPosted}
    BY <1>1, <2>1 DEF KimiTypes
  <2> HIDE DEF new
  <2>5. /\ DOMAIN cache' = DOMAIN cache /\ cache'[key] = new
        /\ \A k \in DOMAIN cache : k # key => cache'[k] = cache[k]
    BY <1>8, <2>1
  <2>6. /\ DOMAIN cache' \subseteq DOMAIN cache
        /\ \A k \in DOMAIN cache' :
             /\ cache'[k].value = cache[k].value
             /\ cache'[k] = [value |-> cache'[k].value, at |-> cache'[k].at, stale |-> cache'[k].stale]
    BY <1>2, <2>3, <2>5 DEF old
  <2>7. QED
    BY <2>1, <2>4, <2>6, HitchKeeps
<1>9. QED
  BY <1>3, <1>4, <1>6, <1>7, <1>8 DEF KimiNext

\* The invariant of the ledger of thinking: what is kept for a session and family
\* is an answer of theirs worth keeping, and while nothing is lost and there is
\* room for all, it is the last one (commit, insert, get_touch).
THEOREM KimiInvHolds == Spec => []KimiInv
<1>1. Init => KimiInv
  BY KimiStarts DEF Init
<1>2. KimiInv /\ [Next]_memoryVars => KimiInv'
  <2>1. ASSUME KimiInv, UNCHANGED kimiVars
        PROVE  KimiInv'
    BY <2>1 DEF KimiInv, kimiVars, KimiTypes, KeptWasReturned, LastIsKept, Lasting, Keys,
                ThinkingReturns, ThinkingBelongs, LastThinkingReturns
  <2>2. [Next]_memoryVars => KimiNext \/ UNCHANGED kimiVars
    BY DEF Next, memoryVars
  <2>3. QED
    BY <2>1, <2>2, KimiStepKeeps
<1>3. QED
  BY <1>1, <1>2, PTL DEF Spec

\* Thinking that is put back is that of the very answer and was said in this
\* session by this family, and a request that goes on after the last answer of
\* them has its thinking while nothing is lost and there is room for all
\* (restore_kimi_thinking_replay, the cache of kimi_thinking_replay_cache.rs).
THEOREM ThinkingAlwaysReturns == Spec => []ThinkingReturns
<1>1. KimiInv => ThinkingReturns
  BY DEF KimiInv
<1>2. QED
  BY <1>1, KimiInvHolds, PTL

-----------------------------------------------------------------------------
(***************************************************************************)
(* Changes of the prompt are reported: the invariant.                      *)
(***************************************************************************)
Parent(n) == derive_parent_bucket(sent[n].sender)
Watchable == {n \in DOMAIN sent : Compared(n)}

\* A map holds the last of each key, and who is missing was followed by too many.
Recent(cap, lru, times, key, val) ==
  /\ IsFiniteSet(DOMAIN lru) /\ Cardinality(DOMAIN lru) <= cap
  /\ \A k \in DOMAIN lru :
       /\ lru[k].at \in times /\ key[lru[k].at] = k /\ lru[k].value = val[lru[k].at]
       /\ \A m \in times : m > lru[k].at => key[m] # k
  /\ \A m \in times : key[m] \notin DOMAIN lru =>
       Cardinality({key[j] : j \in {j \in times : m <= j}}) > cap

Prefix(body) == [system |-> structure(body).system, tools |-> structure(body).tools]
Parents    == [n \in Watchable |-> Parent(n)]
Beginnings   == [n \in Watchable |-> Prefix(sent[n].body)]
Talks      == [n \in Watchable |-> Talk(n)]
Structures == [n \in Watchable |-> structure(sent[n].body)]

BaselinesRecent == Recent(capacity, baselines, Watchable, Parents, Beginnings)
HashesRecent    == Recent(capacity, hashes, Watchable, Talks, Structures)

Warned(n) == Of("parent", n) # {}
Alone(n)  == \A m \in DOMAIN sent \ {n} : Session(m) = Session(n) => ~Warned(m)
Warners   == {Session(m) : m \in {m \in DOMAIN sent : Warned(m)}}

RequestFields == {"body", "sender", "watched", "open"}
Registered(n) ==
  /\ DOMAIN sent[n] = RequestFields /\ sent[n].body \in Bodies /\ sent[n].watched \in BOOLEAN
  /\ sent[n].watched => Warned(n)
  /\ Warned(n) => Compared(n)
Founded(e) ==
  /\ e.of \in DOMAIN sent
  /\ e.scope = "usage" => /\ e.by \in DOMAIN sent /\ Warned(e.by) /\ Session(e.by) = Session(e.of)
                          /\ \E w \in Of("parent", e.of) : e.dims = log[w].dims
DriftTypes ==
  /\ sent \in Seq(ToSet(sent)) /\ log \in Seq(ToSet(log)) /\ capacity \in Nat \ {0}
  /\ \A n \in DOMAIN sent : Registered(n)
  /\ \A i \in DOMAIN log : Founded(log[i])

\* A warning that awaits its usage has none, and the last of a session that had
\* it to itself still awaits it while no more sessions than fit were warned.
Awaits(p, warning) ==
  /\ warning.of \in DOMAIN sent /\ Parent(warning.of) = p /\ Of("usage", warning.of) = {}
  /\ \E w \in Of("parent", warning.of) : warning.dims = log[w].dims
Owed(n)    == Warned(n) /\ Alone(n) /\ Cardinality(Warners) <= capacity /\ Of("usage", n) = {}
Waiting(n) == sent[n].watched /\ Parent(n) \in DOMAIN pendings /\ pendings[Parent(n)].value.of = n
PendingsAwait ==
  /\ IsFiniteSet(DOMAIN pendings)
  /\ \A p \in DOMAIN pendings : Awaits(p, pendings[p].value)
  /\ \A n \in DOMAIN sent : Owed(n) => Waiting(n)

UsagesOnce == \A n \in DOMAIN sent : \A i, j \in Of("usage", n) : i = j

\* What was announced of a request, and as what.
Changed(n, last) ==
  Compared(n) /\ \/ extract_system(sent[n].body) # extract_system(sent[last].body)
                 \/ ~SameTools(sent[n].body, sent[last].body)
Announced(n) ==
  /\ Earlier(n) = {} => ~Warned(n)
  /\ \A last \in Earlier(n) :
       (\A k \in Earlier(n) : k <= last) /\ Fit(last, n) => (Changed(n, last) <=> Warned(n))

Opens(m, n)    == SameStart(sent[m].body, sent[n].body)
TalksFit(m, n) == Cardinality({Talk(k) : k \in {k \in m..n : Compared(k)}}) <= capacity
Known(n) ==
  \A i \in Of("parent", n) :
    /\ log[i].rotated => \A m \in Earlier(n) : Opens(m, n) => ~TalksFit(m, n)
    /\ (\A m \in Earlier(n) : ~Opens(m, n)) => log[i].rotated

DriftInv ==
  /\ DriftTypes /\ BaselinesRecent /\ HashesRecent /\ PendingsAwait /\ UsagesOnce
  /\ \A n \in DOMAIN sent : Announced(n) /\ Known(n)

-----------------------------------------------------------------------------
(***************************************************************************)
(* Sessions and their buckets, tools and their prints, openings.           *)
(***************************************************************************)
SessionOf(sender) == [session |-> sender.session, key |-> IF sender.session = Absent THEN sender.key ELSE Absent]
NoSession == [session |-> Absent, key |-> Absent]

\* Sessions have stable buckets, each its own.
LEMMA Buckets ==
  ASSUME NEW a, NEW b
  PROVE  LET A == derive_parent_bucket(a)
             B == derive_parent_bucket(b)
         IN  /\ is_stable_parent_bucket(A) <=> SessionOf(a) # NoSession
             /\ SessionOf(a) # NoSession /\ SessionOf(b) # NoSession => (SessionOf(a) = SessionOf(b) <=> A = B)
<1> DEFINE A == derive_parent_bucket(a)
           B == derive_parent_bucket(b)
<1>1. /\ a.session # Absent => A = <<"claude-code", a.session>>
      /\ a.session = Absent /\ a.key # Absent => A = <<"tklite", a.key>>
      /\ a.session = Absent /\ a.key = Absent => A[1] \in {"request", "anonymous"}
  BY DEF derive_parent_bucket
<1>2. /\ b.session # Absent => B = <<"claude-code", b.session>>
      /\ b.session = Absent /\ b.key # Absent => B = <<"tklite", b.key>>
  BY DEF derive_parent_bucket
<1>3. \A x, y, z, w : [session |-> x, key |-> y] = [session |-> z, key |-> w] <=> x = z /\ y = w
  OBVIOUS
<1>4. /\ SessionOf(a) # NoSession <=> a.session # Absent \/ a.key # Absent
      /\ SessionOf(b) # NoSession <=> b.session # Absent \/ b.key # Absent
      /\ SessionOf(a) = SessionOf(b) <=>
           /\ a.session = b.session
           /\ a.session = Absent => a.key = b.key
  BY <1>3 DEF SessionOf, NoSession
<1> HIDE DEF A, B
<1>5. is_stable_parent_bucket(A) <=> A[1] \notin {"request", "anonymous"}
  BY DEF is_stable_parent_bucket
<1>6. is_stable_parent_bucket(A) <=> SessionOf(a) # NoSession
  BY <1>1, <1>4, <1>5
<1>7. \A x, y : <<"claude-code", x>> # <<"tklite", y>> /\ (<<"claude-code", x>> = <<"claude-code", y>> => x = y)
                /\ (<<"tklite", x>> = <<"tklite", y>> => x = y)
  OBVIOUS
<1>8. SessionOf(a) # NoSession /\ SessionOf(b) # NoSession => (SessionOf(a) = SessionOf(b) <=> A = B)
  BY <1>1, <1>2, <1>4, <1>7
<1>9. QED
  BY <1>6, <1>8 DEF A, B

\* Tools have the same print exactly when they are the same but for what they
\* say of themselves.
LEMMA Prints ==
  ASSUME NEW x \in Tool, NEW y \in Tool
  PROVE  <<x.type, x.name, x.schema>> = <<y.type, y.name, y.schema>> <=> Silent(x) = Silent(y)
<1> DEFINE Fields == {"type", "name", "schema", "description"}
<1>1. \A t \in Tool : Silent(t) = [f \in Fields |-> IF f = "description" THEN "" ELSE t[f]]
  <2>1. SUFFICES ASSUME NEW t \in Tool
                 PROVE  Silent(t) = [f \in Fields |-> IF f = "description" THEN "" ELSE t[f]]
    OBVIOUS
  <2>2. DOMAIN t = Fields
    BY DEF Tool
  <2>3. Silent(t) = [f \in DOMAIN t |-> IF f = "description" THEN "" ELSE t[f]]
    BY DEF Silent
  <2>4. QED
    BY <2>2, <2>3
<1> DEFINE a == Silent(x)
           b == Silent(y)
<1>2. a = [f \in Fields |-> IF f = "description" THEN "" ELSE x[f]] /\ b = [f \in Fields |-> IF f = "description" THEN "" ELSE y[f]]
  BY <1>1
<1> HIDE DEF a, b
<1>3. a = b <=> x["type"] = y["type"] /\ x["name"] = y["name"] /\ x["schema"] = y["schema"]
  <2>1. a = b => x["type"] = y["type"] /\ x["name"] = y["name"] /\ x["schema"] = y["schema"]
    <3>1. /\ a["type"] = x["type"] /\ a["name"] = x["name"] /\ a["schema"] = x["schema"]
          /\ b["type"] = y["type"] /\ b["name"] = y["name"] /\ b["schema"] = y["schema"]
      BY <1>2
    <3>2. QED
      BY <3>1
  <2>2. ASSUME x["type"] = y["type"] /\ x["name"] = y["name"] /\ x["schema"] = y["schema"]
        PROVE  a = b
    <3>1. \A f \in Fields : f # "description" => x[f] = y[f]
      BY <2>2
    <3>2. QED
      BY <1>2, <3>1
  <2>3. QED
    BY <2>1, <2>2
<1>4. QED
  BY <1>3 DEF a, b

\* Two lists of tools have the same fingerprint exactly when they have each tool
\* as often.
LEMMA Fingerprints ==
  ASSUME NEW s \in Seq(Tool), NEW u \in Seq(Tool)
  PROVE  stable_tool_fingerprint(s) = stable_tool_fingerprint(u) <=>
           \A t \in {Silent(tool) : tool \in ToSet(s) \cup ToSet(u)} : Times(s, t) = Times(u, t)
<1> DEFINE print(tool) == <<tool.type, tool.name, tool.schema>>
           T == {Silent(tool) : tool \in ToSet(s) \cup ToSet(u)}
           F(q) == {<<print(q[i]), Times(q, Silent(q[i]))>> : i \in DOMAIN q}
<1>1. ASSUME NEW q \in Seq(Tool)
      PROVE  /\ stable_tool_fingerprint(q) = F(q)
             /\ \A i \in DOMAIN q : q[i] \in Tool
             /\ \A t : Times(q, t) \in Nat /\ (Times(q, t) # 0 <=> \E i \in DOMAIN q : Silent(q[i]) = t)
  <2>1. \A i \in DOMAIN q : q[i] \in Tool
    OBVIOUS
  <2>2. \A i \in DOMAIN q : {j \in DOMAIN q : print(q[j]) = print(q[i])} = {j \in DOMAIN q : Silent(q[j]) = Silent(q[i])}
    BY <2>1, Prints
  <2>3. stable_tool_fingerprint(q) = F(q)
    <3>1. stable_tool_fingerprint(q) =
            {<<print(q[i]), Cardinality({j \in DOMAIN q : print(q[j]) = print(q[i])})>> : i \in DOMAIN q}
      BY DEF stable_tool_fingerprint
    <3>2. \A i \in DOMAIN q : Cardinality({j \in DOMAIN q : print(q[j]) = print(q[i])}) = Times(q, Silent(q[i]))
      BY <2>2 DEF Times
    <3> HIDE DEF print
    <3>3. QED
      BY <3>1, <3>2
  <2>4. IsFiniteSet(DOMAIN q)
    <3>1. DOMAIN q = 1..Len(q) /\ Len(q) \in Nat
      OBVIOUS
    <3>2. QED
      BY <3>1, FS_Interval
  <2>5. ASSUME NEW t
        PROVE  Times(q, t) \in Nat /\ (Times(q, t) # 0 <=> \E i \in DOMAIN q : Silent(q[i]) = t)
    <3> DEFINE I == {i \in DOMAIN q : Silent(q[i]) = t}
    <3>1. I \in SUBSET DOMAIN q
      OBVIOUS
    <3>2. IsFiniteSet(I)
      BY <2>4, <3>1, FS_Subset
    <3>3. Times(q, t) = Cardinality(I)
      BY DEF Times
    <3>4. I # {} <=> \E i \in DOMAIN q : Silent(q[i]) = t
      OBVIOUS
    <3> HIDE DEF I
    <3>5. Cardinality(I) \in Nat /\ (Cardinality(I) = 0 <=> I = {})
      BY <3>2, FS_CardinalityType, FS_EmptySet
    <3>6. QED
      BY <3>3, <3>4, <3>5
  <2>6. QED
    BY <2>1, <2>3, <2>5
<1>2. \A t : t \in T <=> (\E i \in DOMAIN s : Silent(s[i]) = t) \/ (\E i \in DOMAIN u : Silent(u[i]) = t)
  BY DEF ToSet
<1> HIDE DEF T
<1>3. ASSUME F(s) = F(u), NEW t \in T
      PROVE  Times(s, t) = Times(u, t)
  <2>1. CASE \E i \in DOMAIN s : Silent(s[i]) = t
    <3>1. PICK i \in DOMAIN s : Silent(s[i]) = t
      BY <2>1
    <3>2. <<print(s[i]), Times(s, t)>> \in F(u)
      BY <1>3, <3>1
    <3>3. PICK j \in DOMAIN u : <<print(s[i]), Times(s, t)>> = <<print(u[j]), Times(u, Silent(u[j]))>>
      BY <3>2
    <3>4. print(s[i]) = print(u[j]) /\ Times(s, t) = Times(u, Silent(u[j]))
      BY <3>3
    <3>5. Silent(u[j]) = t
      BY <1>1, <3>1, <3>4, Prints
    <3>6. QED
      BY <3>4, <3>5
  <2>2. CASE \E i \in DOMAIN u : Silent(u[i]) = t
    <3>1. PICK i \in DOMAIN u : Silent(u[i]) = t
      BY <2>2
    <3>2. <<print(u[i]), Times(u, t)>> \in F(s)
      BY <1>3, <3>1
    <3>3. PICK j \in DOMAIN s : <<print(u[i]), Times(u, t)>> = <<print(s[j]), Times(s, Silent(s[j]))>>
      BY <3>2
    <3>4. print(u[i]) = print(s[j]) /\ Times(u, t) = Times(s, Silent(s[j]))
      BY <3>3
    <3>5. Silent(s[j]) = t
      BY <1>1, <3>1, <3>4, Prints
    <3>6. QED
      BY <3>4, <3>5
  <2>3. QED
    BY <1>2, <1>3, <2>1, <2>2
<1>4. ASSUME \A t \in T : Times(s, t) = Times(u, t)
      PROVE  F(s) = F(u)
  <2>1. ASSUME NEW a \in Seq(Tool), NEW b \in Seq(Tool), NEW i \in DOMAIN a,
               Times(a, Silent(a[i])) = Times(b, Silent(a[i]))
        PROVE  <<print(a[i]), Times(a, Silent(a[i]))>> \in F(b)
    <3>1. Times(b, Silent(a[i])) # 0
      BY <1>1, <2>1
    <3>2. PICK j \in DOMAIN b : Silent(b[j]) = Silent(a[i])
      BY <1>1, <3>1
    <3>3. print(b[j]) = print(a[i])
      BY <1>1, <3>2, Prints
    <3> HIDE DEF print
    <3>4. QED
      BY <2>1, <3>2, <3>3
  <2>2. \A i \in DOMAIN s : <<print(s[i]), Times(s, Silent(s[i]))>> \in F(u)
    BY <1>2, <1>4, <2>1
  <2>3. \A i \in DOMAIN u : <<print(u[i]), Times(u, Silent(u[i]))>> \in F(s)
    BY <1>2, <1>4, <2>1
  <2> HIDE DEF print
  <2>4. QED
    BY <2>2, <2>3
<1>5. stable_tool_fingerprint(s) = F(s) /\ stable_tool_fingerprint(u) = F(u)
  BY <1>1
<1> HIDE DEF F
<1>6. QED
  BY <1>3, <1>4, <1>5 DEF T

\* What Claude Code puts into a message or marks makes it no other message.
PutIn(said) == said.reminder # <<>> /\ said.reminder[1]

LEMMA SameUtterance ==
  ASSUME NEW x \in Utterance, NEW y \in Utterance
  PROVE  canonicalize_discriminator(x) = canonicalize_discriminator(y) <=>
           /\ x.role = y.role /\ x.text = y.text
           /\ x.reminder = y.reminder \/ (PutIn(x) /\ PutIn(y))
<1> DEFINE Fields == {"role", "text", "reminder", "marked"}
           a == canonicalize_discriminator(x)
           b == canonicalize_discriminator(y)
<1>1. ASSUME NEW t \in Utterance
      PROVE  /\ DOMAIN t = Fields /\ t["reminder"] \in {<<>>} \cup (BOOLEAN \X STRING)
             /\ canonicalize_discriminator(t) = [f \in Fields |-> IF f = "reminder" THEN masked(t[f])
                                                                  ELSE IF f = "marked" THEN FALSE ELSE t[f]]
  <2>1. DOMAIN t = Fields /\ t["reminder"] \in {<<>>} \cup (BOOLEAN \X STRING)
    BY DEF Utterance
  <2>2. canonicalize_discriminator(t) = [f \in DOMAIN t |-> IF f = "reminder" THEN masked(t[f])
                                                            ELSE IF f = "marked" THEN FALSE ELSE t[f]]
    BY DEF canonicalize_discriminator
  <2>3. QED
    BY <2>1, <2>2
<1>2. masked(x.reminder) = masked(y.reminder) <=> x.reminder = y.reminder \/ (PutIn(x) /\ PutIn(y))
  <2> DEFINE r == x.reminder
             q == y.reminder
  <2>1. r \in {<<>>} \cup (BOOLEAN \X STRING) /\ q \in {<<>>} \cup (BOOLEAN \X STRING)
    BY <1>1
  <2>2. ASSUME NEW w \in {<<>>} \cup (BOOLEAN \X STRING)
        PROVE  /\ w # <<>> /\ w[1] => masked(w) = <<TRUE, "masked">>
               /\ ~(w # <<>> /\ w[1]) => masked(w) = w
    BY <2>2 DEF masked
  <2>3. <<TRUE, "masked">> # <<>> /\ <<TRUE, "masked">>[1]
    OBVIOUS
  <2>4. PutIn(x) <=> r # <<>> /\ r[1]
    BY DEF PutIn
  <2>5. PutIn(y) <=> q # <<>> /\ q[1]
    BY DEF PutIn
  <2> HIDE DEF r, q
  <2>6. CASE PutIn(x) /\ PutIn(y)
    <3>1. masked(r) = <<TRUE, "masked">> /\ masked(q) = <<TRUE, "masked">>
      BY <2>1, <2>2, <2>4, <2>5, <2>6
    <3>2. QED
      BY <2>6, <3>1 DEF r, q
  <2>7. CASE PutIn(x) /\ ~PutIn(y)
    <3>1. masked(r) = <<TRUE, "masked">> /\ masked(q) = q
      BY <2>1, <2>2, <2>4, <2>5, <2>7
    <3>2. q # <<TRUE, "masked">> /\ r # q
      BY <2>3, <2>4, <2>5, <2>7
    <3>3. QED
      BY <2>7, <3>1, <3>2 DEF r, q
  <2>8. CASE ~PutIn(x) /\ PutIn(y)
    <3>1. masked(q) = <<TRUE, "masked">> /\ masked(r) = r
      BY <2>1, <2>2, <2>4, <2>5, <2>8
    <3>2. r # <<TRUE, "masked">> /\ r # q
      BY <2>3, <2>4, <2>5, <2>8
    <3>3. QED
      BY <2>8, <3>1, <3>2 DEF r, q
  <2>9. CASE ~PutIn(x) /\ ~PutIn(y)
    <3>1. masked(q) = q /\ masked(r) = r
      BY <2>1, <2>2, <2>4, <2>5, <2>9
    <3>2. QED
      BY <2>9, <3>1 DEF r, q
  <2>10. QED
    BY <2>6, <2>7, <2>8, <2>9
<1>3. /\ a = [f \in Fields |-> IF f = "reminder" THEN masked(x[f]) ELSE IF f = "marked" THEN FALSE ELSE x[f]]
      /\ b = [f \in Fields |-> IF f = "reminder" THEN masked(y[f]) ELSE IF f = "marked" THEN FALSE ELSE y[f]]
  BY <1>1
<1> HIDE DEF a, b
<1>4. a = b <=> x["role"] = y["role"] /\ x["text"] = y["text"] /\ masked(x["reminder"]) = masked(y["reminder"])
  <2>1. a = b => x["role"] = y["role"] /\ x["text"] = y["text"] /\ masked(x["reminder"]) = masked(y["reminder"])
    <3>1. /\ a["role"] = x["role"] /\ a["text"] = x["text"] /\ a["reminder"] = masked(x["reminder"])
          /\ b["role"] = y["role"] /\ b["text"] = y["text"] /\ b["reminder"] = masked(y["reminder"])
      BY <1>3
    <3>2. QED
      BY <3>1
  <2>2. ASSUME x["role"] = y["role"] /\ x["text"] = y["text"] /\ masked(x["reminder"]) = masked(y["reminder"])
        PROVE  a = b
    <3> DEFINE of(t, f) == IF f = "reminder" THEN masked(t[f]) ELSE IF f = "marked" THEN FALSE ELSE t[f]
    <3>1. \A f \in Fields : of(x, f) = of(y, f)
      BY <2>2
    <3>2. a = [f \in Fields |-> of(x, f)] /\ b = [f \in Fields |-> of(y, f)]
      BY <1>3
    <3> HIDE DEF of
    <3>3. QED
      BY <3>1, <3>2
  <2>3. QED
    BY <2>1, <2>2
<1>5. QED
  BY <1>2, <1>4 DEF a, b

\* A conversation begins with a message or with none.
LEMMA FirstMessage ==
  ASSUME NEW body \in Bodies
  PROVE  \/ first_conversation_message(body) = <<>>
         \/ \E m \in Utterance : first_conversation_message(body) = <<m>>
<1> DEFINE anchors == {i \in DOMAIN body.messages :
                         body.api = "anthropic" \/ ~(is_openai_system_role(body.messages[i].role)
                                                    \/ body.messages[i].role = Absent)}
           first == CHOOSE i \in anchors : \A j \in anchors : i <= j
<1>1. first_conversation_message(body) = IF anchors = {} THEN <<>> ELSE <<body.messages[first]>>
  BY DEF first_conversation_message
<1>2. body.messages \in Seq(Utterance)
  BY BodiesAssumption
<1>3. \A i \in DOMAIN body.messages : body.messages[i] \in Utterance /\ i \in Nat
  BY <1>2
<1>4. anchors \subseteq DOMAIN body.messages
  OBVIOUS
<1>5. ASSUME anchors # {}
      PROVE  first \in anchors
  <2>1. anchors \subseteq Nat
    BY <1>3, <1>4
  <2> HIDE DEF anchors
  <2>2. \E i \in anchors : \A j \in anchors : i <= j
    BY <1>5, <2>1, LeastOf
  <2>3. QED
    BY <2>2
<1> HIDE DEF first
<1>6. CASE anchors = {}
  BY <1>1, <1>6
<1>7. CASE anchors # {}
  <2>1. body.messages[first] \in Utterance
    BY <1>3, <1>4, <1>5, <1>7
  <2>2. QED
    BY <1>1, <1>7, <2>1
<1>8. QED
  BY <1>6, <1>7

\* Two requests are of one conversation exactly when they are of one session and
\* start with the same words to the same model.
LEMMA SameTalk ==
  ASSUME NEW a \in Bodies, NEW b \in Bodies, NEW from, NEW to
  PROVE  conversation(from, a) = conversation(to, b) <=>
           derive_parent_bucket(from) = derive_parent_bucket(to) /\ SameStart(a, b)
<1> DEFINE f == first_conversation_message(a)
           g == first_conversation_message(b)
           F == [i \in DOMAIN f |-> canonicalize_discriminator(f[i])]
           G == [i \in DOMAIN g |-> canonicalize_discriminator(g[i])]
<1>1. /\ f = <<>> \/ \E m \in Utterance : f = <<m>>
      /\ g = <<>> \/ \E m \in Utterance : g = <<m>>
  BY FirstMessage
<1>2. conversation(from, a) = conversation(to, b) <=>
        derive_parent_bucket(from) = derive_parent_bucket(to) /\ a.model = b.model /\ F = G
  BY DEF conversation
<1>3. SameStart(a, b) <=>
        /\ a.model = b.model /\ DOMAIN f = DOMAIN g
        /\ \A i \in DOMAIN f : /\ f[i].role = g[i].role /\ f[i].text = g[i].text
                               /\ f[i].reminder = g[i].reminder \/ (PutIn(f[i]) /\ PutIn(g[i]))
  BY DEF SameStart, PutIn
<1> HIDE DEF f, g
<1>4. /\ DOMAIN f \subseteq {1} /\ DOMAIN g \subseteq {1}
      /\ \A i \in DOMAIN f : f[i] \in Utterance
      /\ \A i \in DOMAIN g : g[i] \in Utterance
  BY <1>1
<1>5. DOMAIN F = DOMAIN f /\ DOMAIN G = DOMAIN g
  OBVIOUS
<1>6. F = G <=> /\ DOMAIN f = DOMAIN g
                /\ \A i \in DOMAIN f : canonicalize_discriminator(f[i]) = canonicalize_discriminator(g[i])
  <2>1. ASSUME F = G
        PROVE  /\ DOMAIN f = DOMAIN g
               /\ \A i \in DOMAIN f : canonicalize_discriminator(f[i]) = canonicalize_discriminator(g[i])
    <3>1. DOMAIN f = DOMAIN g
      BY <1>5, <2>1
    <3>2. \A i \in DOMAIN f : F[i] = canonicalize_discriminator(f[i]) /\ G[i] = canonicalize_discriminator(g[i])
      BY <3>1
    <3> HIDE DEF F, G
    <3>3. QED
      BY <2>1, <3>1, <3>2
  <2>2. ASSUME DOMAIN f = DOMAIN g,
               \A i \in DOMAIN f : canonicalize_discriminator(f[i]) = canonicalize_discriminator(g[i])
        PROVE  F = G
    BY <2>2
  <2>3. QED
    BY <2>1, <2>2
<1>7. DOMAIN f = DOMAIN g => \A i \in DOMAIN f :
        canonicalize_discriminator(f[i]) = canonicalize_discriminator(g[i]) <=>
          /\ f[i].role = g[i].role /\ f[i].text = g[i].text
          /\ f[i].reminder = g[i].reminder \/ (PutIn(f[i]) /\ PutIn(g[i]))
  BY <1>4, SameUtterance
<1> HIDE DEF F, G
<1>8. QED
  BY <1>2, <1>3, <1>6, <1>7

-----------------------------------------------------------------------------
(***************************************************************************)
(* Maps that hold the most recent entries.                                 *)
(***************************************************************************)
\* A function has finitely many values on a finite set, and no more than another
\* that tells its arguments apart at least as well.
LEMMA FiniteValues ==
  ASSUME NEW K, IsFiniteSet(K), NEW f
  PROVE  IsFiniteSet({f[x] : x \in K}) /\ Cardinality({f[x] : x \in K}) \in Nat
<1> DEFINE F == {f[x] : x \in K}
           fK == [x \in K |-> f[x]]
<1>1. fK \in Surjection(K, F)
  BY DEF Surjection
<1> HIDE DEF F, fK
<1>2. IsFiniteSet(F)
  BY <1>1, FS_Surjection
<1>3. Cardinality(F) \in Nat
  BY <1>2, FS_CardinalityType
<1>4. QED
  BY <1>2, <1>3 DEF F

LEMMA FewerValues ==
  ASSUME NEW K, IsFiniteSet(K), NEW f, NEW g, \A x, y \in K : f[x] = f[y] => g[x] = g[y]
  PROVE  Cardinality({g[x] : x \in K}) <= Cardinality({f[x] : x \in K})
<1> DEFINE F == {f[x] : x \in K}
           G == {g[x] : x \in K}
           h == [v \in F |-> g[CHOOSE x \in K : f[x] = v]]
<1>1. IsFiniteSet(F)
  BY FiniteValues
<1>2. h \in Surjection(F, G)
  <2>1. \A v \in F : (CHOOSE x \in K : f[x] = v) \in K /\ f[CHOOSE x \in K : f[x] = v] = v
    OBVIOUS
  <2>2. \A v \in F : h[v] \in G
    BY <2>1
  <2>3. \A x \in K : h[f[x]] = g[x]
    BY <2>1
  <2>4. h \in [F -> G]
    BY <2>2
  <2>5. \A w \in G : \E v \in F : h[v] = w
    <3>1. TAKE w \in G
    <3>2. PICK x \in K : w = g[x]
      OBVIOUS
    <3>3. f[x] \in F /\ h[f[x]] = w
      BY <2>3, <3>2
    <3>4. QED
      BY <3>3
  <2> HIDE DEF F, G, h
  <2>6. QED
    BY <2>4, <2>5 DEF Surjection
<1> HIDE DEF F, G, h
<1>3. Cardinality(G) <= Cardinality(F)
  BY <1>1, <1>2, FS_Surjection
<1>4. QED
  BY <1>3 DEF F, G

\* A map that takes another entry holds it, and others it held unless it is full.
PutAll(lru, k, v, n) ==
  [o \in DOMAIN lru \cup {k} |-> IF o = k THEN [value |-> v, at |-> n] ELSE lru[o]]

LEMMA PutFits ==
  ASSUME NEW lru, NEW k, NEW v, NEW n, IsFiniteSet(DOMAIN lru), capacity \in Nat,
         Cardinality(DOMAIN lru \cup {k}) <= capacity
  PROVE  put(lru, k, v, n) = PutAll(lru, k, v, n)
<1> DEFINE all == PutAll(lru, k, v, n)
           oldest == CHOOSE o \in DOMAIN all : \A q \in DOMAIN all : all[o].at <= all[q].at
<1>1. put(lru, k, v, n) = IF Cardinality(DOMAIN all) > capacity THEN without(all, oldest) ELSE all
  BY DEF put, PutAll
<1>2. DOMAIN all = DOMAIN lru \cup {k}
  BY DEF PutAll
<1>3. Cardinality(DOMAIN all) \in Nat
  BY <1>2, FS_AddElement, FS_CardinalityType
<1> HIDE DEF all, oldest
<1>4. ~ (Cardinality(DOMAIN all) > capacity)
  BY <1>2, <1>3
<1>5. QED
  BY <1>1, <1>4 DEF all

\* An entry is put at a time later than all others.
PutLater(lru, times, key, val, n, k, v, key2, val2) ==
  /\ n \in Nat /\ times \subseteq Nat /\ IsFiniteSet(times) /\ (\A m \in times : m < n) /\ capacity \in Nat \ {0}
  /\ Recent(capacity, lru, times, key, val)
  /\ \A m \in times : key2[m] = key[m] /\ val2[m] = val[m]
  /\ key2[n] = k /\ val2[n] = v

LEMMA PutRecent ==
  ASSUME NEW lru, NEW times, NEW key, NEW val, NEW n, NEW k, NEW v, NEW key2, NEW val2,
         PutLater(lru, times, key, val, n, k, v, key2, val2)
  PROVE  Recent(capacity, put(lru, k, v, n), times \cup {n}, key2, val2)
<1> DEFINE all == PutAll(lru, k, v, n)
           D == DOMAIN lru \cup {k}
           more == times \cup {n}
           From(m) == {key2[j] : j \in {j \in more : m <= j}}
           Lasts(q) == /\ all[q].at \in more /\ key2[all[q].at] = q /\ all[q].value = val2[all[q].at]
                       /\ \A m \in more : m > all[q].at => key2[m] # q
           oldest == CHOOSE o \in D : \A q \in D : all[o].at <= all[q].at
<1>0. /\ n \in Nat /\ times \subseteq Nat /\ IsFiniteSet(times) /\ (\A m \in times : m < n) /\ capacity \in Nat \ {0}
      /\ Recent(capacity, lru, times, key, val)
      /\ \A m \in times : key2[m] = key[m] /\ val2[m] = val[m]
      /\ key2[n] = k /\ val2[n] = v
  BY DEF PutLater
<1> USE <1>0
<1>1. /\ IsFiniteSet(DOMAIN lru) /\ Cardinality(DOMAIN lru) <= capacity
      /\ \A q \in DOMAIN lru :
           /\ lru[q].at \in times /\ key[lru[q].at] = q /\ lru[q].value = val[lru[q].at]
           /\ \A m \in times : m > lru[q].at => key[m] # q
      /\ \A m \in times : key[m] \notin DOMAIN lru =>
           Cardinality({key[j] : j \in {j \in times : m <= j}}) > capacity
  BY DEF Recent
<1>2. put(lru, k, v, n) = IF Cardinality(D) > capacity THEN without(all, oldest) ELSE all
  BY DEF put, PutAll
<1>3. DOMAIN all = D /\ all[k] = [value |-> v, at |-> n] /\ \A q \in D \ {k} : all[q] = lru[q]
  BY DEF PutAll
<1> HIDE DEF all
<1>4. /\ IsFiniteSet(D) /\ Cardinality(D) \in Nat /\ Cardinality(D) <= capacity + 1
  <2>1. Cardinality(DOMAIN lru) \in Nat
    BY <1>1, FS_CardinalityType
  <2>2. /\ IsFiniteSet(D)
        /\ Cardinality(D) = IF k \in DOMAIN lru THEN Cardinality(DOMAIN lru) ELSE Cardinality(DOMAIN lru) + 1
    BY <1>1, FS_AddElement
  <2> HIDE DEF D
  <2>3. QED
    BY <1>1, <2>1, <2>2
<1>5. \A q \in D : Lasts(q)
  <2>1. Lasts(k)
    <3>1. all[k].at = n /\ all[k].value = v /\ n \in more
      BY <1>3
    <3>2. \A m \in more : ~ (m > n)
      <4>1. TAKE m \in more
      <4>2. m \in times \/ m = n
        OBVIOUS
      <4>3. m \in times => m \in Nat /\ m < n
        OBVIOUS
      <4>4. n \in Nat
        OBVIOUS
      <4>5. QED
        BY ONLY <4>2, <4>3, <4>4
    <3>3. QED
      BY <1>0, <3>1, <3>2
  <2>2. ASSUME NEW q \in D, q # k
        PROVE  Lasts(q)
    <3>1. q \in DOMAIN lru /\ all[q] = lru[q]
      BY <1>3, <2>2
    <3>2. lru[q].at \in times /\ key[lru[q].at] = q /\ lru[q].value = val[lru[q].at]
      BY <1>1, <3>1
    <3>3. \A m \in times : m > lru[q].at => key[m] # q
      BY <1>1, <3>1
    <3>4. QED
      BY <2>2, <3>1, <3>2, <3>3
  <2>3. QED
    BY <2>1, <2>2
<1>6. \A m \in more : IsFiniteSet(From(m)) /\ Cardinality(From(m)) \in Nat
  <2>1. TAKE m \in more
  <2> DEFINE J == {j \in more : m <= j}
  <2>2. IsFiniteSet(more)
    BY FS_AddElement
  <2>3. J \in SUBSET more
    OBVIOUS
  <2>4. IsFiniteSet(J)
    BY <2>2, <2>3, FS_Subset
  <2> HIDE DEF J
  <2>5. IsFiniteSet({key2[j] : j \in J}) /\ Cardinality({key2[j] : j \in J}) \in Nat
    BY ONLY <2>4, FiniteValues
  <2>6. QED
    BY <2>5 DEF J
<1>7. ASSUME NEW m \in more, key2[m] \notin D
      PROVE  Cardinality(From(m)) > capacity
  <2> DEFINE old == {key[j] : j \in {j \in times : m <= j}}
  <2>1. m \in times /\ key[m] \notin DOMAIN lru
    BY <1>7
  <2>2. Cardinality(old) > capacity
    BY <1>1, <2>1
  <2>3. \A w \in old : w \in From(m)
    OBVIOUS
  <2> HIDE DEF old, From
  <2>4. old \in SUBSET From(m)
    BY <2>3
  <2>5. IsFiniteSet(old) /\ Cardinality(old) <= Cardinality(From(m))
    BY <1>6, <2>4, FS_Subset
  <2>6. Cardinality(old) \in Nat
    BY <2>5, FS_CardinalityType
  <2>7. QED
    BY <1>6, <2>2, <2>5, <2>6
<1>8. CASE Cardinality(D) <= capacity
  <2>1. put(lru, k, v, n) = all
    BY <1>2, <1>4, <1>8
  <2>2. /\ DOMAIN all = D /\ IsFiniteSet(D) /\ Cardinality(D) <= capacity
        /\ \A q \in D : Lasts(q)
        /\ \A m \in more : key2[m] \notin D => Cardinality(From(m)) > capacity
    BY <1>3, <1>4, <1>5, <1>7, <1>8
  <2> HIDE DEF D
  <2>3. Recent(capacity, all, more, key2, val2)
    BY <2>2 DEF Recent
  <2>4. QED
    BY <2>1, <2>3
<1>9. CASE Cardinality(D) > capacity
  <2>1. oldest \in D /\ \A q \in D : all[oldest].at <= all[q].at
    <3> DEFINE ages == {all[q].at : q \in D}
    <3>1. k \in D
      OBVIOUS
    <3>2. ages \subseteq Nat /\ ages # {}
      <4>1. \A q \in D : all[q].at \in Nat
        BY <1>5
      <4> HIDE DEF D
      <4>2. QED
        BY <3>1, <4>1
    <3> HIDE DEF ages
    <3>3. PICK a \in ages : \A b \in ages : a <= b
      BY <3>2, LeastOf
    <3>4. \E o \in D : all[o].at = a
      BY <3>3 DEF ages
    <3>5. \A q \in D : a <= all[q].at
      BY <3>3 DEF ages
    <3> HIDE DEF D
    <3>6. \E o \in D : \A q \in D : all[o].at <= all[q].at
      BY <3>4, <3>5
    <3>7. QED
      BY <3>6
  <2> HIDE DEF oldest
  <2>2. oldest # k
    <3>1. SUFFICES ASSUME oldest = k PROVE FALSE
      OBVIOUS
    <3>2. ASSUME NEW q \in D PROVE q = k
      <4>1. SUFFICES ASSUME q # k PROVE FALSE
        OBVIOUS
      <4>2. all[q].at \in times /\ all[k].at = n
        BY <1>1, <1>3, <4>1
      <4>3. all[k].at <= all[q].at
        BY <2>1, <3>1
      <4>4. all[q].at \in Nat /\ all[q].at < n
        BY <4>2
      <4>5. QED
        BY <4>2, <4>3, <4>4
    <3>3. D = {k}
      BY <3>2
    <3>4. Cardinality(D) = 1
      BY <3>3, FS_Singleton
    <3> HIDE DEF D
    <3>5. QED
      BY <1>9, <3>4
  <2> DEFINE res == without(all, oldest)
  <2>3. put(lru, k, v, n) = res
    BY <1>2, <1>9 DEF oldest
  <2>4. DOMAIN res = D \ {oldest} /\ \A q \in D \ {oldest} : res[q] = all[q]
    BY <1>3 DEF without
  <2>5. IsFiniteSet(D \ {oldest}) /\ Cardinality(D \ {oldest}) <= capacity
    <3> HIDE DEF D
    <3>1. IsFiniteSet(D \ {oldest}) /\ Cardinality(D \ {oldest}) = Cardinality(D) - 1
      BY <1>4, <2>1, FS_RemoveElement
    <3>2. QED
      BY <1>4, <3>1
  <2>6. ASSUME NEW m \in more, key2[m] \notin D \ {oldest}
        PROVE  Cardinality(From(m)) > capacity
    <3>1. CASE key2[m] \notin D
      BY <1>7, <3>1
    <3>2. CASE key2[m] = oldest
      <4>1. m <= all[oldest].at
        <5>1. m \in Nat /\ all[oldest].at \in Nat
          BY <1>5, <2>1
        <5>2. ~ (m > all[oldest].at)
          BY <1>5, <2>1, <3>2
        <5>3. QED
          BY <5>1, <5>2
      <4>2. \A q \in D : q \in From(m)
        <5>1. TAKE q \in D
        <5>2. all[q].at \in more /\ key2[all[q].at] = q
          BY <1>5
        <5>3. m <= all[q].at
          <6>1. m \in Nat /\ all[oldest].at \in Nat /\ all[q].at \in Nat
            BY <1>5, <2>1
          <6>2. all[oldest].at <= all[q].at
            BY <2>1
          <6>3. QED
            BY <4>1, <6>1, <6>2
        <5>4. QED
          BY <5>2, <5>3
      <4> HIDE DEF D, From
      <4>3. D \in SUBSET From(m)
        BY <4>2
      <4>4. Cardinality(D) <= Cardinality(From(m))
        BY <1>6, <4>3, FS_Subset
      <4>5. QED
        BY <1>4, <1>6, <1>9, <4>4
    <3>3. QED
      BY <2>6, <3>1, <3>2
  <2>7. \A q \in D \ {oldest} : Lasts(q)
    BY <1>5
  <2>8. \A m \in more : key2[m] \notin D \ {oldest} => Cardinality(From(m)) > capacity
    BY <2>6
  <2> HIDE DEF res, D
  <2>9. Recent(capacity, res, more, key2, val2)
    BY <2>4, <2>5, <2>7, <2>8 DEF Recent
  <2>10. QED
    BY <2>3, <2>9
<1>10. QED
  BY <1>4, <1>8, <1>9

-----------------------------------------------------------------------------
(***************************************************************************)
(* What stays as it was when requests come in and reports are added.       *)
(***************************************************************************)
SameRequests ==
  /\ DOMAIN sent \subseteq DOMAIN sent' /\ capacity' = capacity
  /\ \A n \in DOMAIN sent : sent'[n].body = sent[n].body /\ sent'[n].sender = sent[n].sender

SameReports ==
  /\ DOMAIN log \subseteq DOMAIN log'
  /\ \A i \in DOMAIN log : log'[i] = log[i]
  /\ \A i \in DOMAIN log' \ DOMAIN log : log'[i].scope = "usage" \/ log'[i].of \notin DOMAIN sent

\* Requests are numbered from 1 on.
LEMMA RequestNumbers ==
  ASSUME DriftTypes
  PROVE  /\ DOMAIN sent = 1..Len(sent) /\ Len(sent) \in Nat /\ DOMAIN sent \subseteq Nat /\ IsFiniteSet(DOMAIN sent)
         /\ \A n \in DOMAIN sent : Earlier(n) \subseteq DOMAIN sent /\ Earlier(n) \subseteq Watchable
         /\ Watchable \subseteq Nat /\ IsFiniteSet(Watchable)
<1>1. DOMAIN sent = 1..Len(sent) /\ Len(sent) \in Nat
  BY DEF DriftTypes
<1>2. IsFiniteSet(DOMAIN sent)
  BY <1>1, FS_Interval
<1>3. Watchable \in SUBSET DOMAIN sent
  BY DEF Watchable
<1>4. IsFiniteSet(Watchable)
  BY <1>2, <1>3, FS_Subset
<1>5. \A n \in DOMAIN sent : Earlier(n) \subseteq DOMAIN sent /\ Earlier(n) \subseteq Watchable
  BY <1>1 DEF Earlier, Watchable
<1>6. QED
  BY <1>1, <1>2, <1>3, <1>4, <1>5

LEMMA RequestsStay ==
  ASSUME DriftTypes, SameRequests
  PROVE  \A n \in DOMAIN sent :
           /\ Session(n)' = Session(n) /\ (Compared(n)' <=> Compared(n)) /\ Parent(n)' = Parent(n) /\ Talk(n)' = Talk(n)
           /\ Earlier(n)' = Earlier(n)
           /\ \A m \in Earlier(n) : /\ Fit(m, n)' <=> Fit(m, n)
                                    /\ TalksFit(m, n)' <=> TalksFit(m, n)
                                    /\ Opens(m, n)' <=> Opens(m, n)
                                    /\ Changed(n, m)' <=> Changed(n, m)
<1>1. ASSUME NEW n \in DOMAIN sent
      PROVE  /\ Session(n)' = Session(n) /\ (Compared(n)' <=> Compared(n)) /\ Parent(n)' = Parent(n) /\ Talk(n)' = Talk(n)
  <2>1. sent'[n].body = sent[n].body /\ sent'[n].sender = sent[n].sender
    BY DEF SameRequests
  <2>2. Session(n)' = Session(n)
    BY <2>1 DEF Session
  <2>3. Compared(n)' <=> Compared(n)
    BY <2>1, <2>2 DEF Compared
  <2>4. Parent(n)' = Parent(n) /\ Talk(n)' = Talk(n)
    BY <2>1 DEF Parent, Talk
  <2>5. QED
    BY <2>2, <2>3, <2>4
<1>2. ASSUME NEW n \in DOMAIN sent
      PROVE  /\ Earlier(n)' = Earlier(n)
             /\ \A m \in Earlier(n) : /\ Fit(m, n)' <=> Fit(m, n)
                                      /\ TalksFit(m, n)' <=> TalksFit(m, n)
                                      /\ Opens(m, n)' <=> Opens(m, n)
                                      /\ Changed(n, m)' <=> Changed(n, m)
  <2>1. n \in Nat /\ \A m \in 1..n : m \in DOMAIN sent
    BY RequestNumbers
  <2>2. Earlier(n)' = {m \in 1..(n - 1) : Compared(m)' /\ Session(m)' = Session(n)'}
    BY DEF Earlier
  <2>3. \A m \in 1..(n - 1) : (Compared(m)' <=> Compared(m)) /\ Session(m)' = Session(m)
    BY <1>1, <2>1
  <2>4. Session(n)' = Session(n)
    BY <1>1
  <2>5. Earlier(n)' = Earlier(n)
    BY <2>2, <2>3, <2>4 DEF Earlier
  <2>6. ASSUME NEW m \in Earlier(n)
        PROVE  /\ Fit(m, n)' <=> Fit(m, n)
               /\ TalksFit(m, n)' <=> TalksFit(m, n)
               /\ Opens(m, n)' <=> Opens(m, n)
               /\ Changed(n, m)' <=> Changed(n, m)
    <3>1. m \in 1..(n - 1) /\ m \in DOMAIN sent
      BY <2>1 DEF Earlier
    <3>2. \A k \in m..n : k \in DOMAIN sent /\ (Compared(k)' <=> Compared(k)) /\ Session(k)' = Session(k) /\ Talk(k)' = Talk(k)
      BY <1>1, <2>1, <3>1
    <3> DEFINE K == {k \in m..n : Compared(k)}
    <3>3. {k \in m..n : Compared(k)'} = K
      BY <3>2
    <3>4. {Session(k)' : k \in K} = {Session(k) : k \in K} /\ {Talk(k)' : k \in K} = {Talk(k) : k \in K}
      BY <3>2
    <3>5. capacity' = capacity
      BY DEF SameRequests
    <3>6. Fit(m, n)' <=> Cardinality({Session(k)' : k \in {k \in m..n : Compared(k)'}}) <= capacity'
      BY DEF Fit
    <3>7. TalksFit(m, n)' <=> Cardinality({Talk(k)' : k \in {k \in m..n : Compared(k)'}}) <= capacity'
      BY DEF TalksFit
    <3>8. (Fit(m, n) <=> Cardinality({Session(k) : k \in K}) <= capacity)
          /\ (TalksFit(m, n) <=> Cardinality({Talk(k) : k \in K}) <= capacity)
      BY DEF Fit, TalksFit
    <3>9. /\ sent'[n].body = sent[n].body /\ sent'[m].body = sent[m].body
      BY <3>1 DEF SameRequests
    <3>10. Opens(m, n)' <=> Opens(m, n)
      BY <3>9 DEF Opens
    <3>11. Changed(n, m)' <=> Changed(n, m)
      BY <1>1, <3>9 DEF Changed
    <3> HIDE DEF K
    <3>12. (Fit(m, n)' <=> Fit(m, n)) /\ (TalksFit(m, n)' <=> TalksFit(m, n))
      BY <3>3, <3>4, <3>5, <3>6, <3>7, <3>8
    <3>13. QED
      BY <3>10, <3>11, <3>12
  <2>7. QED
    BY <2>5, <2>6
<1>3. QED
  BY <1>1, <1>2

LEMMA ReportsStay ==
  ASSUME DriftTypes, SameRequests, SameReports
  PROVE  \A n \in DOMAIN sent :
           /\ Of("parent", n)' = Of("parent", n) /\ (Warned(n)' <=> Warned(n))
           /\ \A i \in Of("usage", n) : i \in Of("usage", n)'
           /\ Announced(n) => Announced(n)'
           /\ Known(n) => Known(n)'
<1>1. SUFFICES ASSUME NEW n \in DOMAIN sent
               PROVE  /\ Of("parent", n)' = Of("parent", n) /\ (Warned(n)' <=> Warned(n))
                      /\ \A i \in Of("usage", n) : i \in Of("usage", n)'
                      /\ Announced(n) => Announced(n)'
                      /\ Known(n) => Known(n)'
  OBVIOUS
<1>2. \A i : /\ i \in Of("parent", n) <=> i \in DOMAIN log /\ log[i].scope = "parent" /\ log[i].of = n
             /\ i \in Of("usage", n) <=> i \in DOMAIN log /\ log[i].scope = "usage" /\ log[i].of = n
             /\ i \in Of("parent", n)' <=> i \in DOMAIN log' /\ log'[i].scope = "parent" /\ log'[i].of = n
             /\ i \in Of("usage", n)' <=> i \in DOMAIN log' /\ log'[i].scope = "usage" /\ log'[i].of = n
  BY DEF Of
<1>3. \A i : i \in Of("parent", n)' <=> i \in Of("parent", n)
  BY <1>2 DEF SameReports
<1>4. Of("parent", n)' = Of("parent", n)
  BY <1>3 DEF Of
<1>5. \A i \in Of("usage", n) : i \in Of("usage", n)'
  BY <1>2 DEF SameReports
<1>6. Warned(n)' <=> Warned(n)
  BY <1>4 DEF Warned
<1>7. /\ Earlier(n)' = Earlier(n)
      /\ \A m \in Earlier(n) : /\ Fit(m, n)' <=> Fit(m, n)
                               /\ TalksFit(m, n)' <=> TalksFit(m, n)
                               /\ Opens(m, n)' <=> Opens(m, n)
                               /\ Changed(n, m)' <=> Changed(n, m)
  BY RequestsStay
<1>8. ASSUME Announced(n)
      PROVE  Announced(n)'
  <2>1. /\ Earlier(n) = {} => ~Warned(n)
        /\ \A last \in Earlier(n) :
             (\A k \in Earlier(n) : k <= last) /\ Fit(last, n) => (Changed(n, last) <=> Warned(n))
    BY <1>8 DEF Announced
  <2>2. /\ Earlier(n)' = {} => ~Warned(n)'
        /\ \A last \in Earlier(n)' :
             (\A k \in Earlier(n)' : k <= last) /\ Fit(last, n)' => (Changed(n, last)' <=> Warned(n)')
    BY <1>6, <1>7, <2>1
  <2>3. QED
    BY <2>2 DEF Announced
<1>9. ASSUME Known(n)
      PROVE  Known(n)'
  <2>1. \A i \in Of("parent", n) :
          /\ log[i].rotated => \A m \in Earlier(n) : Opens(m, n) => ~TalksFit(m, n)
          /\ (\A m \in Earlier(n) : ~Opens(m, n)) => log[i].rotated
    BY <1>9 DEF Known
  <2>2. \A i \in Of("parent", n) : log'[i] = log[i]
    BY <1>2 DEF SameReports
  <2>3. \A i \in Of("parent", n)' :
          /\ log'[i].rotated => \A m \in Earlier(n)' : Opens(m, n)' => ~TalksFit(m, n)'
          /\ (\A m \in Earlier(n)' : ~Opens(m, n)') => log'[i].rotated
    BY <1>4, <1>7, <2>1, <2>2
  <2>4. QED
    BY <2>3 DEF Known
<1>10. QED
  BY <1>4, <1>5, <1>6, <1>8, <1>9

-----------------------------------------------------------------------------
(***************************************************************************)
(* The invariant says that changes are reported.                           *)
(***************************************************************************)
LEMMA SessionsApart ==
  ASSUME NEW m \in Watchable, NEW n \in Watchable
  PROVE  Session(m) = Session(n) <=> Parent(m) = Parent(n)
<1>1. \A k : Session(k) = SessionOf(sent[k].sender)
  BY DEF Session, SessionOf
<1>2. SessionOf(sent[m].sender) # NoSession /\ SessionOf(sent[n].sender) # NoSession
  BY <1>1 DEF Watchable, Compared, NoSession
<1>3. QED
  BY <1>1, <1>2, Buckets DEF Parent

LEMMA WarnersNumber ==
  ASSUME DriftTypes
  PROVE  IsFiniteSet(Warners) /\ Cardinality(Warners) \in Nat
<1> DEFINE W == {m \in DOMAIN sent : Warned(m)}
           f == [m \in W |-> Session(m)]
<1>1. W \in SUBSET DOMAIN sent
  OBVIOUS
<1>2. IsFiniteSet(W)
  BY <1>1, RequestNumbers, FS_Subset
<1>3. Warners = {f[m] : m \in W}
  BY DEF Warners
<1> HIDE DEF W, f
<1>4. QED
  BY <1>2, <1>3, FiniteValues

LEMMA ReportsFollow ==
  ASSUME DriftInv
  PROVE  DriftReported
<1>1. DriftTypes /\ PendingsAwait /\ UsagesOnce /\ \A n \in DOMAIN sent : Announced(n) /\ Known(n)
  BY DEF DriftInv
<1>2. ChangesAnnounced
  <2>1. SUFFICES ASSUME NEW n \in DOMAIN sent
                 PROVE  LET last == IF Earlier(n) = {} THEN 0 ELSE CHOOSE m \in Earlier(n) : \A k \in Earlier(n) : k <= m
                            changed == Compared(n) /\ last # 0
                                       /\ \/ extract_system(sent[n].body) # extract_system(sent[last].body)
                                          \/ ~SameTools(sent[n].body, sent[last].body)
                        IN  (last # 0 => Fit(last, n)) => (changed <=> Of("parent", n) # {})
    BY DEF ChangesAnnounced
  <2>2. /\ Earlier(n) = {} => ~Warned(n)
        /\ \A last \in Earlier(n) :
             (\A k \in Earlier(n) : k <= last) /\ Fit(last, n) => (Changed(n, last) <=> Warned(n))
    BY <1>1 DEF Announced
  <2>3. Warned(n) <=> Of("parent", n) # {}
    BY DEF Warned
  <2>4. CASE Earlier(n) = {}
    BY <2>2, <2>3, <2>4
  <2>5. CASE Earlier(n) # {}
    <3> DEFINE last == CHOOSE m \in Earlier(n) : \A k \in Earlier(n) : k <= m
    <3>1. n \in Nat /\ Earlier(n) \subseteq 1..n
      BY <1>1, RequestNumbers DEF Earlier
    <3>2. Max(Earlier(n)) \in Earlier(n) /\ \A k \in Earlier(n) : k <= Max(Earlier(n))
      BY <2>5, <3>1, MaxIsIn
    <3>3. last \in Earlier(n) /\ \A k \in Earlier(n) : k <= last
      BY <3>2
    <3>4. last # 0
      BY <3>1, <3>3
    <3>5. Fit(last, n) => (Changed(n, last) <=> Warned(n))
      BY <2>2, <3>3
    <3>6. Changed(n, last) <=> Compared(n) /\ \/ extract_system(sent[n].body) # extract_system(sent[last].body)
                                              \/ ~SameTools(sent[n].body, sent[last].body)
      BY DEF Changed
    <3>7. last = IF Earlier(n) = {} THEN 0 ELSE CHOOSE m \in Earlier(n) : \A k \in Earlier(n) : k <= m
      BY <2>5
    <3> HIDE DEF last
    <3>8. QED
      BY <2>3, <3>4, <3>5, <3>6, <3>7
  <2>6. QED
    BY <2>4, <2>5
<1>3. RotationsKnown
  <2>1. SUFFICES ASSUME NEW n \in DOMAIN sent, NEW i \in Of("parent", n)
                 PROVE  LET same == {m \in Earlier(n) : SameStart(sent[m].body, sent[n].body)}
                            kept == \E m \in same : Cardinality({Talk(k) : k \in {k \in m..n : Compared(k)}}) <= capacity
                        IN  /\ log[i].rotated => ~kept
                            /\ same = {} => log[i].rotated
    BY DEF RotationsKnown
  <2>2. /\ log[i].rotated => \A m \in Earlier(n) : Opens(m, n) => ~TalksFit(m, n)
        /\ (\A m \in Earlier(n) : ~Opens(m, n)) => log[i].rotated
    BY <1>1 DEF Known
  <2>3. \A m \in Earlier(n) :
          /\ Opens(m, n) <=> SameStart(sent[m].body, sent[n].body)
          /\ TalksFit(m, n) <=> Cardinality({Talk(k) : k \in {k \in m..n : Compared(k)}}) <= capacity
    BY DEF Opens, TalksFit
  <2>4. QED
    BY <2>2, <2>3
<1>4. UsageOfItsWarning
  <2>1. SUFFICES ASSUME NEW n \in DOMAIN sent
                 PROVE  /\ \A i, j \in Of("usage", n) : i = j
                        /\ \A i \in Of("usage", n) :
                             /\ \E w \in Of("parent", n) : log[i].dims = log[w].dims
                             /\ Session(log[i].by) = Session(n)
                             /\ Alone(n) => log[i].by = n
                        /\ Alone(n) /\ Warned(n) /\ ~sent[n].watched
                             => Of("usage", n) # {} \/ Cardinality(Warners) > capacity
    BY DEF UsageOfItsWarning, Alone, Warned, Warners
  <2>3. \A i, j \in Of("usage", n) : i = j
    BY <1>1 DEF UsagesOnce
  <2>4. ASSUME NEW i \in Of("usage", n)
        PROVE  /\ \E w \in Of("parent", n) : log[i].dims = log[w].dims
               /\ Session(log[i].by) = Session(n)
               /\ Alone(n) => log[i].by = n
    <3>1. i \in DOMAIN log /\ log[i].scope = "usage" /\ log[i].of = n
      BY DEF Of
    <3>2. /\ log[i].by \in DOMAIN sent /\ Warned(log[i].by) /\ Session(log[i].by) = Session(n)
          /\ \E w \in Of("parent", n) : log[i].dims = log[w].dims
      BY <1>1, <3>1 DEF DriftTypes, Founded
    <3>3. Alone(n) => log[i].by = n
      BY <3>2 DEF Alone
    <3>4. QED
      BY <3>2, <3>3
  <2>6. Warned(n) /\ Alone(n) /\ Cardinality(Warners) <= capacity /\ Of("usage", n) = {} => sent[n].watched
    BY <1>1 DEF PendingsAwait, Owed, Waiting
  <2>7. Cardinality(Warners) \in Nat /\ capacity \in Nat
    BY <1>1, WarnersNumber DEF DriftTypes
  <2>8. Alone(n) /\ Warned(n) /\ ~sent[n].watched => Of("usage", n) # {} \/ Cardinality(Warners) > capacity
    BY <2>6, <2>7
  <2>9. QED
    BY <2>3, <2>4, <2>8
<1>5. QED
  BY <1>2, <1>3, <1>4 DEF DriftReported

-----------------------------------------------------------------------------
(***************************************************************************)
(* A request comes in.                                                     *)
(***************************************************************************)
\* A list to which an element is added, or none.
Adds(s, t, d, e) ==
  /\ t \in Seq(ToSet(t)) /\ DOMAIN s \subseteq DOMAIN t
  /\ \A i \in DOMAIN s : t[i] = s[i]
  /\ \A i \in DOMAIN t \ DOMAIN s : d # {} /\ t[i] = e
  /\ d # {} => \E i \in DOMAIN t \ DOMAIN s : t[i] = e

LEMMA Added ==
  ASSUME NEW s, s \in Seq(ToSet(s)), NEW d, NEW e
  PROVE  Adds(s, s \o (IF d = {} THEN <<>> ELSE <<e>>), d, e)
<1> DEFINE t == s \o (IF d = {} THEN <<>> ELSE <<e>>)
           S == ToSet(s)
<1>1. s \in Seq(S)
  OBVIOUS
<1> HIDE DEF S
<1>2. CASE d = {}
  <2>1. t = s
    BY <1>1, <1>2
  <2> HIDE DEF t
  <2>2. QED
    BY <1>2, <2>1 DEF Adds
<1>3. CASE d # {}
  <2>1. t = Append(s, e)
    BY <1>1, <1>3
  <2> HIDE DEF t
  <2>2. /\ t \in Seq(S \cup {e}) /\ DOMAIN t = 1..(Len(s) + 1) /\ DOMAIN s = 1..Len(s) /\ Len(s) \in Nat
        /\ t[Len(s) + 1] = e /\ \A i \in DOMAIN s : t[i] = s[i]
    BY <1>1, <2>1, Appended
  <2>3. t \in Seq(ToSet(t))
    BY <2>2, OwnElements
  <2>4. DOMAIN s \subseteq DOMAIN t /\ Len(s) + 1 \in DOMAIN t \ DOMAIN s
    BY <2>2
  <2>5. \A i \in DOMAIN t \ DOMAIN s : i = Len(s) + 1
    BY <2>2
  <2>6. Adds(s, t, d, e)
    BY <1>3, <2>2, <2>3, <2>4, <2>5 DEF Adds
  <2>7. QED
    BY <2>6 DEF t
<1>4. QED
  BY <1>2, <1>3

Arrives(n, sender, body, watched) ==
  /\ n = Len(sent) + 1 /\ capacity' = capacity
  /\ sent' = Append(sent, [body |-> body, sender |-> sender, watched |-> watched, open |-> TRUE])

LEMMA NewRequest ==
  ASSUME DriftTypes, NEW n, NEW sender, NEW body, NEW watched, Arrives(n, sender, body, watched)
  PROVE  /\ SameRequests /\ n \in Nat /\ n \notin DOMAIN sent /\ \A m \in DOMAIN sent : m < n
         /\ DOMAIN sent' = DOMAIN sent \cup {n} /\ sent' \in Seq(ToSet(sent'))
         /\ \A m \in DOMAIN sent : sent'[m] = sent[m]
         /\ sent'[n].body = body /\ sent'[n].sender = sender /\ sent'[n].watched = watched
         /\ DOMAIN sent'[n] = RequestFields
<1> DEFINE S == ToSet(sent)
           r == [body |-> body, sender |-> sender, watched |-> watched, open |-> TRUE]
<1>1. sent \in Seq(S)
  BY DEF DriftTypes
<1>2. r.body = body /\ r.sender = sender /\ r.watched = watched /\ DOMAIN r = RequestFields
  BY DEF RequestFields
<1>3. n = Len(sent) + 1 /\ sent' = Append(sent, r) /\ capacity' = capacity
  BY DEF Arrives
<1> HIDE DEF S, r
<1>4. /\ Append(sent, r) \in Seq(S \cup {r})
      /\ DOMAIN Append(sent, r) = 1..(Len(sent) + 1) /\ DOMAIN sent = 1..Len(sent) /\ Len(sent) \in Nat
      /\ Append(sent, r)[Len(sent) + 1] = r /\ \A i \in DOMAIN sent : Append(sent, r)[i] = sent[i]
  BY <1>1, Appended
<1>5. sent' \in Seq(ToSet(sent'))
  BY <1>3, <1>4, OwnElements
<1>6. /\ n \in Nat /\ n \notin DOMAIN sent /\ \A m \in DOMAIN sent : m < n
      /\ DOMAIN sent' = DOMAIN sent \cup {n}
  BY <1>3, <1>4
<1>7. (\A m \in DOMAIN sent : sent'[m] = sent[m]) /\ sent'[n] = r
  BY <1>3, <1>4
<1>8. SameRequests
  BY <1>3, <1>6, <1>7 DEF SameRequests
<1>9. QED
  BY <1>2, <1>5, <1>6, <1>7, <1>8

LEMMA NewSession ==
  ASSUME DriftTypes, NEW n, NEW sender, NEW body, NEW watched, Arrives(n, sender, body, watched)
  PROVE  /\ Session(n)' = SessionOf(sender) /\ Parent(n)' = derive_parent_bucket(sender)
         /\ Talk(n)' = conversation(sender, body)
         /\ Compared(n)' <=> ~is_ancillary_request(body) /\ is_stable_parent_bucket(derive_parent_bucket(sender))
         /\ Earlier(n)' = {m \in Watchable : Session(m) = SessionOf(sender)}
         /\ Compared(n)' => Earlier(n)' = {m \in Watchable : Parent(m) = derive_parent_bucket(sender)}
<1>1. sent'[n].body = body /\ sent'[n].sender = sender
  BY NewRequest
<1>2. Session(n)' = SessionOf(sender)
  BY <1>1 DEF Session, SessionOf
<1>3. Parent(n)' = derive_parent_bucket(sender) /\ Talk(n)' = conversation(sender, body)
  BY <1>1 DEF Parent, Talk
<1>4. Compared(n)' <=> SessionOf(sender) # NoSession /\ ~is_ancillary_request(body)
  BY <1>1, <1>2 DEF Compared, NoSession
<1>5. is_stable_parent_bucket(derive_parent_bucket(sender)) <=> SessionOf(sender) # NoSession
  BY Buckets
<1>6. Earlier(n)' = {m \in Watchable : Session(m) = SessionOf(sender)}
  <2>1. Earlier(n)' = {m \in 1..(n - 1) : Compared(m)' /\ Session(m)' = Session(n)'}
    BY DEF Earlier
  <2>2. 1..(n - 1) = DOMAIN sent
    <3>1. n = Len(sent) + 1
      BY DEF Arrives
    <3>2. DOMAIN sent = 1..Len(sent) /\ Len(sent) \in Nat
      BY RequestNumbers
    <3>3. QED
      BY <3>1, <3>2
  <2>3. \A m \in DOMAIN sent : (Compared(m)' <=> Compared(m)) /\ Session(m)' = Session(m)
    BY NewRequest, RequestsStay
  <2>4. QED
    BY <1>2, <2>1, <2>2, <2>3 DEF Watchable
<1>7. ASSUME Compared(n)', NEW m \in Watchable
      PROVE  Session(m) = SessionOf(sender) <=> Parent(m) = derive_parent_bucket(sender)
  <2>1. Session(m) = SessionOf(sent[m].sender) /\ Parent(m) = derive_parent_bucket(sent[m].sender)
    BY DEF Session, SessionOf, Parent
  <2>2. SessionOf(sent[m].sender) # NoSession
    BY <2>1 DEF Watchable, Compared, NoSession
  <2>3. QED
    BY <1>4, <1>7, <2>1, <2>2, Buckets
<1>8. QED
  BY <1>2, <1>3, <1>4, <1>5, <1>6, <1>7

LEMMA NewWatchable ==
  ASSUME DriftTypes, NEW n, NEW sender, NEW body, NEW watched, Arrives(n, sender, body, watched)
  PROVE  /\ \A m \in Watchable : /\ Parents'[m] = Parents[m] /\ Beginnings'[m] = Beginnings[m]
                                 /\ Talks'[m] = Talks[m] /\ Structures'[m] = Structures[m]
         /\ ~Compared(n)' => /\ Watchable' = Watchable /\ Parents' = Parents /\ Beginnings' = Beginnings
                             /\ Talks' = Talks /\ Structures' = Structures
         /\ Compared(n)' => /\ Watchable' = Watchable \cup {n}
                            /\ Parents'[n] = derive_parent_bucket(sender) /\ Beginnings'[n] = Prefix(body)
                            /\ Talks'[n] = conversation(sender, body) /\ Structures'[n] = structure(body)
<1>1. /\ DOMAIN sent' = DOMAIN sent \cup {n} /\ \A m \in DOMAIN sent : sent'[m] = sent[m]
      /\ sent'[n].body = body /\ n \notin DOMAIN sent
  BY NewRequest
<1>2. \A m \in DOMAIN sent : (Compared(m)' <=> Compared(m)) /\ Parent(m)' = Parent(m) /\ Talk(m)' = Talk(m)
  BY NewRequest, RequestsStay
<1>3. Watchable' = {m \in DOMAIN sent' : Compared(m)'}
  BY DEF Watchable
<1>4. /\ ~Compared(n)' => Watchable' = Watchable
      /\ Compared(n)' => Watchable' = Watchable \cup {n}
  BY <1>1, <1>2, <1>3 DEF Watchable
<1>5. \A m \in Watchable : m \in DOMAIN sent /\ m \in Watchable'
  BY <1>4 DEF Watchable
<1>6. /\ Parents' = [m \in Watchable' |-> Parent(m)'] /\ Beginnings' = [m \in Watchable' |-> Prefix(sent'[m].body)]
      /\ Talks' = [m \in Watchable' |-> Talk(m)'] /\ Structures' = [m \in Watchable' |-> structure(sent'[m].body)]
  BY DEF Parents, Beginnings, Talks, Structures
<1>7. \A m \in Watchable : /\ Parents'[m] = Parents[m] /\ Beginnings'[m] = Beginnings[m]
                           /\ Talks'[m] = Talks[m] /\ Structures'[m] = Structures[m]
  BY <1>1, <1>2, <1>5, <1>6 DEF Parents, Beginnings, Talks, Structures
<1>8. ASSUME ~Compared(n)'
      PROVE  /\ Parents' = Parents /\ Beginnings' = Beginnings /\ Talks' = Talks /\ Structures' = Structures
  <2>1. Watchable' = Watchable
    BY <1>4, <1>8
  <2>2. \A m \in Watchable : Parent(m)' = Parent(m) /\ sent'[m].body = sent[m].body /\ Talk(m)' = Talk(m)
    BY <1>1, <1>2, <1>5
  <2>3. QED
    BY <1>6, <2>1, <2>2 DEF Parents, Beginnings, Talks, Structures
<1>9. ASSUME Compared(n)'
      PROVE  /\ Parents'[n] = derive_parent_bucket(sender) /\ Beginnings'[n] = Prefix(body)
             /\ Talks'[n] = conversation(sender, body) /\ Structures'[n] = structure(body)
  <2>1. n \in Watchable'
    BY <1>4, <1>9
  <2>2. Parent(n)' = derive_parent_bucket(sender) /\ Talk(n)' = conversation(sender, body)
    BY NewSession
  <2>3. QED
    BY <1>1, <1>6, <2>1, <2>2
<1>10. QED
  BY <1>4, <1>7, <1>8, <1>9

LEMMA MapsRecent ==
  ASSUME DriftTypes, BaselinesRecent, HashesRecent,
         NEW n, NEW sender, NEW body, NEW watched, Arrives(n, sender, body, watched), Compared(n)',
         baselines' = put(baselines, derive_parent_bucket(sender), Prefix(body), n),
         hashes' = put(hashes, conversation(sender, body), structure(body), n)
  PROVE  BaselinesRecent' /\ HashesRecent'
<1>1. /\ Watchable \subseteq Nat /\ IsFiniteSet(Watchable) /\ \A m \in Watchable : m < n
      /\ n \in Nat /\ capacity \in Nat \ {0} /\ capacity' = capacity
  BY RequestNumbers, NewRequest DEF Watchable, DriftTypes, Arrives
<1>2. /\ \A m \in Watchable : /\ Parents'[m] = Parents[m] /\ Beginnings'[m] = Beginnings[m]
                              /\ Talks'[m] = Talks[m] /\ Structures'[m] = Structures[m]
      /\ Watchable' = Watchable \cup {n}
      /\ Parents'[n] = derive_parent_bucket(sender) /\ Beginnings'[n] = Prefix(body)
      /\ Talks'[n] = conversation(sender, body) /\ Structures'[n] = structure(body)
  BY NewWatchable
<1>3. Recent(capacity, baselines', Watchable', Parents', Beginnings')
  <2>1. Recent(capacity, baselines, Watchable, Parents, Beginnings)
    BY DEF BaselinesRecent
  <2>2. PutLater(baselines, Watchable, Parents, Beginnings, n, derive_parent_bucket(sender), Prefix(body), Parents', Beginnings')
    BY <1>1, <1>2, <2>1 DEF PutLater
  <2>3. Recent(capacity, put(baselines, derive_parent_bucket(sender), Prefix(body), n), Watchable \cup {n}, Parents', Beginnings')
    BY <2>2, PutRecent
  <2>4. QED
    BY <1>2, <2>3
<1>4. Recent(capacity, hashes', Watchable', Talks', Structures')
  <2>1. Recent(capacity, hashes, Watchable, Talks, Structures)
    BY DEF HashesRecent
  <2>2. PutLater(hashes, Watchable, Talks, Structures, n, conversation(sender, body), structure(body), Talks', Structures')
    BY <1>1, <1>2, <2>1 DEF PutLater
  <2>3. Recent(capacity, put(hashes, conversation(sender, body), structure(body), n), Watchable \cup {n}, Talks', Structures')
    BY <2>2, PutRecent
  <2>4. QED
    BY <1>2, <2>3
<1>5. QED
  BY <1>1, <1>3, <1>4 DEF BaselinesRecent, HashesRecent

\* Two requests offer the same tools exactly when they have the same prints.
LEMMA SamePrints ==
  ASSUME NEW a \in Bodies, NEW b \in Bodies
  PROVE  /\ Prefix(a)["system"] = extract_system(a)
         /\ Prefix(a)["tools"] = Prefix(b)["tools"] <=> SameTools(a, b)
<1> DEFINE A == [i \in DOMAIN a.tools |-> stable_tool_fingerprint(a.tools[i])]
           B == [i \in DOMAIN b.tools |-> stable_tool_fingerprint(b.tools[i])]
           Equal(i) == \A t \in {Silent(tool) : tool \in ToSet(a.tools[i]) \cup ToSet(b.tools[i])} :
                         Times(a.tools[i], t) = Times(b.tools[i], t)
<1>1. Prefix(a)["system"] = extract_system(a) /\ Prefix(a)["tools"] = A /\ Prefix(b)["tools"] = B
  BY DEF Prefix, structure
<1>2. /\ \A i \in DOMAIN a.tools : a.tools[i] \in Seq(Tool)
      /\ \A i \in DOMAIN b.tools : b.tools[i] \in Seq(Tool)
  BY BodiesAssumption
<1>3. SameTools(a, b) <=> DOMAIN a.tools = DOMAIN b.tools /\ \A i \in DOMAIN a.tools : Equal(i)
  BY DEF SameTools
<1>4. DOMAIN a.tools = DOMAIN b.tools =>
        \A i \in DOMAIN a.tools : stable_tool_fingerprint(a.tools[i]) = stable_tool_fingerprint(b.tools[i]) <=> Equal(i)
  BY <1>2, Fingerprints
<1> HIDE DEF Equal
<1>5. A = B <=> /\ DOMAIN a.tools = DOMAIN b.tools
                /\ \A i \in DOMAIN a.tools : stable_tool_fingerprint(a.tools[i]) = stable_tool_fingerprint(b.tools[i])
  <2>1. DOMAIN A = DOMAIN a.tools /\ DOMAIN B = DOMAIN b.tools
    OBVIOUS
  <2>2. /\ \A i \in DOMAIN a.tools : A[i] = stable_tool_fingerprint(a.tools[i])
        /\ \A i \in DOMAIN b.tools : B[i] = stable_tool_fingerprint(b.tools[i])
    OBVIOUS
  <2>3. ASSUME DOMAIN a.tools = DOMAIN b.tools,
               \A i \in DOMAIN a.tools : stable_tool_fingerprint(a.tools[i]) = stable_tool_fingerprint(b.tools[i])
        PROVE  A = B
    BY <2>3
  <2> HIDE DEF A, B
  <2>4. A = B => /\ DOMAIN a.tools = DOMAIN b.tools
                 /\ \A i \in DOMAIN a.tools : stable_tool_fingerprint(a.tools[i]) = stable_tool_fingerprint(b.tools[i])
    <3>1. SUFFICES ASSUME A = B
                   PROVE  /\ DOMAIN a.tools = DOMAIN b.tools
                          /\ \A i \in DOMAIN a.tools : stable_tool_fingerprint(a.tools[i]) = stable_tool_fingerprint(b.tools[i])
      OBVIOUS
    <3>2. DOMAIN a.tools = DOMAIN b.tools
      BY <2>1, <3>1
    <3>3. \A i \in DOMAIN a.tools : A[i] = B[i]
      BY <3>1
    <3>4. QED
      BY <2>2, <3>2, <3>3
  <2>5. QED
    BY <2>3, <2>4
<1> HIDE DEF A, B
<1>6. QED
  BY <1>1, <1>3, <1>4, <1>5

\* The last request of its session is the one whose prefix the baseline keeps.
LEMMA NewAnnounced ==
  ASSUME DriftTypes, BaselinesRecent, NEW n, NEW sender, NEW body \in Bodies, NEW watched,
         Arrives(n, sender, body, watched), Compared(n)',
         Warned(n)' <=> parent_dims(derive_parent_bucket(sender), structure(body)) # {}
  PROVE  Announced(n)'
<1> DEFINE p == derive_parent_bucket(sender)
           E == {m \in Watchable : Parent(m) = p}
<1>1. Earlier(n)' = E
  BY NewSession
<1>2. /\ \A k \in DOMAIN baselines :
           /\ baselines[k].at \in Watchable /\ Parents[baselines[k].at] = k
           /\ baselines[k].value = Beginnings[baselines[k].at]
           /\ \A m \in Watchable : m > baselines[k].at => Parents[m] # k
      /\ \A m \in Watchable : Parents[m] \notin DOMAIN baselines =>
           Cardinality({Parents[j] : j \in {j \in Watchable : m <= j}}) > capacity
  BY DEF BaselinesRecent, Recent
<1>3. \A m \in Watchable : Parents[m] = Parent(m) /\ Beginnings[m] = Prefix(sent[m].body) /\ m \in DOMAIN sent
  BY DEF Parents, Beginnings, Watchable
<1>4. parent_dims(p, structure(body)) # {} <=>
        p \in DOMAIN baselines /\ \/ baselines[p].value["system"] # Prefix(body)["system"]
                                  \/ baselines[p].value["tools"] # Prefix(body)["tools"]
  <2>1. Prefix(body)["system"] = structure(body)["system"] /\ Prefix(body)["tools"] = structure(body)["tools"]
    BY DEF Prefix
  <2>2. parent_dims(p, structure(body)) =
          {dim \in {"system", "tools"} : p \in DOMAIN baselines /\ baselines[p].value[dim] # structure(body)[dim]}
    BY DEF parent_dims
  <2> HIDE DEF p
  <2>3. QED
    BY <2>1, <2>2
<1> HIDE DEF p
<1>5. ASSUME p \in DOMAIN baselines
      PROVE  baselines[p].at \in E
  BY <1>2, <1>3, <1>5
<1>6. ASSUME NEW last \in E, \A k \in E : k <= last, Fit(last, n)'
      PROVE  Changed(n, last)' <=> Warned(n)'
  <2>1. last \in Watchable /\ Parents[last] = p
    BY <1>3
  <2>2. Watchable \subseteq Nat /\ IsFiniteSet(Watchable) /\ capacity \in Nat /\ capacity' = capacity
    BY RequestNumbers DEF DriftTypes, Arrives
  <2>3. p \in DOMAIN baselines
    <3> DEFINE J == {j \in Watchable : last <= j}
               f == [j \in Watchable |-> Session(j)]
               K == {k \in last..n : Compared(k)'}
               fK == [k \in K |-> Session(k)']
    <3>1. J \in SUBSET Watchable
      OBVIOUS
    <3>2. IsFiniteSet(J)
      BY <2>2, <3>1, FS_Subset
    <3>3. \A x, y \in J : f[x] = f[y] => Parents[x] = Parents[y]
      BY <1>3, SessionsApart
    <3>4. \A j \in J : j \in K /\ f[j] = fK[j]
      <4>1. TAKE j \in J
      <4>2. j \in DOMAIN sent /\ Compared(j) /\ j \in Nat /\ last <= j
        BY <2>2 DEF Watchable
      <4>3. Compared(j)' /\ Session(j)' = Session(j) /\ j < n /\ n \in Nat
        BY <4>2, NewRequest, RequestsStay
      <4>4. last \in Nat
        BY <2>1, <2>2
      <4>5. QED
        BY <4>2, <4>3, <4>4
    <3>5. IsFiniteSet(K)
      <4>1. last \in Nat /\ n \in Nat
        BY <2>1, <2>2, NewRequest
      <4>2. IsFiniteSet(last..n)
        BY <4>1, FS_Interval
      <4>3. K \in SUBSET (last..n)
        OBVIOUS
      <4> HIDE DEF K
      <4>4. QED
        BY <4>2, <4>3, FS_Subset
    <3>6. {Session(k)' : k \in {k \in last..n : Compared(k)'}} = {fK[k] : k \in K}
      OBVIOUS
    <3>7. Fit(last, n)' <=> Cardinality({Session(k)' : k \in {k \in last..n : Compared(k)'}}) <= capacity'
      BY DEF Fit
    <3>8. Cardinality({fK[k] : k \in K}) <= capacity
      BY <1>6, <2>2, <3>6, <3>7
    <3> HIDE DEF J, K, f, fK
    <3>9. \A w \in {f[j] : j \in J} : w \in {fK[k] : k \in K}
      BY <3>4
    <3>10. Cardinality({Parents[j] : j \in J}) <= Cardinality({f[j] : j \in J})
      BY ONLY <3>2, <3>3, FewerValues
    <3>11. IsFiniteSet({fK[k] : k \in K}) /\ Cardinality({fK[k] : k \in K}) \in Nat
      BY ONLY <3>5, FiniteValues
    <3>12. IsFiniteSet({f[j] : j \in J}) /\ Cardinality({f[j] : j \in J}) \in Nat
      BY ONLY <3>2, FiniteValues
    <3>13. IsFiniteSet({Parents[j] : j \in J}) /\ Cardinality({Parents[j] : j \in J}) \in Nat
      BY ONLY <3>2, FiniteValues
    <3> DEFINE F == {f[j] : j \in J}
               G == {fK[k] : k \in K}
    <3>14. Cardinality(F) <= Cardinality(G)
      <4>1. IsFiniteSet(G) /\ \A w \in F : w \in G
        BY <3>9, <3>11
      <4> HIDE DEF F, G
      <4>2. F \in SUBSET G
        BY <4>1
      <4>3. QED
        BY <4>1, <4>2, FS_Subset
    <3>15. ~ (Cardinality({Parents[j] : j \in J}) > capacity)
      BY <2>2, <3>8, <3>10, <3>11, <3>12, <3>13, <3>14
    <3>16. Parents[last] \in DOMAIN baselines
      BY <1>2, <2>1, <3>15 DEF J
    <3>17. QED
      BY <2>1, <3>16
  <2>4. baselines[p].at = last
    <3>1. baselines[p].at \in E
      BY <1>5, <2>3
    <3>2. baselines[p].at <= last /\ ~ (last > baselines[p].at)
      BY <1>2, <1>6, <2>1, <2>3, <3>1
    <3>3. baselines[p].at \in Nat /\ last \in Nat
      BY <2>1, <2>2, <3>1
    <3>4. QED
      BY <3>2, <3>3
  <2>5. baselines[p].value = Prefix(sent[last].body)
    BY <1>2, <1>3, <2>1, <2>3, <2>4
  <2>6. sent[last].body \in Bodies /\ sent'[last].body = sent[last].body /\ sent'[n].body = body
    <3>1. last \in DOMAIN sent
      BY <1>3, <2>1
    <3>2. sent[last].body \in Bodies
      BY <3>1 DEF DriftTypes, Registered
    <3>3. sent'[last] = sent[last] /\ sent'[n].body = body
      BY <3>1, NewRequest
    <3>4. QED
      BY <3>2, <3>3
  <2>7. Changed(n, last)' <=> \/ extract_system(body) # extract_system(sent[last].body)
                              \/ ~SameTools(body, sent[last].body)
    BY <2>6 DEF Changed
  <2>8. /\ Prefix(body)["system"] = extract_system(body)
        /\ Prefix(sent[last].body)["system"] = extract_system(sent[last].body)
        /\ Prefix(body)["tools"] = Prefix(sent[last].body)["tools"] <=> SameTools(body, sent[last].body)
    BY <2>6, SamePrints
  <2>9. Warned(n)' <=> \/ Prefix(sent[last].body)["system"] # Prefix(body)["system"]
                       \/ Prefix(sent[last].body)["tools"] # Prefix(body)["tools"]
    BY <1>4, <2>3, <2>5 DEF p
  <2>10. QED
    BY <2>7, <2>8, <2>9
<1>7. E = {} => ~Warned(n)'
  BY <1>4, <1>5 DEF p
<1> HIDE DEF E
<1>8. /\ Earlier(n)' = {} => ~Warned(n)'
      /\ \A last \in Earlier(n)' :
           (\A k \in Earlier(n)' : k <= last) /\ Fit(last, n)' => (Changed(n, last)' <=> Warned(n)')
  BY <1>1, <1>6, <1>7
<1>9. QED
  BY <1>8 DEF Announced

\* A conversation that is not held was not seen, or so many were seen since.
LEMMA NewKnown ==
  ASSUME DriftTypes, HashesRecent, NEW n, NEW sender, NEW body \in Bodies, NEW watched,
         Arrives(n, sender, body, watched), Compared(n)',
         \A i \in Of("parent", n)' : log'[i].rotated <=> conversation(sender, body) \notin DOMAIN hashes
  PROVE  Known(n)'
<1> DEFINE c == conversation(sender, body)
<1>1. Earlier(n)' = {m \in Watchable : Parent(m) = derive_parent_bucket(sender)}
  BY NewSession
<1>2. /\ \A k \in DOMAIN hashes : hashes[k].at \in Watchable /\ Talks[hashes[k].at] = k
      /\ \A m \in Watchable : Talks[m] \notin DOMAIN hashes =>
           Cardinality({Talks[j] : j \in {j \in Watchable : m <= j}}) > capacity
  BY DEF HashesRecent, Recent
<1>3. ASSUME NEW m \in Watchable
      PROVE  /\ Talks[m] = Talk(m) /\ m \in DOMAIN sent /\ m \in Nat
             /\ Talks[m] = c <=> Parent(m) = derive_parent_bucket(sender) /\ Opens(m, n)'
  <2>1. Talks[m] = conversation(sent[m].sender, sent[m].body) /\ Talks[m] = Talk(m) /\ m \in DOMAIN sent
    BY DEF Talks, Talk, Watchable
  <2>2. sent[m].body \in Bodies /\ m \in Nat
    BY <2>1, RequestNumbers DEF DriftTypes, Registered
  <2>3. Opens(m, n)' <=> SameStart(sent[m].body, body)
    <3>1. sent'[m] = sent[m] /\ sent'[n].body = body
      BY <2>1, NewRequest
    <3>2. QED
      BY <3>1 DEF Opens
  <2>4. conversation(sent[m].sender, sent[m].body) = conversation(sender, body) <=>
          derive_parent_bucket(sent[m].sender) = derive_parent_bucket(sender) /\ SameStart(sent[m].body, body)
    BY <2>2, SameTalk
  <2>5. QED
    BY <2>1, <2>2, <2>3, <2>4 DEF Parent
<1> HIDE DEF c
<1>4. ASSUME c \notin DOMAIN hashes, NEW m \in Earlier(n)', Opens(m, n)', TalksFit(m, n)'
      PROVE  FALSE
  <2> DEFINE J == {j \in Watchable : m <= j}
             K == {k \in m..n : Compared(k)'}
             fK == [k \in K |-> Talk(k)']
  <2>1. m \in Watchable /\ m \in Nat /\ Talks[m] = c
    BY <1>1, <1>3, <1>4
  <2>2. Cardinality({Talks[j] : j \in J}) > capacity
    BY <1>2, <1>4, <2>1
  <2>3. n \in Nat /\ capacity' = capacity /\ capacity \in Nat
    BY NewRequest DEF Arrives, DriftTypes
  <2>4. \A j \in J : j \in K /\ Talks[j] = fK[j]
    <3>1. TAKE j \in J
    <3>2. j \in DOMAIN sent /\ Compared(j) /\ j \in Nat /\ m <= j /\ Talks[j] = Talk(j)
      BY <1>3 DEF Watchable
    <3>3. Compared(j)' /\ Talk(j)' = Talk(j) /\ j < n
      BY <3>2, NewRequest, RequestsStay
    <3>4. QED
      BY <2>1, <2>3, <3>2, <3>3
  <2>5. IsFiniteSet(K)
    <3>1. IsFiniteSet(m..n)
      BY <2>1, <2>3, FS_Interval
    <3>2. K \in SUBSET (m..n)
      OBVIOUS
    <3> HIDE DEF K
    <3>3. QED
      BY <3>1, <3>2, FS_Subset
  <2>6. TalksFit(m, n)' <=> Cardinality({Talk(k)' : k \in {k \in m..n : Compared(k)'}}) <= capacity'
    BY DEF TalksFit
  <2>7. {Talk(k)' : k \in {k \in m..n : Compared(k)'}} = {fK[k] : k \in K}
    OBVIOUS
  <2>8. Cardinality({fK[k] : k \in K}) <= capacity
    BY <1>4, <2>3, <2>6, <2>7
  <2> HIDE DEF J, K, fK
  <2>9. IsFiniteSet({fK[k] : k \in K}) /\ Cardinality({fK[k] : k \in K}) \in Nat
    BY ONLY <2>5, FiniteValues
  <2> DEFINE F == {Talks[j] : j \in J}
             G == {fK[k] : k \in K}
  <2>10. IsFiniteSet(G) /\ \A w \in F : w \in G
    BY <2>4, <2>9
  <2>11. Cardinality(F) > capacity /\ Cardinality(G) <= capacity /\ Cardinality(G) \in Nat
    BY <2>2, <2>8, <2>9
  <2> HIDE DEF F, G
  <2>12. F \in SUBSET G
    BY <2>10
  <2>13. IsFiniteSet(F) /\ Cardinality(F) <= Cardinality(G)
    BY <2>10, <2>12, FS_Subset
  <2>14. Cardinality(F) \in Nat
    BY <2>13, FS_CardinalityType
  <2>15. QED
    BY <2>3, <2>11, <2>13, <2>14
<1>5. ASSUME \A m \in Earlier(n)' : ~Opens(m, n)'
      PROVE  c \notin DOMAIN hashes
  <2>1. SUFFICES ASSUME c \in DOMAIN hashes PROVE FALSE
    OBVIOUS
  <2>2. hashes[c].at \in Watchable /\ Talks[hashes[c].at] = c
    BY <1>2, <2>1
  <2>3. QED
    BY <1>1, <1>3, <1>5, <2>2
<1>6. \A i \in Of("parent", n)' :
        /\ log'[i].rotated => \A m \in Earlier(n)' : Opens(m, n)' => ~TalksFit(m, n)'
        /\ (\A m \in Earlier(n)' : ~Opens(m, n)') => log'[i].rotated
  BY <1>4, <1>5 DEF c
<1>7. QED
  BY <1>6 DEF Known

\* What a request that arrives gives rise to: reports of it, and a warning if
\* some dimensions of its prefix differ.
Reports(n, dims) ==
  /\ log' \in Seq(ToSet(log')) /\ DOMAIN log \subseteq DOMAIN log'
  /\ \A i \in DOMAIN log : log'[i] = log[i]
  /\ \A i \in DOMAIN log' \ DOMAIN log : log'[i].of = n /\ log'[i].scope \in {"parent", "conversation"}
  /\ \A i \in Of("parent", n)' : log'[i].dims = dims
  /\ dims # {} <=> Of("parent", n)' # {}

LEMMA ArrivalKeepsTypes ==
  ASSUME DriftTypes, NEW n, NEW sender, NEW body \in Bodies, NEW watched \in BOOLEAN, NEW dims,
         Arrives(n, sender, body, watched), Reports(n, dims), watched <=> dims # {}, dims # {} => Compared(n)'
  PROVE  /\ SameReports /\ DriftTypes' /\ (Warned(n)' <=> dims # {})
         /\ \A m \in DOMAIN sent : Of("usage", m)' = Of("usage", m)
         /\ Of("usage", n)' = {}
<1>1. /\ SameRequests /\ n \notin DOMAIN sent /\ DOMAIN sent' = DOMAIN sent \cup {n}
      /\ sent' \in Seq(ToSet(sent')) /\ (\A m \in DOMAIN sent : sent'[m] = sent[m])
      /\ sent'[n].body = body /\ sent'[n].watched = watched /\ DOMAIN sent'[n] = RequestFields
  BY NewRequest
<1>2. /\ log' \in Seq(ToSet(log')) /\ DOMAIN log \subseteq DOMAIN log'
      /\ \A i \in DOMAIN log : log'[i] = log[i]
      /\ \A i \in DOMAIN log' \ DOMAIN log : log'[i].of = n /\ log'[i].scope # "usage"
      /\ dims # {} <=> Of("parent", n)' # {}
  BY DEF Reports
<1>3. SameReports
  BY <1>1, <1>2 DEF SameReports
<1>4. \A m \in DOMAIN sent : /\ Of("parent", m)' = Of("parent", m) /\ (Warned(m)' <=> Warned(m))
                             /\ Session(m)' = Session(m) /\ (Compared(m)' <=> Compared(m))
  BY <1>1, <1>3, ReportsStay, RequestsStay
<1>5. Warned(n)' <=> dims # {}
  BY <1>2 DEF Warned
<1>6. /\ sent \in Seq(ToSet(sent)) /\ capacity \in Nat \ {0}
      /\ (\A m \in DOMAIN sent : Registered(m)) /\ \A i \in DOMAIN log : Founded(log[i])
  BY DEF DriftTypes
<1>7. \A m : \A i : i \in Of("usage", m)' <=> i \in Of("usage", m)
  <2>1. \A m : \A i : /\ i \in Of("usage", m) <=> i \in DOMAIN log /\ log[i].scope = "usage" /\ log[i].of = m
                      /\ i \in Of("usage", m)' <=> i \in DOMAIN log' /\ log'[i].scope = "usage" /\ log'[i].of = m
    BY DEF Of
  <2>2. QED
    BY <1>2, <2>1
<1>8. \A m : Of("usage", m)' = Of("usage", m)
  BY <1>7 DEF Of
<1>9. Of("usage", n)' = {}
  <2>1. \A i \in Of("usage", n) : i \in DOMAIN log /\ log[i].of = n
    BY DEF Of
  <2>2. \A i \in DOMAIN log : log[i].of \in DOMAIN sent
    BY <1>6 DEF Founded
  <2>3. QED
    BY <1>1, <1>8, <2>1, <2>2
<1>10. \A m \in DOMAIN sent' : Registered(m)'
  <2>1. TAKE m \in DOMAIN sent'
  <2>2. CASE m = n
    BY <1>1, <1>5, <2>2 DEF Registered
  <2>3. CASE m \in DOMAIN sent
    <3>1. Registered(m)
      BY <1>6, <2>3
    <3>2. sent'[m] = sent[m] /\ (Warned(m)' <=> Warned(m)) /\ (Compared(m)' <=> Compared(m))
      BY <1>1, <1>4, <2>3
    <3>3. QED
      BY <3>1, <3>2 DEF Registered
  <2>4. QED
    BY <1>1, <2>2, <2>3
<1>11. \A i \in DOMAIN log' : Founded(log[i])'
  <2>1. SUFFICES ASSUME NEW i \in DOMAIN log'
                 PROVE  Founded(log[i])'
    OBVIOUS
  <2>2. PICK e : e = log'[i]
    OBVIOUS
  <2>3. Founded(e)'
    <3>1. CASE i \notin DOMAIN log
      BY <1>1, <1>2, <2>2, <3>1 DEF Founded
    <3>2. CASE i \in DOMAIN log
      <4>1. e = log[i]
        BY <1>2, <2>2, <3>2
      <4>2. Founded(e)
        BY <1>6, <3>2, <4>1
      <4>3. e.of \in DOMAIN sent /\ e.of \in DOMAIN sent'
        BY <1>1, <4>2 DEF Founded
      <4>4. ASSUME e.scope = "usage"
            PROVE  /\ e.by \in DOMAIN sent' /\ Warned(e.by)' /\ Session(e.by)' = Session(e.of)'
                   /\ \E w \in Of("parent", e.of)' : e.dims = log'[w].dims
        <5>1. /\ e.by \in DOMAIN sent /\ Warned(e.by) /\ Session(e.by) = Session(e.of)
              /\ \E w \in Of("parent", e.of) : e.dims = log[w].dims
          BY <4>2, <4>4 DEF Founded
        <5>2. PICK w \in Of("parent", e.of) : e.dims = log[w].dims
          BY <5>1
        <5>3. w \in DOMAIN log
          BY DEF Of
        <5>4. w \in Of("parent", e.of)' /\ log'[w] = log[w]
          BY <1>2, <1>4, <4>3, <5>3
        <5>5. Warned(e.by)' /\ Session(e.by)' = Session(e.by) /\ Session(e.of)' = Session(e.of)
          BY <1>4, <4>3, <5>1
        <5>6. QED
          BY <1>1, <5>1, <5>2, <5>4, <5>5
      <4>5. QED
        BY <4>3, <4>4 DEF Founded
    <3>3. QED
      BY <3>1, <3>2
  <2>4. QED
    BY <2>2, <2>3
<1>12. capacity' \in Nat \ {0}
  BY <1>1, <1>6 DEF SameRequests
<1>13. DriftTypes'
  BY <1>1, <1>2, <1>10, <1>11, <1>12 DEF DriftTypes
<1>14. QED
  BY <1>3, <1>5, <1>8, <1>9, <1>13

\* What a map holds was put into it.
LEMMA PutHolds ==
  ASSUME NEW lru, NEW k, NEW v, NEW n, IsFiniteSet(DOMAIN lru)
  PROVE  /\ IsFiniteSet(DOMAIN put(lru, k, v, n)) /\ DOMAIN put(lru, k, v, n) \subseteq DOMAIN lru \cup {k}
         /\ \A q \in DOMAIN put(lru, k, v, n) :
              put(lru, k, v, n)[q] = IF q = k THEN [value |-> v, at |-> n] ELSE lru[q]
<1> DEFINE all == PutAll(lru, k, v, n)
           oldest == CHOOSE o \in DOMAIN all : \A q \in DOMAIN all : all[o].at <= all[q].at
<1>1. put(lru, k, v, n) = IF Cardinality(DOMAIN all) > capacity THEN without(all, oldest) ELSE all
  BY DEF put, PutAll
<1>2. DOMAIN all = DOMAIN lru \cup {k} /\ \A q \in DOMAIN all : all[q] = IF q = k THEN [value |-> v, at |-> n] ELSE lru[q]
  BY DEF PutAll
<1>3. IsFiniteSet(DOMAIN all)
  BY <1>2, FS_AddElement
<1> HIDE DEF all, oldest
<1>4. DOMAIN without(all, oldest) = DOMAIN all \ {oldest} /\ \A q \in DOMAIN all \ {oldest} : without(all, oldest)[q] = all[q]
  BY DEF without
<1>5. IsFiniteSet(DOMAIN all \ {oldest})
  BY <1>3, FS_Difference
<1>6. CASE put(lru, k, v, n) = all
  BY <1>2, <1>3, <1>6
<1>7. CASE put(lru, k, v, n) = without(all, oldest)
  BY <1>2, <1>4, <1>5, <1>7
<1>8. QED
  BY <1>1, <1>6, <1>7

\* What a request that arrives does to the warnings that await their usage.
LEMMA ArrivalKeepsPendings ==
  ASSUME DriftTypes, PendingsAwait,
         NEW n, NEW sender, NEW body \in Bodies, NEW watched \in BOOLEAN, NEW dims,
         Arrives(n, sender, body, watched), Reports(n, dims), watched <=> dims # {}, dims # {} => Compared(n)',
         pendings' = IF dims = {} THEN pendings
                     ELSE put(pendings, derive_parent_bucket(sender), [of |-> n, dims |-> dims], n)
  PROVE  PendingsAwait'
<1> DEFINE P == derive_parent_bucket(sender)
           warning == [of |-> n, dims |-> dims]
           W == {m \in DOMAIN sent' : Warned(m)'}
           f == [m \in W |-> Session(m)']
           g == [m \in W |-> Parent(m)']
           Found == {f[m] : m \in W}
           Named == {g[m] : m \in W}
<1>1. /\ IsFiniteSet(DOMAIN pendings)
      /\ \A p \in DOMAIN pendings : Awaits(p, pendings[p].value)
      /\ \A m \in DOMAIN sent : Owed(m) => Waiting(m)
  BY DEF PendingsAwait
<1>2. /\ SameReports /\ (Warned(n)' <=> dims # {}) /\ Of("usage", n)' = {}
      /\ \A m \in DOMAIN sent : Of("usage", m)' = Of("usage", m)
  BY ArrivalKeepsTypes
<1>3. /\ SameRequests /\ n \notin DOMAIN sent /\ DOMAIN sent' = DOMAIN sent \cup {n}
      /\ (\A m \in DOMAIN sent : sent'[m] = sent[m])
      /\ sent'[n].watched = watched /\ Parent(n)' = P
  BY NewRequest, NewSession
<1>4. \A m \in DOMAIN sent : /\ Of("parent", m)' = Of("parent", m) /\ (Warned(m)' <=> Warned(m))
                             /\ Session(m)' = Session(m) /\ Parent(m)' = Parent(m)
  BY <1>2, <1>3, ReportsStay, RequestsStay
<1>5. \A m \in DOMAIN sent : Warned(m) => Compared(m)
  BY DEF DriftTypes, Registered
<1>6. \A m \in DOMAIN sent : Warned(m) /\ dims # {} => (Session(m) = Session(n)' <=> Parent(m) = P)
  <2>1. SUFFICES ASSUME NEW m \in DOMAIN sent, Warned(m), dims # {}
                 PROVE  Session(m) = Session(n)' <=> Parent(m) = P
    OBVIOUS
  <2>2. m \in Watchable
    BY <1>5, <2>1 DEF Watchable
  <2>3. /\ Session(n)' = SessionOf(sender)
        /\ Earlier(n)' = {k \in Watchable : Session(k) = SessionOf(sender)}
        /\ Earlier(n)' = {k \in Watchable : Parent(k) = P}
    BY <2>1, NewSession
  <2> HIDE DEF P
  <2>4. QED
    BY <2>2, <2>3
<1>7. IsFiniteSet(W) /\ W \subseteq DOMAIN sent \cup {n}
  <2>1. IsFiniteSet(DOMAIN sent \cup {n})
    BY RequestNumbers, FS_AddElement
  <2>2. W \in SUBSET (DOMAIN sent \cup {n})
    BY <1>3
  <2> HIDE DEF W
  <2>3. QED
    BY <2>1, <2>2, FS_Subset
<1>8. Warners' = Found
  BY DEF Warners
<1>9. \A x, y \in W : f[x] = f[y] => g[x] = g[y]
  <2>1. TAKE x, y \in W
  <2>2. f[x] = Session(x)' /\ f[y] = Session(y)' /\ g[x] = Parent(x)' /\ g[y] = Parent(y)'
    OBVIOUS
  <2>3. Warned(x)' /\ Warned(y)' /\ x \in DOMAIN sent \cup {n} /\ y \in DOMAIN sent \cup {n}
    BY <1>3
  <2> HIDE DEF f, g, W, P
  <2>4. CASE x \in DOMAIN sent /\ y \in DOMAIN sent
    <3>1. Warned(x) /\ Warned(y) /\ Session(x)' = Session(x) /\ Session(y)' = Session(y) /\ Parent(x)' = Parent(x) /\ Parent(y)' = Parent(y)
      BY <1>4, <2>3, <2>4
    <3>2. x \in Watchable /\ y \in Watchable
      BY <1>5, <2>4, <3>1 DEF Watchable
    <3>3. Session(x) = Session(y) <=> Parent(x) = Parent(y)
      BY <3>2, SessionsApart
    <3>4. QED
      BY <2>2, <3>1, <3>3
  <2>5. CASE x = n \/ y = n
    BY <1>2, <1>3, <1>4, <1>6, <2>2, <2>3, <2>5
  <2>6. QED
    BY <2>3, <2>4, <2>5
<1>10. \A p \in DOMAIN pendings : p \in Named
  <2>1. TAKE p \in DOMAIN pendings
  <2>2. Awaits(p, pendings[p].value)
    BY <1>1
  <2>3. PICK m : m = pendings[p].value.of
    OBVIOUS
  <2>4. m \in DOMAIN sent /\ Parent(m) = p /\ Warned(m)
    BY <2>2, <2>3 DEF Awaits, Warned
  <2>5. m \in W /\ g[m] = p
    BY <1>3, <1>4, <2>4
  <2>6. QED
    BY <2>5
<1>11. dims # {} => P \in Named
  <2>1. dims # {} => n \in W /\ g[n] = P
    BY <1>2, <1>3
  <2>2. QED
    BY <2>1
<1>12. /\ IsFiniteSet(Found) /\ Cardinality(Found) \in Nat /\ IsFiniteSet(Named) /\ Cardinality(Named) \in Nat
       /\ Cardinality(Named) <= Cardinality(Found)
  <2> HIDE DEF W, f, g
  <2>1. IsFiniteSet(Found) /\ Cardinality(Found) \in Nat /\ IsFiniteSet(Named) /\ Cardinality(Named) \in Nat
    BY <1>7, FiniteValues
  <2>2. Cardinality(Named) <= Cardinality(Found)
    BY ONLY <1>7, <1>9, FewerValues
  <2>3. QED
    BY <2>1, <2>2
<1>13. capacity' = capacity /\ capacity \in Nat
  BY DEF DriftTypes, Arrives
<1>14. \A s \in Warners : s \in Found
  <2>1. \A m \in DOMAIN sent : Warned(m) => m \in W /\ f[m] = Session(m)
    BY <1>3, <1>4
  <2> HIDE DEF W, f
  <2>2. QED
    BY <2>1 DEF Warners
<1> HIDE DEF W, f, g, Found, Named, P, warning
<1>15. ASSUME dims # {}, Cardinality(Found) <= capacity
       PROVE  pendings' = PutAll(pendings, P, warning, n)
  <2> DEFINE D == DOMAIN pendings \cup {P}
  <2>1. D \in SUBSET Named
    BY <1>10, <1>11, <1>15
  <2> HIDE DEF D
  <2>2. IsFiniteSet(D) /\ Cardinality(D) <= Cardinality(Named)
    BY <1>12, <2>1, FS_Subset
  <2>3. Cardinality(D) \in Nat
    BY <2>2, FS_CardinalityType
  <2>4. Cardinality(D) <= capacity
    BY <1>12, <1>13, <1>15, <2>2, <2>3
  <2>5. put(pendings, P, warning, n) = PutAll(pendings, P, warning, n)
    BY <1>1, <1>13, <2>4, PutFits DEF D
  <2>6. QED
    BY <1>15, <2>5 DEF P, warning
<1>16. IsFiniteSet(DOMAIN pendings') /\ \A p \in DOMAIN pendings' :
          \/ p \in DOMAIN pendings /\ pendings'[p] = pendings[p]
          \/ dims # {} /\ p = P /\ pendings'[p] = [value |-> warning, at |-> n]
  <2>1. CASE dims = {}
    BY <1>1, <2>1
  <2>2. CASE dims # {}
    <3>1. pendings' = put(pendings, P, warning, n)
      BY <2>2 DEF P, warning
    <3>2. QED
      BY <1>1, <2>2, <3>1, PutHolds
  <2>3. QED
    BY <2>1, <2>2
<1>17. \A p \in DOMAIN pendings' : Awaits(p, pendings[p].value)'
  <2>1. SUFFICES ASSUME NEW p \in DOMAIN pendings'
                 PROVE  Awaits(p, pendings[p].value)'
    OBVIOUS
  <2>2. PICK v : v = pendings'[p].value
    OBVIOUS
  <2>3. Awaits(p, v)'
    <3>1. CASE p \in DOMAIN pendings /\ pendings'[p] = pendings[p]
      <4>1. Awaits(p, v)
        BY <1>1, <2>2, <3>1
      <4>2. v.of \in DOMAIN sent
        BY <4>1 DEF Awaits
      <4>3. /\ Parent(v.of)' = Parent(v.of) /\ Of("usage", v.of)' = Of("usage", v.of)
            /\ Of("parent", v.of)' = Of("parent", v.of) /\ v.of \in DOMAIN sent'
        BY <1>2, <1>3, <1>4, <4>2
      <4>4. \A w \in Of("parent", v.of) : log'[w] = log[w]
        BY <1>2 DEF Of, SameReports
      <4>5. QED
        BY <4>1, <4>3, <4>4 DEF Awaits
    <3>2. CASE dims # {} /\ p = P /\ pendings'[p] = [value |-> warning, at |-> n]
      <4>1. v.of = n /\ v.dims = dims
        BY <2>2, <3>2 DEF warning
      <4>2. \E w \in Of("parent", n)' : dims = log'[w].dims
        BY <3>2 DEF Reports
      <4>3. QED
        BY <1>2, <1>3, <3>2, <4>1, <4>2 DEF Awaits
    <3>3. QED
      BY <1>16, <3>1, <3>2
  <2>4. QED
    BY <2>2, <2>3
<1>18. ASSUME NEW m \in DOMAIN sent', Owed(m)'
       PROVE  Waiting(m)'
  <2>1. Warned(m)' /\ Alone(m)' /\ Cardinality(Found) <= capacity /\ Of("usage", m)' = {}
    BY <1>8, <1>13, <1>18 DEF Owed
  <2>2. CASE m = n
    <3>1. dims # {} /\ pendings' = PutAll(pendings, P, warning, n)
      BY <1>2, <1>15, <2>1, <2>2
    <3>2. P \in DOMAIN pendings' /\ pendings'[P].value.of = n
      BY <3>1 DEF PutAll, warning
    <3>3. QED
      BY <1>3, <2>2, <3>1, <3>2 DEF Waiting
  <2>3. CASE m \in DOMAIN sent
    <3>1. \A k \in DOMAIN sent' \ {m} : Session(k)' = Session(m)' => ~Warned(k)'
      BY <2>1 DEF Alone
    <3>2. Warned(m) /\ Alone(m) /\ Of("usage", m) = {}
      BY <1>2, <1>3, <1>4, <2>1, <2>3, <3>1 DEF Alone
    <3>3. Cardinality(Warners) <= capacity
      <4>1. Warners \in SUBSET Found
        BY <1>14
      <4>2. IsFiniteSet(Warners) /\ Cardinality(Warners) <= Cardinality(Found)
        BY <1>12, <4>1, FS_Subset
      <4>3. Cardinality(Warners) \in Nat
        BY <4>2, FS_CardinalityType
      <4>4. QED
        BY <1>12, <1>13, <2>1, <4>2, <4>3
    <3>4. Waiting(m)
      BY <1>1, <2>3, <3>2, <3>3 DEF Owed
    <3>5. sent'[m].watched /\ Parent(m)' = Parent(m) /\ Parent(m) \in DOMAIN pendings /\ pendings[Parent(m)].value.of = m
      BY <1>3, <1>4, <2>3, <3>4 DEF Waiting
    <3>6. Parent(m) \in DOMAIN pendings' /\ pendings'[Parent(m)] = pendings[Parent(m)]
      <4>1. CASE dims = {}
        BY <3>5, <4>1
      <4>2. CASE dims # {}
        <5>1. Session(n)' # Session(m)' /\ Session(m)' = Session(m)
          BY <1>2, <1>3, <1>4, <2>3, <3>1, <4>2
        <5>2. Parent(m) # P
          BY <1>6, <2>3, <3>2, <4>2, <5>1
        <5>3. pendings' = PutAll(pendings, P, warning, n)
          BY <1>15, <2>1, <4>2
        <5>4. QED
          BY <3>5, <5>2, <5>3 DEF PutAll
      <4>3. QED
        BY <4>1, <4>2
    <3>7. QED
      BY <3>5, <3>6 DEF Waiting
  <2>4. QED
    BY <1>3, <2>2, <2>3
<1>19. QED
  BY <1>16, <1>17, <1>18 DEF PendingsAwait

\* What was announced of the earlier requests still is, and no usage is new.
LEMMA ArrivalKeepsReports ==
  ASSUME DriftInv, NEW n, NEW sender, NEW body \in Bodies, NEW watched \in BOOLEAN, NEW dims,
         Arrives(n, sender, body, watched), Reports(n, dims), watched <=> dims # {}, dims # {} => Compared(n)'
  PROVE  UsagesOnce' /\ \A m \in DOMAIN sent : Announced(m)' /\ Known(m)'
<1>1. DriftTypes /\ UsagesOnce /\ \A m \in DOMAIN sent : Announced(m) /\ Known(m)
  BY DEF DriftInv
<1>2. /\ SameReports /\ Of("usage", n)' = {}
      /\ \A m \in DOMAIN sent : Of("usage", m)' = Of("usage", m)
  BY <1>1, ArrivalKeepsTypes
<1>3. SameRequests /\ DOMAIN sent' = DOMAIN sent \cup {n}
  BY <1>1, NewRequest
<1>4. \A m \in DOMAIN sent : Announced(m)' /\ Known(m)'
  BY <1>1, <1>2, <1>3, ReportsStay
<1>5. \A m \in DOMAIN sent' : \A i, j \in Of("usage", m)' : i = j
  BY <1>1, <1>2, <1>3 DEF UsagesOnce
<1>6. QED
  BY <1>4, <1>5 DEF UsagesOnce

\* A request that is not compared with any changes nothing else.
LEMMA SkippedKeeps ==
  ASSUME DriftInv, NEW n, NEW sender, NEW body \in Bodies, Arrives(n, sender, body, FALSE), ~Compared(n)',
         baselines' = baselines, hashes' = hashes, pendings' = pendings, log' = log
  PROVE  DriftInv'
<1>1. DriftTypes /\ BaselinesRecent /\ HashesRecent /\ PendingsAwait
  BY DEF DriftInv
<1>2. /\ capacity' = capacity /\ n \notin DOMAIN sent /\ DOMAIN sent' = DOMAIN sent \cup {n}
      /\ Watchable' = Watchable /\ Parents' = Parents /\ Beginnings' = Beginnings
      /\ Talks' = Talks /\ Structures' = Structures
  BY <1>1, NewRequest, NewWatchable DEF Arrives
<1>3. BaselinesRecent' /\ HashesRecent'
  BY <1>1, <1>2 DEF BaselinesRecent, HashesRecent
<1>4. \A i \in DOMAIN log : log[i].of # n
  BY <1>1, <1>2 DEF DriftTypes, Founded
<1>5. Of("parent", n)' = {}
  BY <1>4 DEF Of
<1>6. Reports(n, {})
  BY <1>1, <1>5 DEF Reports, DriftTypes
<1>7. DriftTypes' /\ PendingsAwait' /\ UsagesOnce' /\ \A m \in DOMAIN sent : Announced(m)' /\ Known(m)'
  <2>1. DriftTypes'
    BY <1>1, <1>6, ArrivalKeepsTypes
  <2>2. PendingsAwait'
    BY <1>1, <1>6, ArrivalKeepsPendings
  <2>3. UsagesOnce' /\ \A m \in DOMAIN sent : Announced(m)' /\ Known(m)'
    BY <1>6, ArrivalKeepsReports
  <2>4. QED
    BY <2>1, <2>2, <2>3
<1>8. Announced(n)'
  BY <1>5 DEF Announced, Changed, Warned
<1>9. Known(n)'
  BY <1>5 DEF Known
<1>10. \A m \in DOMAIN sent' : Announced(m)' /\ Known(m)'
  BY <1>2, <1>7, <1>8, <1>9
<1>11. QED
  BY <1>3, <1>7, <1>10 DEF DriftInv

\* A request that is compared is reported if it differs, and is the next baseline.
LEMMA ComparedKeeps ==
  ASSUME DriftInv, NEW n, NEW sender, NEW body \in Bodies, NEW watched \in BOOLEAN,
         Arrives(n, sender, body, watched), Compared(n)',
         watched <=> parent_dims(derive_parent_bucket(sender), structure(body)) # {},
         observe_drift(n, sender, body)
  PROVE  DriftInv'
<1>1. DriftTypes /\ BaselinesRecent /\ HashesRecent /\ PendingsAwait
  BY DEF DriftInv
<1>2. PICK dims : dims = parent_dims(derive_parent_bucket(sender), structure(body))
  OBVIOUS
<1>3. PICK within : within = drift_dims(conversation(sender, body), structure(body))
  OBVIOUS
<1>4. PICK isNew : isNew = (conversation(sender, body) \notin DOMAIN hashes)
  OBVIOUS
<1> DEFINE e == [scope |-> "parent", of |-> n, dims |-> dims, rotated |-> isNew]
           e2 == [scope |-> "conversation", of |-> n, dims |-> within]
           t == log \o (IF dims = {} THEN <<>> ELSE <<e>>)
           t2 == t \o (IF within = {} THEN <<>> ELSE <<e2>>)
<1>5. /\ baselines' = put(baselines, derive_parent_bucket(sender), Prefix(body), n)
      /\ hashes' = put(hashes, conversation(sender, body), structure(body), n)
      /\ pendings' = IF dims = {} THEN pendings
                     ELSE put(pendings, derive_parent_bucket(sender), [of |-> n, dims |-> dims], n)
      /\ log' = t2
  BY <1>2, <1>3, <1>4 DEF observe_drift, next_baseline, Prefix
<1>6. /\ e.of = n /\ e.scope = "parent" /\ e.dims = dims /\ e.rotated = isNew
      /\ e2.of = n /\ e2.scope = "conversation"
  OBVIOUS
<1>7. log \in Seq(ToSet(log)) /\ n \notin DOMAIN sent /\ \A i \in DOMAIN log : log[i].of # n
  <2>1. n \notin DOMAIN sent
    BY <1>1, NewRequest
  <2>2. QED
    BY <1>1, <2>1 DEF DriftTypes, Founded
<1> HIDE DEF e, e2
<1>8. /\ t \in Seq(ToSet(t)) /\ DOMAIN log \subseteq DOMAIN t
      /\ \A i \in DOMAIN log : t[i] = log[i]
      /\ \A i \in DOMAIN t \ DOMAIN log : dims # {} /\ t[i] = e
      /\ dims # {} => \E i \in DOMAIN t \ DOMAIN log : t[i] = e
  <2>1. Adds(log, t, dims, e)
    BY <1>7, Added
  <2> HIDE DEF t
  <2>2. QED
    BY <2>1 DEF Adds
<1> HIDE DEF t
<1>9. /\ t2 \in Seq(ToSet(t2)) /\ DOMAIN t \subseteq DOMAIN t2
      /\ \A i \in DOMAIN t : t2[i] = t[i]
      /\ \A i \in DOMAIN t2 \ DOMAIN t : t2[i] = e2
  <2>1. Adds(t, t2, within, e2)
    BY <1>8, Added
  <2> HIDE DEF t2
  <2>2. QED
    BY <2>1 DEF Adds
<1> HIDE DEF t2
<1>10. \A i : i \in Of("parent", n)' <=> i \in DOMAIN log' /\ log'[i].scope = "parent" /\ log'[i].of = n
  BY DEF Of
<1>11. \A i \in Of("parent", n)' : dims # {} /\ log'[i] = e
  BY <1>5, <1>6, <1>7, <1>8, <1>9, <1>10
<1>12. dims # {} => Of("parent", n)' # {}
  BY <1>5, <1>6, <1>8, <1>9, <1>10
<1>13. Reports(n, dims)
  <2>1. \A i \in DOMAIN log' \ DOMAIN log : log'[i] = e \/ log'[i] = e2
    BY <1>5, <1>8, <1>9
  <2>2. log' \in Seq(ToSet(log')) /\ DOMAIN log \subseteq DOMAIN log' /\ \A i \in DOMAIN log : log'[i] = log[i]
    BY <1>5, <1>8, <1>9
  <2>3. \A i \in DOMAIN log' \ DOMAIN log : log'[i].of = n /\ log'[i].scope \in {"parent", "conversation"}
    BY <1>6, <2>1
  <2>4. \A i \in Of("parent", n)' : log'[i].dims = dims
    BY <1>6, <1>11
  <2>5. dims # {} <=> Of("parent", n)' # {}
    BY <1>11, <1>12
  <2>6. QED
    BY <2>2, <2>3, <2>4, <2>5 DEF Reports
<1>14. watched <=> dims # {}
  BY <1>2
<1>15. DriftTypes' /\ (Warned(n)' <=> dims # {})
  BY <1>1, <1>13, <1>14, ArrivalKeepsTypes
<1>16. PendingsAwait'
  BY <1>1, <1>5, <1>13, <1>14, ArrivalKeepsPendings
<1>17. UsagesOnce' /\ \A m \in DOMAIN sent : Announced(m)' /\ Known(m)'
  BY <1>13, <1>14, ArrivalKeepsReports
<1>18. BaselinesRecent' /\ HashesRecent'
  BY <1>1, <1>5, MapsRecent
<1>19. Announced(n)'
  BY <1>1, <1>2, <1>15, NewAnnounced
<1>20. Known(n)'
  <2>1. \A i \in Of("parent", n)' : log'[i].rotated <=> conversation(sender, body) \notin DOMAIN hashes
    BY <1>4, <1>6, <1>11
  <2>2. QED
    BY <1>1, <2>1, NewKnown
<1>21. \A m \in DOMAIN sent' : Announced(m)' /\ Known(m)'
  <2>1. DOMAIN sent' = DOMAIN sent \cup {n}
    BY <1>1, NewRequest
  <2>2. QED
    BY <1>17, <1>19, <1>20, <2>1
<1>22. QED
  BY <1>15, <1>16, <1>17, <1>18, <1>21 DEF DriftInv

LEMMA ObserveKeeps ==
  ASSUME DriftInv, NEW sender \in Senders, NEW body \in Bodies, ObserveRequest(sender, body)
  PROVE  DriftInv'
<1>1. PICK n : n = Len(sent) + 1
  OBVIOUS
<1>2. PICK skipped : skipped = (is_ancillary_request(body) \/ ~is_stable_parent_bucket(derive_parent_bucket(sender)))
  OBVIOUS
<1>3. PICK watched : watched = (~skipped /\ parent_dims(derive_parent_bucket(sender), structure(body)) # {})
  OBVIOUS
<1>4. skipped \in BOOLEAN /\ watched \in BOOLEAN
  BY <1>2, <1>3
<1>5. /\ sent' = Append(sent, [body |-> body, sender |-> sender, watched |-> watched, open |-> TRUE])
      /\ IF skipped THEN UNCHANGED <<baselines, hashes, pendings, log>> ELSE observe_drift(n, sender, body)
      /\ capacity' = capacity
  BY <1>1, <1>2, <1>3 DEF ObserveRequest
<1>6. Arrives(n, sender, body, watched)
  BY <1>1, <1>5 DEF Arrives
<1>7. Compared(n)' <=> ~skipped
  <2>1. DriftTypes
    BY DEF DriftInv
  <2>2. QED
    BY <1>2, <1>6, <2>1, NewSession
<1>8. CASE skipped
  <2>1. watched = FALSE
    BY <1>3, <1>4, <1>8
  <2>2. QED
    BY <1>5, <1>6, <1>7, <1>8, <2>1, SkippedKeeps
<1>9. CASE ~skipped
  <2>1. watched <=> parent_dims(derive_parent_bucket(sender), structure(body)) # {}
    BY <1>3, <1>9
  <2>2. QED
    BY <1>4, <1>5, <1>6, <1>7, <1>9, <2>1, ComparedKeeps
<1>10. QED
  BY <1>4, <1>8, <1>9

-----------------------------------------------------------------------------
(***************************************************************************)
(* An answer tells its usage, or ends.                                     *)
(***************************************************************************)
\* A request of which something but what was sent is told anew.
Retold(n, told) ==
  /\ n \in DOMAIN sent /\ DOMAIN told = RequestFields
  /\ told.body = sent[n].body /\ told.sender = sent[n].sender
  /\ told.watched \in BOOLEAN /\ (told.watched => sent[n].watched)
  /\ sent' = [sent EXCEPT ![n] = told] /\ capacity' = capacity

LEMMA RequestRetold ==
  ASSUME DriftTypes, NEW n, NEW told, Retold(n, told)
  PROVE  /\ SameRequests /\ DOMAIN sent' = DOMAIN sent /\ sent' \in Seq(ToSet(sent'))
         /\ sent'[n] = told /\ \A m \in DOMAIN sent : m # n => sent'[m] = sent[m]
<1> DEFINE S == ToSet(sent) \cup {told}
<1>1. /\ n \in DOMAIN sent /\ sent' = [sent EXCEPT ![n] = told] /\ capacity' = capacity
      /\ told.body = sent[n].body /\ told.sender = sent[n].sender
  BY DEF Retold
<1>2. sent \in Seq(S)
  <2>1. sent \in Seq(ToSet(sent))
    BY DEF DriftTypes
  <2>2. QED
    BY <2>1, SeqMonotonic
<1>3. told \in S
  OBVIOUS
<1> HIDE DEF S
<1>4. sent' \in Seq(S) /\ DOMAIN sent' = DOMAIN sent
  BY <1>1, <1>2, <1>3
<1>5. sent' \in Seq(ToSet(sent'))
  BY <1>4, OwnElements
<1>6. sent'[n] = told /\ \A m \in DOMAIN sent : m # n => sent'[m] = sent[m]
  BY <1>1, <1>2
<1>7. SameRequests
  BY <1>1, <1>4, <1>6 DEF SameRequests
<1>8. QED
  BY <1>4, <1>5, <1>6, <1>7

LEMMA SameMaps ==
  ASSUME DriftTypes, BaselinesRecent, HashesRecent, SameRequests, DOMAIN sent' = DOMAIN sent,
         baselines' = baselines, hashes' = hashes
  PROVE  BaselinesRecent' /\ HashesRecent'
<1>1. \A m \in DOMAIN sent : /\ (Compared(m)' <=> Compared(m)) /\ Parent(m)' = Parent(m) /\ Talk(m)' = Talk(m)
                             /\ sent'[m].body = sent[m].body
  BY RequestsStay DEF SameRequests
<1>2. Watchable' = Watchable
  <2>1. Watchable' = {m \in DOMAIN sent' : Compared(m)'}
    BY DEF Watchable
  <2>2. QED
    BY <1>1, <2>1 DEF Watchable
<1>3. \A m \in Watchable : Parent(m)' = Parent(m) /\ Talk(m)' = Talk(m) /\ sent'[m].body = sent[m].body
  BY <1>1 DEF Watchable
<1>4. Parents' = Parents /\ Beginnings' = Beginnings /\ Talks' = Talks /\ Structures' = Structures
  <2>1. /\ Parents' = [m \in Watchable' |-> Parent(m)'] /\ Beginnings' = [m \in Watchable' |-> Prefix(sent'[m].body)]
        /\ Talks' = [m \in Watchable' |-> Talk(m)'] /\ Structures' = [m \in Watchable' |-> structure(sent'[m].body)]
    BY DEF Parents, Beginnings, Talks, Structures
  <2>2. QED
    BY <1>2, <1>3, <2>1 DEF Parents, Beginnings, Talks, Structures
<1>5. capacity' = capacity
  BY DEF SameRequests
<1>6. QED
  BY <1>2, <1>4, <1>5 DEF BaselinesRecent, HashesRecent

\* The warnings of some sessions that are settled: each gets one usage.
Settles(gone) ==
  /\ DOMAIN pendings' = DOMAIN pendings \ gone /\ \A p \in DOMAIN pendings \ gone : pendings'[p] = pendings[p]
  /\ \A m \in DOMAIN sent : sent'[m].watched # sent[m].watched => Parent(m) \in gone
  /\ \A i \in DOMAIN log' \ DOMAIN log :
       /\ log'[i].scope = "usage" /\ log'[i].of \in DOMAIN sent
       /\ Parent(log'[i].of) \in gone \cap DOMAIN pendings /\ pendings[Parent(log'[i].of)].value.of = log'[i].of
  /\ \A p \in gone \cap DOMAIN pendings : \E i \in DOMAIN log' \ DOMAIN log : log'[i].of = pendings[p].value.of
  /\ \A i, j \in DOMAIN log' \ DOMAIN log : i = j

LEMMA SettledPendings ==
  ASSUME DriftTypes, PendingsAwait, UsagesOnce, NEW gone, Settles(gone), SameRequests, SameReports,
         DOMAIN sent' = DOMAIN sent
  PROVE  PendingsAwait' /\ UsagesOnce'
<1>1. /\ IsFiniteSet(DOMAIN pendings)
      /\ \A p \in DOMAIN pendings : Awaits(p, pendings[p].value)
      /\ \A m \in DOMAIN sent : Owed(m) => Waiting(m)
  BY DEF PendingsAwait
<1>2. \A m \in DOMAIN sent : /\ Of("parent", m)' = Of("parent", m) /\ (Warned(m)' <=> Warned(m))
                             /\ Session(m)' = Session(m) /\ Parent(m)' = Parent(m)
                             /\ \A i \in Of("usage", m) : i \in Of("usage", m)'
  BY ReportsStay, RequestsStay
<1>3. /\ DOMAIN pendings' = DOMAIN pendings \ gone /\ \A p \in DOMAIN pendings \ gone : pendings'[p] = pendings[p]
      /\ \A m \in DOMAIN sent : sent'[m].watched # sent[m].watched => Parent(m) \in gone
      /\ \A i \in DOMAIN log' \ DOMAIN log :
           /\ log'[i].scope = "usage" /\ log'[i].of \in DOMAIN sent
           /\ Parent(log'[i].of) \in gone \cap DOMAIN pendings /\ pendings[Parent(log'[i].of)].value.of = log'[i].of
      /\ \A p \in gone \cap DOMAIN pendings : \E i \in DOMAIN log' \ DOMAIN log : log'[i].of = pendings[p].value.of
      /\ \A i, j \in DOMAIN log' \ DOMAIN log : i = j
  BY DEF Settles
<1>4. \A m : \A i : /\ i \in Of("usage", m)' <=> i \in DOMAIN log' /\ log'[i].scope = "usage" /\ log'[i].of = m
                    /\ i \in Of("usage", m) <=> i \in DOMAIN log /\ log[i].scope = "usage" /\ log[i].of = m
  BY DEF Of
<1>5. DOMAIN log \subseteq DOMAIN log' /\ \A i \in DOMAIN log : log'[i] = log[i]
  BY DEF SameReports
<1>6. \A m : \A i \in Of("usage", m)' : i \in Of("usage", m) \/ i \in DOMAIN log' \ DOMAIN log
  BY <1>4, <1>5
<1>7. IsFiniteSet(DOMAIN pendings')
  <2>1. IsFiniteSet(DOMAIN pendings \ gone)
    BY <1>1, FS_Difference
  <2>2. QED
    BY <1>3, <2>1
<1>8. \A p \in DOMAIN pendings' : Awaits(p, pendings[p].value)'
  <2>1. SUFFICES ASSUME NEW p \in DOMAIN pendings'
                 PROVE  Awaits(p, pendings[p].value)'
    OBVIOUS
  <2>2. PICK v : v = pendings'[p].value
    OBVIOUS
  <2>3. p \in DOMAIN pendings /\ p \notin gone /\ v = pendings[p].value
    BY <1>3, <2>2
  <2>4. Awaits(p, v)
    BY <1>1, <2>3
  <2>5. PICK m : m = v.of
    OBVIOUS
  <2>6. /\ m \in DOMAIN sent /\ Parent(m) = p /\ Of("usage", m) = {}
        /\ \E w \in Of("parent", m) : v.dims = log[w].dims
    BY <2>4, <2>5 DEF Awaits
  <2>7. Of("usage", m)' = {}
    <3>1. SUFFICES ASSUME NEW i \in Of("usage", m)' PROVE FALSE
      OBVIOUS
    <3>2. i \in DOMAIN log' \ DOMAIN log /\ log'[i].of = m
      BY <1>4, <1>6, <2>6
    <3>3. QED
      BY <1>3, <2>3, <2>6, <3>2
  <2>8. \A w \in Of("parent", m) : log'[w] = log[w]
    BY <1>5 DEF Of
  <2>9. Awaits(p, v)'
    BY <1>2, <2>5, <2>6, <2>7, <2>8 DEF Awaits
  <2>10. QED
    BY <2>2, <2>9
<1>9. ASSUME NEW m \in DOMAIN sent', Owed(m)'
      PROVE  Waiting(m)'
  <2>1. m \in DOMAIN sent /\ capacity' = capacity
    BY DEF SameRequests
  <2>2. Warned(m)' /\ Alone(m)' /\ Cardinality(Warners') <= capacity /\ Of("usage", m)' = {}
    BY <1>9, <2>1 DEF Owed
  <2>3. Warners' = Warners
    <3>1. Warners' = {Session(k)' : k \in {k \in DOMAIN sent' : Warned(k)'}}
      BY DEF Warners
    <3>2. QED
      BY <1>2, <3>1 DEF Warners
  <2>4. Alone(m)
    BY <1>2, <2>1, <2>2 DEF Alone
  <2>5. Of("usage", m) = {}
    BY <1>2, <2>1, <2>2
  <2>6. Waiting(m)
    BY <1>1, <1>2, <2>1, <2>2, <2>3, <2>4, <2>5 DEF Owed
  <2>7. sent[m].watched /\ Parent(m) \in DOMAIN pendings /\ pendings[Parent(m)].value.of = m
    BY <2>6 DEF Waiting
  <2>8. Parent(m) \notin gone
    <3>1. SUFFICES ASSUME Parent(m) \in gone PROVE FALSE
      OBVIOUS
    <3>2. PICK i \in DOMAIN log' \ DOMAIN log : log'[i].of = m
      BY <1>3, <2>7, <3>1
    <3>3. i \in Of("usage", m)'
      BY <1>3, <1>4, <3>2
    <3>4. QED
      BY <2>2, <3>3
  <2>9. sent'[m].watched /\ Parent(m)' = Parent(m) /\ Parent(m) \in DOMAIN pendings' /\ pendings'[Parent(m)] = pendings[Parent(m)]
    <3>1. sent'[m].watched = sent[m].watched
      BY <1>3, <2>1, <2>8
    <3>2. QED
      BY <1>2, <1>3, <2>1, <2>7, <2>8, <3>1
  <2>10. QED
    BY <2>7, <2>9 DEF Waiting
<1>10. ASSUME NEW m \in DOMAIN sent', NEW i \in Of("usage", m)', NEW j \in Of("usage", m)'
       PROVE  i = j
  <2>1. \A a, b \in Of("usage", m) : a = b
    BY DEF UsagesOnce
  <2>2. \A a \in Of("usage", m)' : a \in DOMAIN log' \ DOMAIN log => Of("usage", m) = {}
    <3>1. SUFFICES ASSUME NEW a \in Of("usage", m)', a \in DOMAIN log' \ DOMAIN log
                   PROVE  Of("usage", m) = {}
      OBVIOUS
    <3>2. log'[a].of = m
      BY <1>4
    <3>3. Parent(m) \in DOMAIN pendings /\ pendings[Parent(m)].value.of = m
      BY <1>3, <3>1, <3>2
    <3>4. PICK v : v = pendings[Parent(m)].value
      OBVIOUS
    <3>5. Awaits(Parent(m), v)
      BY <1>1, <3>3, <3>4
    <3>6. Of("usage", v.of) = {} /\ v.of = m
      BY <3>3, <3>4, <3>5 DEF Awaits
    <3>7. QED
      BY <3>6
  <2>3. QED
    BY <1>3, <1>6, <2>1, <2>2
<1>11. QED
  BY <1>7, <1>8, <1>9, <1>10 DEF PendingsAwait, UsagesOnce

LEMMA AnswerKeeps ==
  ASSUME DriftInv, NEW n, NEW told, Retold(n, told), baselines' = baselines, hashes' = hashes,
         log' \in Seq(ToSet(log')), DOMAIN log \subseteq DOMAIN log', \A i \in DOMAIN log : log'[i] = log[i],
         NEW gone, Settles(gone),
         SameReports => \A i \in DOMAIN log' \ DOMAIN log : Founded(log[i])'
  PROVE  DriftInv'
<1>1. DriftTypes /\ BaselinesRecent /\ HashesRecent /\ PendingsAwait /\ UsagesOnce
      /\ \A m \in DOMAIN sent : Announced(m) /\ Known(m)
  BY DEF DriftInv
<1>2. /\ SameRequests /\ DOMAIN sent' = DOMAIN sent /\ sent' \in Seq(ToSet(sent'))
      /\ sent'[n] = told /\ \A m \in DOMAIN sent : m # n => sent'[m] = sent[m]
  BY <1>1, RequestRetold
<1>3. SameReports
  BY DEF SameReports, Settles
<1>4. \A m \in DOMAIN sent : /\ Of("parent", m)' = Of("parent", m) /\ (Warned(m)' <=> Warned(m))
                             /\ Session(m)' = Session(m) /\ (Compared(m)' <=> Compared(m))
                             /\ Announced(m)' /\ Known(m)'
  BY <1>1, <1>2, <1>3, ReportsStay, RequestsStay
<1>5. BaselinesRecent' /\ HashesRecent'
  BY <1>1, <1>2, SameMaps
<1>6. PendingsAwait' /\ UsagesOnce'
  BY <1>1, <1>2, <1>3, SettledPendings
<1>7. \A m \in DOMAIN sent' : Registered(m)'
  <2>1. SUFFICES ASSUME NEW m \in DOMAIN sent PROVE Registered(m)'
    BY <1>2
  <2>2. Registered(m)
    BY <1>1 DEF DriftTypes
  <2>3. CASE m = n
    <3>1. /\ DOMAIN told = RequestFields /\ told.body = sent[m].body
          /\ told.watched \in BOOLEAN /\ (told.watched => sent[m].watched)
      BY <2>3 DEF Retold
    <3>2. sent'[m] = told
      BY <1>2, <2>3
    <3>3. QED
      BY <1>4, <2>2, <3>1, <3>2 DEF Registered
  <2>4. CASE m # n
    <3>1. sent'[m] = sent[m]
      BY <1>2, <2>4
    <3>2. QED
      BY <1>4, <2>2, <3>1 DEF Registered
  <2>5. QED
    BY <2>3, <2>4
<1>8. \A i \in DOMAIN log' : Founded(log[i])'
  <2>1. SUFFICES ASSUME NEW i \in DOMAIN log, i \in DOMAIN log'
                 PROVE  Founded(log[i])'
    BY <1>3
  <2>2. PICK e : e = log[i]
    OBVIOUS
  <2>3. e = log'[i]
    BY <2>2
  <2>4. Founded(e)
    BY <1>1, <2>2 DEF DriftTypes
  <2>5. e.of \in DOMAIN sent
    BY <2>4 DEF Founded
  <2>6. ASSUME e.scope = "usage"
        PROVE  /\ e.by \in DOMAIN sent' /\ Warned(e.by)' /\ Session(e.by)' = Session(e.of)'
               /\ \E w \in Of("parent", e.of)' : e.dims = log'[w].dims
    <3>1. /\ e.by \in DOMAIN sent /\ Warned(e.by) /\ Session(e.by) = Session(e.of)
          /\ \E w \in Of("parent", e.of) : e.dims = log[w].dims
      BY <2>4, <2>6 DEF Founded
    <3>2. PICK w \in Of("parent", e.of) : e.dims = log[w].dims
      BY <3>1
    <3>3. w \in DOMAIN log
      BY DEF Of
    <3>4. w \in Of("parent", e.of)' /\ log'[w] = log[w]
      BY <1>4, <2>5, <3>3
    <3>5. Warned(e.by)' /\ Session(e.by)' = Session(e.by) /\ Session(e.of)' = Session(e.of)
      BY <1>4, <2>5, <3>1
    <3>6. QED
      BY <1>2, <3>1, <3>2, <3>4, <3>5
  <2>7. Founded(e)'
    BY <1>2, <2>5, <2>6 DEF Founded
  <2>8. QED
    BY <2>3, <2>7
<1>9. capacity' \in Nat \ {0}
  BY <1>1, <1>2 DEF SameRequests, DriftTypes
<1>10. DriftTypes'
  BY <1>2, <1>7, <1>8, <1>9 DEF DriftTypes
<1>11. \A m \in DOMAIN sent' : Announced(m)' /\ Known(m)'
  BY <1>2, <1>4
<1>12. QED
  BY <1>5, <1>6, <1>10, <1>11 DEF DriftInv

\* The end of an answer settles nothing.
LEMMA AnswerEndKeeps ==
  ASSUME DriftInv, NEW n \in DOMAIN sent, AnswerEnds(n)
  PROVE  DriftInv'
<1>1. DriftTypes
  BY DEF DriftInv
<1>2. PICK told : told = [sent[n] EXCEPT !.open = FALSE]
  OBVIOUS
<1>3. DOMAIN sent[n] = RequestFields /\ sent[n].watched \in BOOLEAN /\ log \in Seq(ToSet(log))
  BY <1>1 DEF DriftTypes, Registered
<1>4. /\ DOMAIN told = RequestFields /\ told.body = sent[n].body /\ told.sender = sent[n].sender
      /\ told.watched = sent[n].watched
  BY <1>2, <1>3 DEF RequestFields
<1>5. /\ sent' = [sent EXCEPT ![n] = told]
      /\ capacity' = capacity /\ baselines' = baselines /\ hashes' = hashes /\ pendings' = pendings /\ log' = log
  BY <1>2 DEF AnswerEnds
<1>6. Retold(n, told)
  BY <1>3, <1>4, <1>5 DEF Retold
<1>7. \A m \in DOMAIN sent : sent'[m].watched = sent[m].watched
  BY <1>1, <1>4, <1>6, RequestRetold
<1>8. Settles({})
  BY <1>5, <1>7 DEF Settles
<1>9. log' \in Seq(ToSet(log')) /\ DOMAIN log = DOMAIN log'
  BY <1>3, <1>5
<1>10. QED
  BY <1>5, <1>6, <1>8, <1>9, AnswerKeeps

\* A frame that tells the usage settles the warning its session awaits.
LEMMA FrameKeeps ==
  ASSUME DriftInv, NEW n \in DOMAIN sent, NEW usage, FrameArrives(n, usage), extract_cache_usage_tokens(usage)
  PROVE  DriftInv'
<1>1. DriftTypes /\ PendingsAwait
  BY DEF DriftInv
<1>2. PICK told : told = [sent[n] EXCEPT !.watched = FALSE]
  OBVIOUS
<1>3. PICK p : p = Parent(n)
  OBVIOUS
<1>4. PICK warning : warning = pendings[p].value
  OBVIOUS
<1>5. PICK missed : missed = cache_miss_suspected(usage)
  OBVIOUS
<1>6. PICK here : here = (DOMAIN pendings \cap {p})
  OBVIOUS
<1> DEFINE e == [scope |-> "usage", of |-> warning.of, by |-> n, dims |-> warning.dims, missed |-> missed]
           t == log \o (IF here = {} THEN <<>> ELSE <<e>>)
<1>7. DOMAIN sent[n] = RequestFields /\ sent[n].watched \in BOOLEAN /\ log \in Seq(ToSet(log))
  BY <1>1 DEF DriftTypes, Registered
<1>8. /\ DOMAIN told = RequestFields /\ told.body = sent[n].body /\ told.sender = sent[n].sender
      /\ told.watched = FALSE
  BY <1>2, <1>7 DEF RequestFields
<1>9. /\ sent[n].watched /\ sent' = [sent EXCEPT ![n] = told]
      /\ capacity' = capacity /\ baselines' = baselines /\ hashes' = hashes
      /\ observe_cache_usage(n, p, usage)
  BY <1>2, <1>3 DEF FrameArrives, Parent
<1>10. /\ pendings' = without(pendings, p)
       /\ log' = IF p \notin DOMAIN pendings THEN log ELSE Append(log, e)
  BY <1>4, <1>5, <1>9 DEF observe_cache_usage, settled
<1>11. e.scope = "usage" /\ e.of = warning.of /\ e.by = n /\ e.dims = warning.dims
  OBVIOUS
<1> HIDE DEF e
<1>12. log' = t
  <2>1. CASE p \in DOMAIN pendings
    BY <1>6, <1>7, <1>10, <2>1
  <2>2. CASE p \notin DOMAIN pendings
    BY <1>6, <1>7, <1>10, <2>2
  <2>3. QED
    BY <2>1, <2>2
<1>13. Adds(log, t, here, e)
  BY <1>7, Added
<1> HIDE DEF t
<1>14. /\ log' \in Seq(ToSet(log')) /\ DOMAIN log \subseteq DOMAIN log' /\ \A i \in DOMAIN log : log'[i] = log[i]
       /\ \A i \in DOMAIN log' \ DOMAIN log : p \in DOMAIN pendings /\ log'[i] = e
       /\ p \in DOMAIN pendings => \E i \in DOMAIN log' \ DOMAIN log : log'[i] = e
  BY <1>6, <1>12, <1>13 DEF Adds
<1>15. \A i, j \in DOMAIN log' \ DOMAIN log : i = j
  <2>1. DOMAIN log = 1..Len(log) /\ Len(log) \in Nat
    BY <1>7
  <2>2. DOMAIN log' \subseteq 1..(Len(log) + 1)
    <3>1. p \in DOMAIN pendings => DOMAIN Append(log, e) = 1..(Len(log) + 1)
      BY <1>7, Appended
    <3>2. QED
      BY <1>10, <2>1, <3>1
  <2>3. QED
    BY <2>1, <2>2
<1>16. Retold(n, told)
  BY <1>7, <1>8, <1>9 DEF Retold
<1>17. /\ SameRequests /\ DOMAIN sent' = DOMAIN sent
       /\ \A m \in DOMAIN sent : m # n => sent'[m] = sent[m]
  BY <1>1, <1>16, RequestRetold
<1>18. p \in DOMAIN pendings => /\ warning.of \in DOMAIN sent /\ Parent(warning.of) = p
                                /\ \E w \in Of("parent", warning.of) : warning.dims = log[w].dims
  <2>1. \A q \in DOMAIN pendings : Awaits(q, pendings[q].value)
    BY <1>1 DEF PendingsAwait
  <2>2. QED
    BY <1>4, <2>1 DEF Awaits
<1>19. Settles({p})
  <2>1. DOMAIN pendings' = DOMAIN pendings \ {p} /\ \A q \in DOMAIN pendings \ {p} : pendings'[q] = pendings[q]
    BY <1>10 DEF without
  <2>2. \A m \in DOMAIN sent : sent'[m].watched # sent[m].watched => Parent(m) \in {p}
    BY <1>3, <1>17
  <2>3. \A i \in DOMAIN log' \ DOMAIN log :
          /\ log'[i].scope = "usage" /\ log'[i].of \in DOMAIN sent
          /\ Parent(log'[i].of) \in {p} \cap DOMAIN pendings /\ pendings[Parent(log'[i].of)].value.of = log'[i].of
    <3>1. TAKE i \in DOMAIN log' \ DOMAIN log
    <3>2. log'[i].scope = "usage" /\ log'[i].of = warning.of /\ p \in DOMAIN pendings
      BY <1>11, <1>14
    <3>3. QED
      BY <1>4, <1>18, <3>2
  <2>4. \A q \in {p} \cap DOMAIN pendings : \E i \in DOMAIN log' \ DOMAIN log : log'[i].of = pendings[q].value.of
    BY <1>4, <1>11, <1>14
  <2>5. QED
    BY <1>15, <2>1, <2>2, <2>3, <2>4 DEF Settles
<1>20. ASSUME SameReports, NEW i \in DOMAIN log' \ DOMAIN log
       PROVE  Founded(log[i])'
  <2>1. p \in DOMAIN pendings /\ log'[i] = e
    BY <1>14
  <2>2. PICK c : c = warning.of
    OBVIOUS
  <2>3. /\ c \in DOMAIN sent /\ Parent(c) = p
        /\ \E w \in Of("parent", c) : warning.dims = log[w].dims
    BY <1>18, <2>1, <2>2
  <2>4. Warned(c) /\ Warned(n)
    BY <1>1, <1>9, <2>3 DEF Warned, DriftTypes, Registered
  <2>5. c \in Watchable /\ n \in Watchable
    BY <1>1, <2>3, <2>4 DEF DriftTypes, Registered, Watchable
  <2>6. Session(n) = Session(c)
    BY <1>3, <2>3, <2>5, SessionsApart
  <2>7. /\ Of("parent", c)' = Of("parent", c) /\ Session(c)' = Session(c) /\ Session(n)' = Session(n) /\ Warned(n)'
    BY <1>1, <1>17, <1>20, <2>3, <2>4, ReportsStay, RequestsStay
  <2>8. \A w \in Of("parent", c) : log'[w] = log[w]
    BY <1>14 DEF Of
  <2>9. PICK f : f = e
    OBVIOUS
  <2>10. f.of = c /\ f.by = n /\ f.dims = warning.dims
    BY <1>11, <2>2, <2>9
  <2>11. Founded(f)'
    BY <1>17, <2>3, <2>6, <2>7, <2>8, <2>10 DEF Founded
  <2>12. QED
    BY <2>1, <2>9, <2>11
<1>21. QED
  BY <1>9, <1>14, <1>16, <1>19, <1>20, AnswerKeeps

LEMMA DriftStarts ==
  ASSUME DriftInit
  PROVE  DriftInv
<1>1. sent = <<>> /\ log = <<>> /\ baselines = <<>> /\ hashes = <<>> /\ pendings = <<>> /\ capacity \in Nat \ {0}
  BY DriftAssumption DEF DriftInit
<1>2. DOMAIN sent = {} /\ DOMAIN log = {} /\ DOMAIN baselines = {} /\ DOMAIN hashes = {} /\ DOMAIN pendings = {}
  BY <1>1
<1>3. Watchable = {}
  BY <1>2 DEF Watchable
<1>4. IsFiniteSet({}) /\ Cardinality({}) = 0
  BY FS_EmptySet
<1>5. BaselinesRecent /\ HashesRecent
  BY <1>1, <1>2, <1>3, <1>4 DEF BaselinesRecent, HashesRecent, Recent
<1>6. sent \in Seq(ToSet(sent)) /\ log \in Seq(ToSet(log))
  BY <1>1
<1>7. DriftTypes /\ PendingsAwait /\ UsagesOnce
  BY <1>1, <1>2, <1>4, <1>6 DEF DriftTypes, PendingsAwait, UsagesOnce
<1>8. QED
  BY <1>2, <1>5, <1>7 DEF DriftInv

LEMMA DriftStays ==
  ASSUME DriftInv, UNCHANGED driftVars
  PROVE  DriftInv'
<1>1. /\ DriftTypes /\ BaselinesRecent /\ HashesRecent /\ PendingsAwait /\ UsagesOnce
      /\ \A n \in DOMAIN sent : Announced(n) /\ Known(n)
  BY DEF DriftInv
<1>2. capacity' = capacity /\ sent' = sent /\ baselines' = baselines /\ hashes' = hashes /\ pendings' = pendings /\ log' = log
  BY DEF driftVars
<1>3. SameRequests /\ SameReports /\ Settles({})
  BY <1>2 DEF SameRequests, SameReports, Settles
<1>4. BaselinesRecent' /\ HashesRecent'
  BY <1>1, <1>2, <1>3, SameMaps
<1>5. PendingsAwait' /\ UsagesOnce'
  BY <1>1, <1>2, <1>3, SettledPendings
<1>6. \A n \in DOMAIN sent' : Announced(n)' /\ Known(n)'
  BY <1>1, <1>2, <1>3, ReportsStay
<1>7. DriftTypes'
  <2>1. \A n : \A i : i \in Of("parent", n)' <=> i \in Of("parent", n)
    BY <1>2 DEF Of
  <2>2. \A n : Of("parent", n)' = Of("parent", n)
    BY <2>1 DEF Of
  <2>3. \A n : (Warned(n)' <=> Warned(n)) /\ Session(n)' = Session(n)
    BY <1>2, <2>2 DEF Warned, Session
  <2>4. \A n : Compared(n)' <=> Compared(n)
    BY <1>2, <2>3 DEF Compared
  <2>5. \A n \in DOMAIN sent' : Registered(n)'
    BY <1>1, <1>2, <2>3, <2>4 DEF DriftTypes, Registered
  <2>6. \A i \in DOMAIN log' : Founded(log[i])'
    <3>1. SUFFICES ASSUME NEW i \in DOMAIN log' PROVE Founded(log[i])'
      OBVIOUS
    <3>2. PICK e : e = log[i]
      OBVIOUS
    <3>3. Founded(e)
      BY <1>1, <1>2, <3>2 DEF DriftTypes
    <3>4. Founded(e)'
      BY <1>2, <2>2, <2>3, <3>3 DEF Founded
    <3>5. QED
      BY <1>2, <3>2, <3>4
  <2>7. QED
    BY <1>1, <1>2, <2>5, <2>6 DEF DriftTypes
<1>8. QED
  BY <1>4, <1>5, <1>6, <1>7 DEF DriftInv

\* The invariant of the observer: each map holds the last request of each key,
\* a pending warning has no usage yet, and what was reported of each request is
\* what the requests before it make of it (observe_drift, observe_cache_usage).
THEOREM DriftInvHolds == Spec => []DriftInv
<1>1. Init => DriftInv
  BY DriftStarts DEF Init
<1>2. DriftInv /\ [Next]_memoryVars => DriftInv'
  <2>1. SUFFICES ASSUME DriftInv, [Next]_memoryVars PROVE DriftInv'
    OBVIOUS
  <2>2. DriftNext \/ UNCHANGED driftVars
    BY <2>1 DEF Next, memoryVars
  <2>3. CASE UNCHANGED driftVars
    BY <2>1, <2>3, DriftStays
  <2>4. ASSUME NEW sender \in Senders, NEW body \in Bodies, ObserveRequest(sender, body)
        PROVE  DriftInv'
    BY <2>1, <2>4, ObserveKeeps
  <2>5. ASSUME NEW n \in DOMAIN sent, AnswerEnds(n)
        PROVE  DriftInv'
    BY <2>1, <2>5, AnswerEndKeeps
  <2>6. ASSUME NEW n \in DOMAIN sent, NEW usage \in Usages, FrameArrives(n, usage)
        PROVE  DriftInv'
    <3>1. CASE extract_cache_usage_tokens(usage)
      BY <2>1, <2>6, <3>1, FrameKeeps
    <3>2. CASE ~extract_cache_usage_tokens(usage)
      <4>1. UNCHANGED driftVars
        BY <2>6, <3>2 DEF FrameArrives, driftVars
      <4>2. QED
        BY <2>1, <4>1, DriftStays
    <3>3. QED
      BY <3>1, <3>2
  <2>7. QED
    BY <2>2, <2>3, <2>4, <2>5, <2>6 DEF DriftNext
<1>3. QED
  BY <1>1, <1>2, PTL DEF Spec

\* A session is warned of exactly the changes of its prompt, a rotation is told
\* from a new conversation, and each usage is set against the warning it is of,
\* whatever is sent and in whatever order the answers come (observe_drift,
\* observe_cache_usage, the taps of session_tokens.rs).
THEOREM ChangesAlwaysReported == Spec => []DriftReported
<1>1. DriftInv => DriftReported
  BY ReportsFollow
<1>2. QED
  BY <1>1, DriftInvHolds, PTL
=============================================================================
