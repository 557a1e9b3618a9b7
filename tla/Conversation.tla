---------------------------- MODULE Conversation ----------------------------
(***************************************************************************)
(* The history a Messages request carries, as the three conversions of     *)
(* crates/ccextra-core/src/convert read it, and what they share: the order *)
(* tool results are put in, and the text a system message becomes.         *)
(*                                                                         *)
(* A text is the sequence of the pieces it was joined from, <<>> the empty *)
(* one, so that a text lost, repeated or moved shows.  A message is a role *)
(* and a sequence of blocks:                                               *)
(*   text         text                                                     *)
(*   thinking     text, sig (the format of its signature)                  *)
(*   image        text (what it shows)                                     *)
(*   tool_use     id (NoId when absent), name                              *)
(*   tool_result  id, text, images (the texts of the images inside)        *)
(* and of a system message, [kind, text] where kind says whether the text  *)
(* is Claude's declaration of itself or the billing line.                  *)
(***************************************************************************)
EXTENDS Naturals, Sequences, FiniteSets, SequencesExt

NoId == 0

(* The pieces every block of a sequence contributes, in order.             *)
Joined(s) == FlattenSeq(s)

IsResult(block) == block.type = "tool_result"

(* The indexes of the elements of a sequence that are in S, ascending.     *)
Ascending(S) == SetToSortSeq(S, LAMBDA a, b: a < b)

(* Results in the order of the calls they answer; the slots of other       *)
(* blocks stay.  Any mismatch of number or id leaves the message alone.    *)
align_tool_results(content, ids) ==
  LET turn(k)  == Cardinality({j \in 1..k: ids[j] = ids[k]})
      slots    == {i \in DOMAIN content: IsResult(content[i])}
      place(i) == Cardinality({j \in slots: j <= i})
      from(k)  == {i \in slots: content[i].id = ids[k]
                               /\ Cardinality({j \in slots: j <= i /\ content[j].id = ids[k]}) = turn(k)}
  IN  IF \/ ids = <<>>
         \/ Cardinality(slots) # Len(ids)
         \/ \E k \in DOMAIN ids: ids[k] = NoId \/ from(k) = {}
      THEN content
      ELSE [i \in DOMAIN content |->
              IF IsResult(content[i]) THEN content[CHOOSE j \in from(place(i)): TRUE] ELSE content[i]]

(* Texts no upstream is to see: the billing line, and for models other     *)
(* than Claude the sentence in which Claude Code introduces itself.        *)
is_ignorable_system_text(item, family) ==
  \/ item.text = <<>>
  \/ item.kind = "attribution"
  \/ item.kind = "identity" /\ family # "claude"

(* What a role=system message says, <<>> when nothing of it is left.       *)
system_reminder_text(content, family) ==
  Joined([i \in DOMAIN content |->
            IF is_ignorable_system_text(content[i], family) THEN <<>> ELSE content[i].text])

IdSeq(blocks) == [i \in DOMAIN blocks |-> blocks[i].id]
UseIds(content) == IdSeq(SelectSeq(content, LAMBDA b: b.type = "tool_use"))
=============================================================================
