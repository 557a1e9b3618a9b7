---------------------------- MODULE ClientRequest ----------------------------
(***************************************************************************)
(* A request of the client: its conversation, or one of its other parts.   *)
(* The parts do not depend on one another, so each is written on its own.  *)
(***************************************************************************)
EXTENDS RequestConversion, RequestBody

clientVars == <<history, phase, sent, mark, topic, body, defs>>

ClientInit == Init /\ BodyInit /\ (topic # "conversation" => mark = NoSignature)
ClientNext == \/ topic = "conversation" /\ Next /\ UNCHANGED bodyVars
              \/ BodyNext /\ UNCHANGED vars
ClientSpec == ClientInit /\ [][ClientNext]_clientVars

(* Every call is answered where its protocol looks for the answer, and in  *)
(* the order of the calls when the client answered them in one message.    *)
CallsPaired == CallsAnswered /\ ResultsInCallOrder

(* The conversation arrives whole and in a shape the upstream takes.       *)
ConversationKept == NothingLost /\ AcceptedShape

(* Signatures reach only who issued them, where they are wanted, and come  *)
(* back as they were.                                                      *)
SignaturesKept == OwnFamilyOnly /\ FirstCallSigned /\ SignatureReturns

(* The parameters of a tool are accepted, mean what they did, and do not   *)
(* grow without end.                                                       *)
ParametersKept == SchemaAccepted /\ SchemaFaithful /\ InliningBounded

(* The options are accepted, and the effort is the nearest one there is.   *)
OptionsKept == EffortNearest /\ OptionsAccepted

(* The tools reach the upstream as the client means them: calls of them    *)
(* find back by name, and their parameters are kept.                       *)
ToolsKept == NamesReturn /\ ParametersKept

(* What the client says of how to answer is kept: the prompt, but for the  *)
(* parts that are for Claude alone, and the options.                       *)
InstructionsKept == PromptCut /\ OptionsKept

(* What the upstream has read it reads again, whether the conversation has *)
(* grown or the client has written the old part of it in another way.      *)
PrefixStable == PrefixGrows /\ [](DriftErased /\ DriftOnly)
=============================================================================
