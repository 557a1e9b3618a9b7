---------------------------- MODULE SessionMemory ----------------------------
(***************************************************************************)
(* What the gateway remembers of a session                                 *)
(* (ccextra-server/src/http/handlers/messages.rs, the scopes of a request  *)
(* and of the taps on its answer): three ledgers of what its upstream      *)
(* wants back, one per protocol, and the observer of its cache prefix.     *)
(* None reads what another keeps, so a behaviour is about one of them.     *)
(***************************************************************************)
EXTENDS AntigravityReplay, ReasoningReplay, KimiReplay, DriftDetector

VARIABLE memory   \* the one this behaviour is about

memoryVars == <<memory, replayVars, reasoningVars, kimiVars, driftVars>>

Init ==
  /\ memory \in {"antigravity", "responses", "kimi", "drift"}
  /\ replayInit /\ ReasoningInit /\ KimiInit /\ DriftInit
  /\ memory # "responses" => plain = FALSE
  /\ memory # "kimi" => session = CHOOSE s \in Sessions: TRUE
  /\ memory # "drift" => /\ api = CHOOSE a \in Apis: TRUE
                         /\ capacity = CHOOSE c \in Capacities: TRUE

Next ==
  /\ UNCHANGED memory
  /\ \/ memory = "antigravity" /\ replayNext /\ UNCHANGED <<reasoningVars, kimiVars, driftVars>>
     \/ memory = "responses" /\ ReasoningNext /\ UNCHANGED <<replayVars, kimiVars, driftVars>>
     \/ memory = "kimi" /\ KimiNext /\ UNCHANGED <<replayVars, reasoningVars, driftVars>>
     \/ memory = "drift" /\ DriftNext /\ UNCHANGED <<replayVars, reasoningVars, kimiVars>>

Spec == Init /\ [][Next]_memoryVars

(* Reasoning goes back to where it was, and nothing goes back twice.       *)
ReasoningKept == ReasoningInPlace /\ NothingTwice

(* Thinking goes back to the answer it led to, and that of the session's   *)
(* last answer does go back.                                               *)
ThinkingReturns == ThinkingBelongs /\ LastThinkingReturns
=============================================================================
