--------------------------- MODULE MCMessageRelay ---------------------------
(***************************************************************************)
(* Single requests with two URLs, and pairs of requests of a conversation. *)
(***************************************************************************)
EXTENDS MessageRelay

CONSTANTS r1, r2

Everything == [format |-> TRUE, instructions |-> 0, effort |-> "off",
               choice |-> "forced"]
Structured == [Everything EXCEPT !.effort = "none", !.choice = "none"]

Says == {"huge", "unreadable", "signature", "RefusesFormat",
         "ToolChoiceRefused"}

Provider(protocol, kimi) ==
  [requests |-> {r1}, protocol |-> protocol, stream |-> TRUE, oauth |-> TRUE,
   kimi |-> kimi, account |-> FALSE, urls |-> 2, asks |-> Structured,
   sealed |-> {}, refuses |-> {400, 422}, says |-> Says, dead |-> 2]

\* Two requests that may be refused for one reason of each kind.
Pair(provider) ==
  [provider EXCEPT !.requests = {r1, r2}, !.urls = 1,
                   !.dead = 0, !.refuses = {400},
                   !.says = {"signature", "ToolChoiceRefused"},
                   !.asks = [Structured EXCEPT !.choice = "forced"]]

MCScenes ==
  {[Provider("responses", FALSE) EXCEPT !.sealed = {Client},
                                        !.asks = Everything],
   [Provider("chat", FALSE) EXCEPT !.oauth = FALSE, !.stream = FALSE],
   [Provider("gemini", FALSE) EXCEPT !.oauth = FALSE],
   Pair(Provider("responses", FALSE)),
   Pair(Provider("antigravity", FALSE)),
   [Pair(Provider("claude", TRUE)) EXCEPT
      !.asks = Everything, !.says = {"signature", "RefusesFormat"}],
   [Pair(Provider("chat", FALSE)) EXCEPT !.refuses = {}, !.dead = 2]}
=============================================================================
