-------------------------- MODULE MCClientRequest --------------------------
EXTENDS ClientRequest

MCMaxMessages == 5
MCMaxMarked == 3

MCMarks ==
  LET native == [NoSignature EXCEPT !.lead = "E", !.tree = "channel"]
  IN  {NoSignature, native,
       [native EXCEPT !.lead = "R"],
       [native EXCEPT !.prefix = "claude"],
       [native EXCEPT !.tree = "opaque"],
       [native EXCEPT !.tree = "opaque", !.prefix = "gemini"],
       [NoSignature EXCEPT !.lead = "C", !.tree = "cais",
          !.block = [version |-> 4, channelId |-> TRUE, sealed |-> "container", model |-> "none",
                     kind |-> "thinking", context |-> "uuid"]],
       [NoSignature EXCEPT !.lead = "gAAAA", !.aligned = TRUE],
       [NoSignature EXCEPT !.lead = "gAAAA"],
       [NoSignature EXCEPT !.lead = "commentary"],
       [NoSignature EXCEPT !.lead = "other", !.random = TRUE, !.bare = TRUE, !.size = "kimi"],
       [NoSignature EXCEPT !.lead = "other", !.random = TRUE, !.bare = TRUE, !.size = "long"],
       Bypass}

MCMaxLines == 4
MCLineKinds == {"attribution", "identity", "keep", "drop", "other", "close", "banned", "agents", "plain"}
MCMaxTools == 3
MCMaxKeywords == 4
MCMaxInlined == 3
MCUnionThreshold == 2

Name(stem, form) == [stem |-> stem, form |-> form, mark |-> <<>>]
MCToolNamesUsed == {Name("a", f): f \in {"plain", "long", "odd"}} \cup {Name("b", "plain"), Sandbox("read_file")}
                   \cup {[Name("a", "plain") EXCEPT !.mark = <<1>>]}

Plainly == [thinking |-> "absent", budget |-> NoNumber, effort |-> Absent, nested |-> Absent,
            choice |-> Absent, named |-> Absent, tools |-> {"read"}, strict |-> FALSE,
            temperature |-> Absent, top_p |-> Absent]
MCQuestions ==
  {[Plainly EXCEPT !.thinking = t, !.budget = b, !.effort = e, !.nested = n, !.temperature = h]:
     t \in {"absent", "disabled", "enabled", "adaptive"}, b \in {NoNumber, -1, 0, 600, 30000},
     e \in {Absent, "low", "xhigh", "max", "extreme"}, n \in {Absent, "medium"}, h \in {Absent, "0.7"}}
  \cup
  {[Plainly EXCEPT !.choice = c, !.named = "read", !.tools = ts, !.strict = s, !.temperature = h, !.top_p = p]:
     c \in {Absent, "auto", "any", "none", "tool"}, ts \in SUBSET {"read", "search"}, s \in BOOLEAN,
     h \in {Absent, "0.7"}, p \in {Absent, "0.5"}}
MCCapabilities ==
  {NoCapability} \cup
  {[levels |-> l, forced |-> f, max |-> 32]:
     l \in {<<>>, <<"low", "medium", "high">>, <<"max", "minimal", "xhigh">>, <<"none", "high">>},
     f \in {Absent, "high"}}

(* A turn with a call, its answer and reminders, as Claude Code sends it.  *)
Tool(name, keys, marked) == [name |-> name, keys |-> keys, marked |-> marked]
Asks(marked, prose) ==
  [system   |-> <<<<Prose("intro")>>,
                  <<[Prose("environment") EXCEPT !.date = "plain"], Reminder("skills", <<1, 2, 3>>),
                    Prose("more"), [Reminder("today", <<>>) EXCEPT !.date = "plain"]>>>>,
   tools    |-> <<Tool(1, <<1, 2>>, FALSE), Tool(2, <<2, 1, 3>>, marked), Tool(3, <<>>, FALSE)>>,
   messages |-> <<<<Saying(<<Reminder("early", <<>>), [Prose("question") EXCEPT !.date = "slashed"]>>)>>,
                  <<[type |-> "call", name |-> 2, keys |-> <<4, 1, 2, 5>>], [type |-> "call", name |-> 3, keys |-> <<2, 1>>]>>,
                  <<[type |-> "result", text |-> <<[Prose("output") EXCEPT !.date = "typeset"]>>],
                    [type |-> "result", text |-> <<Prose("page"), Reminder("quoted", <<>>), Prose("end")>>],
                    Saying(<<[Reminder("late", <<>>) EXCEPT !.date = "plain"]>>)>>
                    \o (IF prose THEN <<Saying(<<Prose("thanks")>>)>> ELSE <<Saying(<<Reminder("last", <<>>)>>)>>)>>]
MCRequests == {Asks(marked, prose): marked, prose \in BOOLEAN}
MCMaxDrift == 3
=============================================================================
