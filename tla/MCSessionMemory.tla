---------------------------- MODULE MCSessionMemory ----------------------------
EXTENDS SessionMemory

CONSTANTS c1, c2, s1, s2

(* Antigravity: the parts of an answer as frames and as a whole.           *)
Text(t, sig)    == Part("text", <<t>>, sig)
Thought(t, sig) == Part("thought", <<t>>, sig)
Mark(sig)       == Part("none", <<>>, sig)
Call(id, name, args, sig) == CallPart(IF id = 0 THEN NoId ELSE NativeId(id), name, args, sig)
Answer(frames, whole) == [frames |-> frames, whole |-> whole]
AsSent(parts) == Answer(parts, parts)

MCAnswers ==
  {AsSent(<<Text("a", 2)>>),
   Answer(<<Thought("t", 0), Thought("u", 0), Mark(2), Text("a", 0), Mark(3)>>,
          <<Part("thought", <<"t", "u">>, 2), Text("a", 3)>>),
   AsSent(<<Call(1, "read", {"x", "default"}, 2), Call(2, "read", {"x", "default"}, 0)>>),
   Answer(<<Text("a", 0), Mark(2), Call(1, "list", {"x", "_"}, 3)>>, <<Text("a", 2), Call(1, "list", {"x", "_"}, 3)>>),
   Answer(<<Mark(2), Call(1, "free", {"x", "default"}, 0)>>, <<Call(1, "free", {"x", "default"}, 2)>>),
   Answer(<<Thought("t", 0), Call(1, "read", {"x"}, 0), Mark(2)>>, <<Thought("t", 0), Call(1, "read", {"x"}, 2)>>),
   AsSent(<<Call(0, "read", {"x"}, 2), Call(0, "read", {"y"}, 3)>>)}
MCDeclared == {"read", "list"}
MCQuestions == {"q"}

(* Responses: items that are done, deltas of reasoning, the output.        *)
Sealed(k, text) == Item("reasoning", NoCall, <<0, k>>, IF text THEN <<0, k>> ELSE Nothing)
Words          == Item("message", NoCall, Nothing, <<0, 8>>)
Calling(form)  == Item("call", <<0, 1, form>>, Nothing, Nothing)
DoneAt(i, item) == [type |-> "done", index |-> i, item |-> item]
Heard          == [type |-> "delta"]
Ended(output)  == [type |-> "completed", output |-> output]
MCStreams ==
  {<<DoneAt(2, Calling("raw")), DoneAt(1, Sealed(1, TRUE)), Heard, Ended(<<>>)>>,
   <<Heard, DoneAt(1, Sealed(1, FALSE)), DoneAt(0, Words), DoneAt(0, Calling("plain")), Ended(<<>>)>>,
   <<Heard, Ended(<<Words>>)>>,
   <<Ended(<<Sealed(1, FALSE)>>)>>}
MCConversations == {"main", "side"}
MCTopics == {<<0, 7>>}

(* Kimi: the frames of a Claude stream and the content they make.          *)
Frame(type)   == [type |-> type]
Start(i, type, id) == [type |-> "start", index |-> i, block |-> Block(type, id, <<>>, 0)]
Delta(i, kind, piece) == [type |-> "delta", index |-> i, kind |-> kind, piece |-> piece]
Stop(i)       == [type |-> "stop", index |-> i]
Between(frames) == <<Frame("message_start")>> \o frames \o <<Frame("message_stop")>>
Thinks  == <<Start(0, "thinking", 0), Delta(0, "thinking", "t"), Delta(0, "signature", 1), Stop(0)>>
Uses    == <<Start(1, "tool_use", 1), Delta(1, "input", "x"), Stop(1)>>
MCKimiStreams ==
  {Between(Thinks \o Uses), Between(Uses),
   Between(<<Start(1, "tool_use", 1), Delta(1, "input", "x")>> \o Thinks \o <<Stop(1), Delta(0, "unknown", "")>>),
   <<Frame("message_start")>> \o Thinks \o <<Frame("error")>>}
MCModels   == {[name |-> "k3-256k"], [name |-> "k3.1-pro-highspeed"]}
MCChats    == {c1, c2}
MCSessions == [MCChats -> {s1, s2}]
Alike      == {p @@ q: p \in Permutations(MCChats), q \in Permutations({s1, s2})}

(* The observer: bodies of a session as its upstream gets them.            *)
Uttered(role, text, reminder, marked) == [role |-> role, text |-> text, reminder |-> reminder, marked |-> marked]
Offer(name, schema, description) == [type |-> "function", name |-> name, schema |-> schema, description |-> description]
Noted(day)    == <<TRUE, day>>
Greets(day)    == Uttered("user", "hello", Noted(day), day = "mon")
Summary       == Uttered("user", "summary", <<>>, FALSE)
Greeting      == Uttered("assistant", "hi", <<>>, FALSE)
Prompting(role, text) == Uttered(role, text, <<>>, FALSE)
Native(system, told, tools) ==
  [api |-> "anthropic", model |-> "m", system |-> system, instructions |-> Absent, messages |-> told, tools |-> tools]
Read  == Offer("read", "path", "at noon")
ReadLater == Offer("read", "path", "at one")
ReadFile == Offer("read", "file", "at noon")
Write == Offer("write", "path", "")
MCDriftBodies ==
  LET chats == {Native("s", <<Greets("mon")>>, <<(<<Read, Write>>)>>),
                Native("s", <<Greets("tue"), Greeting>>, <<(<<Write, ReadLater>>)>>),
                Native("t", <<Summary>>, <<(<<Read, Write>>)>>),
                Native("s", <<Greets("tue"), Greeting>>, <<(<<ReadFile>>)>>),
                Native("u", <<Greets("mon")>>, <<>>)}
      rest(body, role) == IF role = "developer" /\ Len(body.messages) > 1
                          THEN <<Uttered(Absent, "result", <<>>, FALSE)>> ELSE <<>>
      system(body, role) == [body EXCEPT !.api = IF role = "system" THEN "chat" ELSE "responses", !.system = Absent,
                             !.instructions = IF role = "system" THEN Absent ELSE "blank",
                             !.messages = <<Prompting(role, body.system)>> \o body.messages \o rest(body, role)]
  IN  chats \cup {system(b, role): b \in chats, role \in {"system", "developer"}}
MCSenders == {[session |-> "a", key |-> Absent, id |-> "1"], [session |-> Absent, key |-> "a", id |-> Absent],
              [session |-> Absent, key |-> Absent, id |-> "1"]}
MCUsages == {[present |-> TRUE, cached |-> FALSE, read |-> 0, creation |-> 0], [present |-> TRUE, cached |-> TRUE, read |-> 0, creation |-> 1]}
MCApis == {"anthropic", "chat", "responses"}
=============================================================================
