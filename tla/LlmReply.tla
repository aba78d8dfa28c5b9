------------------------------- MODULE LlmReply -------------------------------
(***************************************************************************)
(* What the LLM client makes of an answer: the assembly of an event stream *)
(* (stream.go), the reading of a payload (client.go, messages.go) and the  *)
(* tool calls that are written as text (xml_tool_parse.go).                *)
(*                                                                         *)
(* Text is a sequence of pieces: words, or a block of tool calls in one of *)
(* the four text formats.  A tool call is a name and its arguments, a      *)
(* function from keys; identifiers of calls are left out (each is fresh).  *)
(***************************************************************************)
EXTENDS Integers, Sequences, FiniteSets, SequencesExt

Say == [kind |-> "say"]
Block(calls) == [kind |-> "xml", calls |-> calls]
Call(name, args) == [name |-> name, args |-> args]

IsSeq(s) == s \in Seq(Range(s))
IsText(t) == IsSeq(t) /\ \A p \in Range(t) : p.kind = "xml" => IsSeq(p.calls)

(* The arguments of a written call: its parameters, and those nested in the *)
(* content parameter, which are taken out of it and never replace a         *)
(* parameter of the call.  content is empty, or the keys nested in it.      *)
Nested(content) == UNION Range(content) \ {"content"}

ParseArgs(own, content) ==
    [k \in (own \ {"content"}) \cup Nested(content) \cup {"content" : x \in Range(content)} |->
        IF k \in own \/ k = "content" THEN "own" ELSE "nested"]

(* Kimi calls: a JSON object (or the lines in its input), lines of key and  *)
(* value, or a bare command.                                                *)
ParseKimiArgs(raw) ==
    CASE raw.form = "empty" -> <<>>
      [] raw.form \in {"json", "lines"} /\ raw.keys # {} -> [k \in raw.keys |-> "own"]
      [] raw.form = "json" /\ raw.keys = {} -> <<>>
      [] OTHER -> [k \in {"input"} |-> "own"]

(* The calls of every block in the order of the text, several of one Kimi   *)
(* section included, and the text without the blocks.                       *)
ExtractXMLToolCalls(text) ==
    FlattenSeq([i \in DOMAIN text |->
                  IF text[i].kind = "xml" THEN text[i].calls ELSE <<>>])

Stripped(text) ==
    FlattenSeq([i \in DOMAIN text |->
                  IF text[i].kind = "xml" THEN <<>> ELSE <<text[i]>>])

(* The how manieth call of its name s[i] is. *)
Nth(s, i) == Cardinality({k \in 1..i : s[k].name = s[i].name})

Count(s, name) == Cardinality({k \in DOMAIN s : s[k].name = name})

(* A plausible slip: written calls are never marked as used. *)
Merged_m(api, xml) == api \o xml

(* Each native call uses up the first unused written call of its name, and  *)
(* takes its arguments when it has none; the unused ones follow.            *)
Merged(api, xml) ==
    LET partner(i) == {j \in DOMAIN xml : /\ xml[j].name = api[i].name
                                          /\ Nth(xml, j) = Nth(api, i)}
        fill(i) == IF api[i].args = <<>> /\ partner(i) # {}
                   THEN xml[CHOOSE j \in partner(i) : TRUE] ELSE api[i]
        unused[j \in 0..Len(xml)] ==
            IF j = 0 THEN <<>>
            ELSE IF Nth(xml, j) > Count(api, xml[j].name) THEN Append(unused[j - 1], xml[j])
            ELSE unused[j - 1]
    IN  [i \in DOMAIN api |-> fill(i)] \o unused[Len(xml)]

MergeXMLToolCalls(api, text) ==
    LET xml == ExtractXMLToolCalls(text)
    IN  IF xml = <<>> THEN [calls |-> api, text |-> text]
        ELSE [calls |-> Merged(api, xml), text |-> Stripped(text)]

(* The worker applies the merge again, with everything it saw streamed. *)
RecoverXMLToolCalls(res, streamed) ==
    LET m == MergeXMLToolCalls(res.calls, streamed)
    IN  IF Len(m.calls) = Len(res.calls) /\ m.text = streamed THEN res
        ELSE [calls |-> m.calls,
              text  |-> IF ExtractXMLToolCalls(res.text) # <<>> THEN m.text ELSE res.text]

-----------------------------------------------------------------------------
(* Assembly of a stream.  `failed`, `completed` and `incomplete` are the    *)
(* terminal marks; `resp` and `chat` say which dialect was seen; `items`    *)
(* are the output items; `tools` the fragments of calls by index.           *)

NewAssembler ==
    [resp |-> FALSE, chat |-> FALSE, failed |-> FALSE, completed |-> FALSE,
     incomplete |-> FALSE, deltas |-> <<>>, done |-> <<>>, items |-> <<>>,
     content |-> <<>>, tools |-> <<>>]

Message(text) == [item |-> "message", text |-> text]
FunctionCall(call) == [item |-> "call", call |-> call]

IsItem(x) == x.item \in {"message", "call"} /\ (x.item = "message" => IsText(x.text))
IsEvent(e) ==
    /\ e.type \in {"error", "ping", "chunk", "delta", "text.done", "item.done", "completed",
                   "incomplete", "failed"}
    /\ e.type \in {"chunk", "delta", "text.done"} => IsText(e.text)
    /\ e.type = "chunk" /\ e.tool # <<>> => e.tool[1].index \in Nat
    /\ e.type = "item.done" => IsItem(e.item)
    /\ e.type = "completed" => IsSeq(e.output) /\ \A x \in Range(e.output) : IsItem(x)

(* One event: an error event, a chat chunk (a piece of text and a fragment  *)
(* of a call), or a response event.  Pings, comments and lines that are no  *)
(* JSON change nothing.                                                     *)
FeedChat(a, e) ==
    LET seen(i) == IF i \in DOMAIN a.tools THEN a.tools[i].parts ELSE <<>>
        slot(t) == [name |-> t.name, parts |-> seen(t.index) \o t.parts]
    IN  [a EXCEPT !.chat = TRUE, !.content = @ \o e.text,
                  !.tools = IF e.tool = <<>> THEN @
                            ELSE [i \in DOMAIN @ \cup {e.tool[1].index} |->
                                    IF i = e.tool[1].index THEN slot(e.tool[1]) ELSE @[i]]]

FeedResponses(a, e) ==
    LET b == [a EXCEPT !.resp = TRUE]
    IN  CASE e.type = "delta"      -> [b EXCEPT !.deltas = @ \o e.text]
          [] e.type = "text.done"  -> [b EXCEPT !.done = e.text]
          [] e.type = "item.done"  -> [b EXCEPT !.items = Append(@, e.item)]
          [] e.type = "completed"  -> [b EXCEPT !.completed = TRUE, !.failed = @ \/ e.err,
                                                !.items = IF e.output = <<>> THEN @ ELSE e.output]
          [] e.type = "incomplete" -> [b EXCEPT !.incomplete = TRUE]
          [] e.type = "failed"     -> [b EXCEPT !.failed = TRUE]

Feed(a, e) ==
    CASE e.type = "error" -> [a EXCEPT !.failed = TRUE]
      [] e.type = "ping"  -> a
      [] e.type = "chunk" -> FeedChat(a, e)
      [] OTHER            -> FeedResponses(a, e)

(* The text that an event hands to the stream hooks. *)
Emitted(e) == IF e.type \in {"delta", "chunk"} THEN e.text ELSE <<>>

(* Arguments arrive in two parts; a string that is cut is no JSON and      *)
(* counts as no arguments.                                                 *)
ArgsOf(parts) == IF parts = <<"open", "close">> THEN ParseArgs({"path"}, <<>>) ELSE <<>>

(* The calls in the order of their indices, which may have gaps. *)
ChatPayload(a) ==
    LET tool(i) == IF i \in DOMAIN a.tools
                   THEN <<Call(a.tools[i].name, ArgsOf(a.tools[i].parts))>> ELSE <<>>
    IN  [calls |-> IF DOMAIN a.tools = {} THEN <<>>
                   ELSE FlattenSeq([n \in 1..Max(DOMAIN a.tools) + 1 |-> tool(n - 1)]),
         text  |-> a.content]

(* The final text, or the deltas, become a message if there is none. *)
ResponsesPayload(a) ==
    LET text == IF a.done # <<>> THEN a.done ELSE a.deltas
        calls(x) == IF x.item = "call" THEN <<x.call>> ELSE <<>>
        words(x) == IF x.item = "message" THEN x.text ELSE <<>>
        said == FlattenSeq([i \in DOMAIN a.items |-> words(a.items[i])])
    IN  [calls |-> FlattenSeq([i \in DOMAIN a.items |-> calls(a.items[i])]),
         text  |-> IF said = <<>> THEN text ELSE said]

(* "transport" (to be retried), "bad" (not), or a payload. *)
Verdict(a) ==
    IF a.failed \/ ~(a.resp \/ a.chat) THEN "bad"
    ELSE IF a.resp /\ (a.incomplete \/ ~a.completed) THEN "transport"
    ELSE "payload"

(* The result of a payload, native and written calls merged. *)
Payload(a) == IF a.resp THEN ResponsesPayload(a) ELSE ChatPayload(a)

Parsed(payload) == MergeXMLToolCalls(payload.calls, payload.text)
=============================================================================
