------------------------------- MODULE MCLlmCall -------------------------------
(***************************************************************************)
(* One call alone, with every kind of answer and stream, and two plain ones *)
(* that race for the cursor.  Four configurations: failover with retries,   *)
(* rotation with a provider that is switched off, a switch to a provider    *)
(* that is off, and a single provider that does not stream.                 *)
(***************************************************************************)
EXTENDS LlmCall

CONSTANTS A, B, C, c1, c2, c3

MCOrder == <<A, B, C>>

Provider(enabled, key, api, max) == [enabled |-> enabled, key |-> key, api |-> api, max |-> max]

Failover == [strategy |-> "failover", active |-> B, budget |-> 3, stream |-> TRUE,
             prov |-> (A :> Provider(TRUE, TRUE, "chat", 1) @@ B :> Provider(TRUE, TRUE, "responses", 2))]
Rotation == [strategy |-> "round_robin", active |-> None, budget |-> 2, stream |-> TRUE,
             prov |-> (A :> Provider(TRUE, TRUE, "chat", 1) @@ B :> Provider(FALSE, FALSE, "chat", 1)
                       @@ C :> Provider(TRUE, TRUE, "responses", 1))]
Switch   == [strategy |-> "switch", active |-> B, budget |-> 2, stream |-> TRUE,
             prov |-> (A :> Provider(TRUE, TRUE, "chat", 1) @@ B :> Provider(FALSE, TRUE, "chat", 1))]
Single   == [strategy |-> "round_robin", active |-> A, budget |-> 2, stream |-> FALSE,
             prov |-> (A :> Provider(TRUE, TRUE, "messages", 2))]

MCCrowds == {{c1}, {c2, c3}}
MCConfigs == {Failover, Rotation, Switch, Single}
MCPins(c) == IF c = c1 THEN {None, A} ELSE {None}

NoArgs == <<>>
Full == ParseArgs({"path"}, <<{"path", "append"}>>)
Written == <<Block(<<Call("t", Full)>>)>>
Section == <<Say, Block(<<Call("u", ParseKimiArgs([form |-> "bare"])), Call("t", NoArgs)>>)>>

Unreachable == {[kind |-> "connect", streamish |-> FALSE]}

Answered == [kind |-> "json", streamish |-> FALSE,
             payload |-> [calls |-> <<Call("t", NoArgs)>>, text |-> Written]]
MCReplies(c) ==
    Unreachable \cup {Answered} \cup
    IF c # c1 THEN {}
    ELSE {[kind |-> "status", streamish |-> FALSE, transient |-> TRUE, after |-> 9],
          [kind |-> "status", streamish |-> TRUE, transient |-> FALSE, after |-> 0],
          [kind |-> "body", streamish |-> FALSE],
          [kind |-> "json", streamish |-> TRUE, payload |-> [calls |-> <<>>, text |-> <<>>]]}

MCEvents(c) ==
    IF c # c1 THEN {}
    ELSE {[type |-> "ping"], [type |-> "error"],
          [type |-> "chunk", text |-> Section, tool |-> <<>>],
          [type |-> "chunk", text |-> <<Say>>, tool |-> <<[index |-> 0, name |-> "t", parts |-> <<"open">>]>>],
          [type |-> "chunk", text |-> <<>>, tool |-> <<[index |-> 0, name |-> "t", parts |-> <<"close">>]>>],
          [type |-> "delta", text |-> Written],
          [type |-> "text.done", text |-> Written],
          [type |-> "item.done", item |-> FunctionCall(Call("t", NoArgs))],
          [type |-> "item.done", item |-> Message(Written)],
          [type |-> "completed", output |-> <<>>, err |-> FALSE],
          [type |-> "incomplete"], [type |-> "failed"]}
=============================================================================
