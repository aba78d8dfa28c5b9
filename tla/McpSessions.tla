------------------------------ MODULE McpSessions ------------------------------
(***************************************************************************)
(* MCP: the tools list_mcp_tools and call_mcp_tool (tools/mcp.go) over the  *)
(* manager's pool of stdio sessions (mcp/manager.go) and the rules of what  *)
(* may be called (mcp/policy.go).  The pool has one session per server; it  *)
(* is dialed outside the mutex, shared by all calls, and closed by the      *)
(* first call that fails on it.                                             *)
(***************************************************************************)
EXTENDS Integers, FiniteSets, SequencesExt

CONSTANTS
    ToolCalls,    \* tool calls, of any thread
    Listers,      \* those that may be list_mcp_tools
    Server,       \* Server[s]: configuration of the server with id s and its tools
    Asks(_),      \* arguments of call_mcp_tool, per call
    Sanitized(_), \* sanitizeSegment: a name with underscores for its spaces
    Nobody        \* no session

Servers == DOMAIN Server

(* A name is the sequence of its parts between double underscores (no part  *)
(* but the last ends in an underscore), trimmed as arguments are.  A tool   *)
(* has a name, which may look mutating (the name alone decides), and so may *)
(* its description.                                                         *)
McpAssumption ==
    /\ IsFiniteSet(ToolCalls) /\ IsFiniteSet(Servers) /\ Nobody \notin Servers /\ Nobody \notin Nat
    /\ \A s \in Servers :
        /\ s \in Seq(Range(s)) /\ Len(s) > 0
        /\ \A t \in Server[s].tools : t.name \in Seq(Range(t.name)) /\ t.name # <<>>
        /\ \A t, u \in Server[s].tools : t.name = u.name => t.writes = u.writes
        /\ Server[s].enabled \in BOOLEAN /\ Server[s].mutations \in BOOLEAN
        /\ Server[s].deny \subseteq {t.name : t \in Server[s].tools}
        /\ Server[s].allow \subseteq {t.name : t \in Server[s].tools}

VARIABLES
    pool,         \* pool[s]: the session that calls share
    open,         \* sessions that are connected
    toolCall,     \* toolCall[c]: the state of a call
    erred,        \* ghost: servers of a call that ended in an error of its own
    shut          \* the manager was closed

mcpVars == <<pool, open, toolCall, erred, shut>>

-----------------------------------------------------------------------------
(* Names and rules. *)

Namespace(s, t) == Sanitized(s) \o Sanitized(t)

(* The first double underscore ends the server's id; nothing brings the     *)
(* spaces back.                                                             *)
ParseNamespaced(name) == [server |-> SubSeq(name, 1, 1), tool |-> Tail(name)]

(* execCallMCPTool: the model gives a server and a tool, or one name.       *)
Resolved(ask) == IF "name" \in DOMAIN ask THEN ParseNamespaced(ask.name) ELSE ask

LooksMutating(tool, described) == tool.writes \/ (described /\ tool.says)

CheckCallAllowed(srv, tool, described) ==
    /\ tool.name \notin srv.deny
    /\ srv.allow # {} => tool.name \in srv.allow
    /\ LooksMutating(tool, described) => srv.mutations /\ srv.allow # {}

(* The tool behind a name; a server that does not know it will say so.      *)
ToolOf(s, name) ==
    IF \E t \in Server[s].tools : t.name = name
      THEN CHOOSE t \in Server[s].tools : t.name = name
      ELSE [name |-> name, writes |-> FALSE, says |-> FALSE]

(* ListTools: what the model is told it may call.                           *)
ListedAllowed(s, tool) ==
    Server[s].enabled /\ tool \in Server[s].tools /\ CheckCallAllowed(Server[s], tool, TRUE)

(* CallTool decides without the description.                                *)
Admitted(to) ==
    /\ to.server \in Servers /\ Server[to.server].enabled
    /\ to.tool # <<>>
    /\ CheckCallAllowed(Server[to.server], ToolOf(to.server, to.tool), FALSE)

(* A listed name leads back to its tool unless a space was turned into an   *)
(* underscore, or the server's id has a double underscore: such a name is   *)
(* parsed as another server's.                                              *)
LeadsBack(s, t) == Len(s) = 1 /\ Sanitized(s) = s /\ Sanitized(t) = t

(* What the listing promises: a tool by server and name, or by its listed   *)
(* name if that leads back.                                                 *)
Promised(ask) ==
    \E s \in Servers : \E t \in Server[s].tools :
        /\ ListedAllowed(s, t)
        /\ \/ ask = [server |-> s, tool |-> t.name]
           \/ LeadsBack(s, t.name) /\ ask = [name |-> Namespace(s, t.name)]

-----------------------------------------------------------------------------
(* to: ghost, the server of a call the listing promised.                    *)
Unasked ==
    [pc |-> "idle", to |-> Nobody, todo |-> <<>>, own |-> Nobody, sess |-> Nobody, out |-> "none"]

McpInit ==
    /\ pool = [s \in Servers |-> Nobody] /\ open = {}
    /\ toolCall = [c \in ToolCalls |-> Unasked]
    /\ erred = {} /\ shut = FALSE

(* The server a call works on: a listing goes through its servers in turn.  *)
ServerOf(c) == Head(toolCall[c].todo)

SetCall(c, state) == toolCall' = [toolCall EXCEPT ![c] = state]

(* A call is over; a listing goes on with the next server whatever happened. *)
Left(c, out) ==
    LET rest == Tail(toolCall[c].todo) IN
    SetCall(c, [toolCall[c] EXCEPT !.todo = rest, !.own = Nobody, !.sess = Nobody, !.out = out,
                                   !.pc = IF rest = <<>> THEN "done" ELSE "lookup"])

CallTool(c) ==
    /\ toolCall[c].pc = "idle"
    /\ \E ask \in Asks(c) :
         LET to == Resolved(ask)
             who == IF Promised(ask) THEN to.server ELSE Nobody
         IN  SetCall(c, IF Admitted(to)
                      THEN [Unasked EXCEPT !.pc = "lookup", !.to = who, !.todo = <<to.server>>]
                      ELSE [Unasked EXCEPT !.pc = "done", !.to = who, !.out = "refused"])
    /\ UNCHANGED <<pool, open, erred, shut>>

(* One server or all, also behind the usage message of a call without       *)
(* arguments; all come in the order of a map, and those that are disabled   *)
(* are only reported.                                                       *)
ListTools(c) ==
    /\ toolCall[c].pc = "idle" /\ c \in Listers
    /\ LET on == {s \in Servers : Server[s].enabled} IN
       \E todo \in SetToSeqs(on) \cup {<<s>> : s \in on} :
         SetCall(c, [Unasked EXCEPT !.pc = IF todo = <<>> THEN "done" ELSE "lookup", !.todo = todo])
    /\ UNCHANGED <<pool, open, erred, shut>>

(* Manager.session, first look under the mutex.                             *)
LooksUp(c) ==
    /\ toolCall[c].pc = "lookup"
    /\ IF pool[ServerOf(c)] # Nobody
         THEN SetCall(c, [toolCall[c] EXCEPT !.pc = "sent", !.sess = pool[ServerOf(c)]])
         ELSE SetCall(c, [toolCall[c] EXCEPT !.pc = "dial"])
    /\ UNCHANGED <<pool, open, erred, shut>>

(* Sessions are numbered; a number is free when nobody holds its session:   *)
(* each server's session and the two a call may hold are in use.            *)
Sessions == 1 .. 2 * Cardinality(ToolCalls) + Cardinality(Servers) + 1
InUse == open \cup Range(pool) \cup UNION {{toolCall[d].own, toolCall[d].sess} : d \in ToolCalls}

(* The connect runs without the mutex and may fail or time out.             *)
Dial(c) ==
    /\ toolCall[c].pc = "dial"
    /\ \/ Left(c, "failed") /\ UNCHANGED open
       \/ LET k == Min(Sessions \ InUse) IN
            /\ open' = open \cup {k}
            /\ SetCall(c, [toolCall[c] EXCEPT !.pc = "store", !.own = k])
    /\ UNCHANGED <<pool, erred, shut>>

(* A plausible slip: the new session replaces the one of the other call.    *)
Store_m(c) ==
    /\ toolCall[c].pc = "store"
    /\ pool' = [pool EXCEPT ![ServerOf(c)] = toolCall[c].own]
    /\ SetCall(c, [toolCall[c] EXCEPT !.pc = "sent", !.own = Nobody, !.sess = toolCall[c].own])
    /\ UNCHANGED <<open, erred, shut>>

(* Second look: another call may have connected meanwhile.                  *)
Store(c) ==
    /\ toolCall[c].pc = "store"
    /\ IF pool[ServerOf(c)] # Nobody
         THEN /\ SetCall(c, [toolCall[c] EXCEPT !.pc = "spare", !.sess = pool[ServerOf(c)]])
              /\ UNCHANGED pool
         ELSE /\ pool' = [pool EXCEPT ![ServerOf(c)] = toolCall[c].own]
              /\ SetCall(c, [toolCall[c] EXCEPT !.pc = "sent", !.own = Nobody, !.sess = toolCall[c].own])
    /\ UNCHANGED <<open, erred, shut>>

(* A plausible slip: the session of the other call is the one closed.       *)
CloseSpare_m(c) ==
    /\ toolCall[c].pc = "spare"
    /\ open' = open \ {toolCall[c].sess}
    /\ SetCall(c, [toolCall[c] EXCEPT !.pc = "sent", !.own = Nobody])
    /\ UNCHANGED <<pool, erred, shut>>

(* The session of its own that turned out to be spare, after the unlock.    *)
CloseSpare(c) ==
    /\ toolCall[c].pc = "spare"
    /\ open' = open \ {toolCall[c].own}
    /\ SetCall(c, [toolCall[c] EXCEPT !.pc = "sent", !.own = Nobody])
    /\ UNCHANGED <<pool, erred, shut>>

(* The server answers, with a result or one marked as an error; or the call *)
(* ends in an error of its own: the server fails, is too late or rejects    *)
(* the request, or the caller has stopped; or the session was closed under  *)
(* the call.  Every error drops the session, whoever's it is.               *)
ServerAnswers(c) ==
    /\ toolCall[c].pc = "sent"
    /\ \/ /\ toolCall[c].sess \in open /\ Left(c, "ok") /\ UNCHANGED erred
       \/ /\ erred' = erred \cup {ServerOf(c)}
          /\ SetCall(c, [toolCall[c] EXCEPT !.pc = "drop", !.out = "failed"])
       \/ /\ toolCall[c].sess \notin open /\ UNCHANGED erred
          /\ SetCall(c, [toolCall[c] EXCEPT !.pc = "drop", !.out = "closed"])
    /\ UNCHANGED <<pool, open, shut>>

(* dropSession closes whatever the pool holds by now.                       *)
Drop(c) ==
    /\ toolCall[c].pc = "drop"
    /\ open' = open \ {pool[ServerOf(c)]}
    /\ pool' = [pool EXCEPT ![ServerOf(c)] = Nobody]
    /\ Left(c, toolCall[c].out)
    /\ UNCHANGED <<erred, shut>>

(* Manager.Close, when the server has stopped serving.                      *)
Close ==
    /\ ~shut /\ shut' = TRUE
    /\ open' = open \ {pool[s] : s \in Servers}
    /\ pool' = [s \in Servers |-> Nobody]
    /\ UNCHANGED <<toolCall, erred>>

McpNext ==
    \/ Close
    \/ \E c \in ToolCalls : \/ CallTool(c) \/ ListTools(c) \/ LooksUp(c) \/ Dial(c)
                        \/ Store(c) \/ CloseSpare(c) \/ ServerAnswers(c) \/ Drop(c)

McpSpec == McpInit /\ [][McpNext]_mcpVars

-----------------------------------------------------------------------------
McpTypeOK ==
    /\ open \subseteq Sessions
    /\ \A s \in Servers : pool[s] \in Sessions \cup {Nobody}
    /\ \A c \in ToolCalls :
         /\ toolCall[c].pc \in {"idle", "lookup", "dial", "store", "spare", "sent", "drop", "done"}
         /\ Range(toolCall[c].todo) \subseteq Servers
         /\ toolCall[c].out \in {"none", "ok", "refused", "failed", "closed"}

(* No session is lost: what is connected is in the pool, once, or is the    *)
(* spare one of a call that is about to store or close it; and what is in   *)
(* the pool is connected.                                                   *)
SessionsOwned ==
    /\ \A s \in Servers : pool[s] \in open \cup {Nobody}
    /\ \A k \in open :
         \/ \E s \in Servers : pool[s] = k
         \/ \E c \in ToolCalls : toolCall[c].own = k
    /\ \A s, t \in Servers : pool[s] # Nobody /\ pool[s] = pool[t] => s = t

(* A tool that the listing calls allowed can be called: the call is never   *)
(* refused, and its session is closed under it only when some call of that  *)
(* server ended in an error of its own, whoever's fault that was, or the    *)
(* manager was shut.                                                        *)
ListedCallWorks ==
    \A c \in ToolCalls :
        toolCall[c].to # Nobody =>
            /\ toolCall[c].out # "refused"
            /\ toolCall[c].out = "closed" => shut \/ toolCall[c].to \in erred
=============================================================================
