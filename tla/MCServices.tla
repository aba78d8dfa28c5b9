------------------------------- MODULE MCServices -------------------------------
(***************************************************************************)
(* The services beside the turn, each on a small instance.  They share no   *)
(* state with one another, so one run takes them in turn: focus names the   *)
(* service that a behaviour exercises, and the others rest.                 *)
(***************************************************************************)
EXTENDS Settings, Pages, Attachments, DocsIndex, McpSessions, Accounts, EffortPolicy, ModelPicker

CONSTANTS P, Q, m1, m2, u1, u2, c1, c2, c3, c4, c5

-----------------------------------------------------------------------------
(* Settings: an empty start, or two users and two providers, of which the   *)
(* first by name is off and needs no key; two requests and a crash.         *)
MCOrder == <<P, Q>>
MCKeyOptional == {P}
MCModels == {m1, m2}
MCUsers == {u1, u2}
NoSlots == [p \in {} |-> 0]
MCEnv == [slots |-> NoSlots, active |-> None, stub |-> TRUE,
          knobs |-> [reserve_tokens |-> 3, lock_ttl_sec |-> 8]]
Two == [users |-> (u1 :> "owner" @@ u2 :> "owner"),
        providers |-> <<[id |-> Q, key |-> TRUE, enabled |-> TRUE, models |-> <<m1, m2>>],
                        [id |-> P, key |-> FALSE, enabled |-> FALSE, models |-> <<>>]>>,
        active |-> Q, knobs |-> [reserve_tokens |-> None, lock_ttl_sec |-> None]]

MCStart == {None, Two}

-----------------------------------------------------------------------------
(* MCP: two calls of tools and a listing, over a server with mutating tools *)
(* and rules for them and a tool with a space in its name, a read-only one  *)
(* whose id has a double underscore, and one that is switched off.          *)
Echo == <<"echo">>
DevDb == <<"dev", "db">>
Off == <<"off">>
Tool(name, writes, says) == [name |-> name, writes |-> writes, says |-> says]
MCServer ==
    Echo :> [enabled |-> TRUE, mutations |-> TRUE,
             deny |-> {<<"drop">>}, allow |-> {<<"echo">>, <<"send", "it">>, <<"list all">>},
             tools |-> {Tool(<<"echo">>, FALSE, FALSE), Tool(<<"send", "it">>, TRUE, FALSE),
                        Tool(<<"drop">>, TRUE, TRUE), Tool(<<"list all">>, FALSE, FALSE)}]
 @@ DevDb :> [enabled |-> TRUE, mutations |-> FALSE, deny |-> {}, allow |-> {},
              tools |-> {Tool(<<"read">>, FALSE, FALSE), Tool(<<"stat">>, FALSE, TRUE)}]
 @@ Off :> [enabled |-> FALSE, mutations |-> FALSE, deny |-> {}, allow |-> {}, tools |-> {}]

MCSanitized(name) == [i \in DOMAIN name |-> IF name[i] = "list all" THEN "list_all" ELSE name[i]]
Named(s, name) == [server |-> s, tool |-> name]
ToolNames == {t.name : t \in UNION {MCServer[s].tools : s \in DOMAIN MCServer}}
MCAsks(x) ==
    CASE x = c1 -> {Named(s, t) : s \in {Echo, DevDb}, t \in ToolNames}
                    \cup {[name |-> Echo \o MCSanitized(t.name)] : t \in MCServer[Echo].tools}
                    \cup {[name |-> DevDb \o <<"read">>], [name |-> Echo], Named(Off, Echo)}
      [] x = c2 -> {Named(Echo, <<"echo">>)}
      [] OTHER -> {}

MCToolCalls == {c1, c2, c3}
MCListers == {c3}

-----------------------------------------------------------------------------
(* Pages: five calls on one page. *)
MCCalls == {c1, c2, c3, c4, c5}
MCKinds(x) ==
    CASE x = c1 -> {"create"} [] x = c2 -> {"publish"} [] x = c3 -> {"delete"}
      [] x = c4 -> {"create", "edit", "replace", "unpublish", "delete"}
      [] OTHER -> {"publish", "unpublish", "delete"}

-----------------------------------------------------------------------------
(* Attachments: a text, an image too large for pixels, and a text that is   *)
(* over the limit.                                                          *)
MCUploads == {c1, c2, c3}
MCUpload == c1 :> [size |-> 1, kind |-> "text"] @@ c2 :> [size |-> 2, kind |-> "image"]
              @@ c3 :> [size |-> 3, kind |-> "text"]

-----------------------------------------------------------------------------
(* Accounts: three logins for one session; limits of one and two failures.  *)
MCLogins == {c1, c2, c3}

-----------------------------------------------------------------------------
(* Effort: a model whose levels have gaps and that must reason, and one     *)
(* that cannot, which change places with the settings; then the messages    *)
(* API, and a provider without URL or model.  The turns bring a mode or a   *)
(* model, or leave both to the settings.                                    *)
Capable == [supports |-> TRUE, default |-> 0, levels |-> <<0, 4, 6>>, mandatory |-> TRUE]
Plain == [supports |-> FALSE, default |-> -1, levels |-> <<>>, mandatory |-> FALSE]

MCRequests == {c1, c2}
MCModes == {-3, 0, 1}
MCOverrides == {"", m2}
Provider(api, url, model, mode) == [api |-> api, url |-> url, model |-> model, mode |-> mode]
MCSetup == <<Provider("chat", "url", m1, -1), Provider("responses", "url", m1, 5),
             Provider("messages", "url", m1, -1), Provider("chat", "", "", -1)>>
Says(x, y) == [k \in {"url", ""} \X {m1, m2, ""} |-> IF k[2] = m2 THEN y ELSE x]
MCAdvertised == <<Says(Capable, Plain), Says(Plain, Capable), Says(Capable, Capable), Says(Plain, Plain)>>
MCGuess == {m2}

-----------------------------------------------------------------------------
(* The picker: every pair of slots, both strategies, two later settings;    *)
(* the chat is a stub when no enabled provider has a key or needs none.     *)
(* One of the models is spelled like a provider.                            *)
Slots == [enabled : BOOLEAN, list : {<<>>, <<m1>>, <<m2, m1>>}, bare : BOOLEAN, hidden : {{}, {m1}}]
Setting(strategy, active, of) ==
    [stub |-> \A p \in DOMAIN of : of[p].enabled => of[p].bare,
     strategy |-> strategy, active |-> active, slots |-> of]
MCConfigs == {Setting(x, Q, of) : x \in {"switch", "failover"}, of \in [{P, Q} -> Slots]}
OneLeft(bare, active) ==
    Setting("failover", active, P :> [enabled |-> TRUE, list |-> <<m1>>, bare |-> bare, hidden |-> {}])
MCLater == {OneLeft(TRUE, Nothing), OneLeft(FALSE, P)}

MCModelIds == {m1, m2}
MCUpper(x) == IF x = m2 THEN P ELSE x

-----------------------------------------------------------------------------
ASSUME ServicesAssumption ==
    /\ SettingsAssumption /\ McpAssumption /\ AttachmentsAssumption
    /\ DocsAssumption /\ AccountsAssumption /\ EffortAssumption
    /\ PickerAssumption

VARIABLE focus

Services == {"settings", "mcp", "pages", "attachments", "docs", "accounts", "effort", "picker"}

(* A service that rests does so in one of its initial states.               *)
Init ==
    /\ focus \in Services
    /\ SettingsInit /\ (focus # "settings" => file = None)
    /\ McpInit
    /\ PagesInit /\ (focus # "pages" => call[c4].kind = "edit" /\ call[c5].kind = "publish")
    /\ AttachmentsInit /\ DocsInit /\ AccountsInit
    /\ EffortInit /\ (focus # "effort" => \A x \in {c1, c2} : request[x].asks = 0 /\ request[x].model = "")
    /\ PickerInit
    /\ focus # "picker" => settings = CHOOSE f \in MCConfigs : TRUE

(* All services rest but one.                                               *)
Rest(but) ==
    /\ UNCHANGED focus
    /\ but # "settings" => UNCHANGED settingsVars
    /\ but # "mcp" => UNCHANGED mcpVars
    /\ but # "pages" => UNCHANGED pagesVars
    /\ but # "attachments" => UNCHANGED attachmentsVars
    /\ but # "docs" => UNCHANGED docsVars
    /\ but # "accounts" => UNCHANGED accountsVars
    /\ but # "effort" => UNCHANGED effortVars
    /\ but # "picker" => UNCHANGED pickerVars

Next ==
    \/ focus = "settings" /\ SettingsNext /\ Rest("settings")
    \/ focus = "mcp" /\ McpNext /\ Rest("mcp")
    \/ focus = "pages" /\ PagesNext /\ Rest("pages")
    \/ focus = "attachments" /\ AttachmentsNext /\ Rest("attachments")
    \/ focus = "docs" /\ DocsNext /\ Rest("docs")
    \/ focus = "accounts" /\ AccountsNext /\ Rest("accounts")
    \/ focus = "effort" /\ EffortNext /\ Rest("effort")
    \/ focus = "picker" /\ PickerNext /\ Rest("picker")

vars == <<focus, settingsVars, mcpVars, pagesVars, attachmentsVars, docsVars,
          accountsVars, effortVars, pickerVars>>

Spec == Init /\ [][Next]_vars

-----------------------------------------------------------------------------
(* The type invariant of the service in focus; the others rest.             *)
TypeOK ==
    CASE focus = "settings" -> SettingsTypeOK
      [] focus = "mcp" -> McpTypeOK
      [] focus = "pages" -> PagesTypeOK
      [] focus = "attachments" -> AttachmentsTypeOK
      [] focus = "docs" -> DocsTypeOK
      [] focus = "accounts" -> AccountsTypeOK
      [] focus = "effort" -> EffortTypeOK
      [] focus = "picker" -> PickerTypeOK
=============================================================================
