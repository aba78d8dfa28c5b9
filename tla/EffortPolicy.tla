------------------------------ MODULE EffortPolicy ------------------------------
(***************************************************************************)
(* The reasoning effort that a request asks for (llm/client.go,             *)
(* llm/effort_policy.go).  The client's policy asks the provider's /models  *)
(* once for each base URL and model and remembers the answer; the cache is  *)
(* locked for each access, but not while the provider is asked.  A reload   *)
(* of the settings gives the client a new policy: requests that are under   *)
(* way keep the provider, and perhaps the policy, of the old settings.      *)
(***************************************************************************)
EXTENDS Integers, SequencesExt

CONSTANTS
    Requests,     \* requests to the model
    Modes,        \* efforts that a turn may ask for: Default, EffortAuto or a rank
    Overrides,    \* models that a turn may ask for; "" for the provider's own
    Setup,        \* Setup[e]: the provider and the effort mode of the e-th settings
    Advertised,   \* Advertised[e][url, model]: what /models says under them
    Guess         \* models whose name promises effort (HeuristicModelSupportsEffort)

(* Levels are their ranks: none, minimal, low, medium, high, xhigh, max.    *)
Ranks == 0..6
EffortNone == 0
EffortMedium == 3
EffortAuto == -1        \* also: no default
Omit == -2
Default == -3           \* the mode of the settings

Epochs == DOMAIN Setup
Urls == {Setup[e].url : e \in Epochs}
ModelNames == {Setup[e].model : e \in Epochs} \cup Overrides
Keys == Urls \X ModelNames

EffortAssumption ==
    /\ Setup # <<>> /\ Epochs = 1..Len(Setup) /\ Len(Setup) \in Nat
    /\ Modes \subseteq Ranks \cup {EffortAuto, Default}
    /\ \A e \in Epochs :
         /\ Setup[e].api \in {"chat", "responses", "messages"}
         /\ Setup[e].mode \in Ranks \cup {EffortAuto}
         /\ \A k \in Keys :
              LET info == Advertised[e][k] IN
              /\ info.default \in Ranks \cup {EffortAuto} /\ info.levels \in Seq(Ranks)
              /\ {info.supports, info.mandatory} \subseteq BOOLEAN

VARIABLES
    epoch,        \* the settings in force
    policies,     \* every policy the client has had; the last one is in force
    request       \* request[c]: what c asks for and where it is

effortVars == <<epoch, policies, request>>

-----------------------------------------------------------------------------
(* What a level becomes. *)

Dist(a, b) == IF a < b THEN b - a ELSE a - b

WantedLevelFor(mode, info) ==
    IF ~info.supports THEN Omit
    ELSE IF mode = EffortAuto
      THEN IF info.default = EffortAuto THEN EffortMedium
           ELSE IF info.default = EffortNone THEN Omit ELSE info.default
    ELSE IF mode = EffortNone /\ info.mandatory THEN Omit ELSE mode

(* The places of the first of the nearest levels, and of the first level.   *)
Nearest(levels, wanted) ==
    Min({i \in DOMAIN levels : \A j \in DOMAIN levels :
             Dist(levels[i], wanted) <= Dist(levels[j], wanted)})

FirstLevel(levels) == Min({i \in DOMAIN levels : levels[i] # EffortNone})

(* The nearest level; "none" only if a mandatory model has nothing else.    *)
MapToSupported(wanted, info) ==
    IF info.levels = <<>> \/ wanted \in Range(info.levels) THEN wanted
    ELSE LET near == info.levels[Nearest(info.levels, wanted)]
         IN  IF near = EffortNone /\ info.mandatory /\ \E l \in Range(info.levels) : l # EffortNone
               THEN info.levels[FirstLevel(info.levels)] ELSE near

ResolveEffort(mode, info) ==
    LET wanted == WantedLevelFor(mode, info) IN
    IF wanted = Omit THEN Omit ELSE MapToSupported(wanted, info)

-----------------------------------------------------------------------------
(* What a lookup finds: whether the provider answered, and (ghost) under    *)
(* which settings it did.                                                   *)
Unknown == [known |-> FALSE, real |-> FALSE, at |-> 1]
Found(real) == [known |-> TRUE, real |-> real, at |-> epoch]

GuessedInfo(model) ==
    [supports |-> model \in Guess, default |-> IF model \in Guess THEN EffortMedium ELSE EffortAuto,
     levels |-> <<>>, mandatory |-> FALSE]

Info(key, found) == IF found.real THEN Advertised[found.at][key] ELSE GuessedInfo(key[2])

NewEffortPolicy(e) == [mode |-> Setup[e].mode, cache |-> [k \in Keys |-> Unknown]]

EffortInit ==
    /\ epoch = 1
    /\ policies = <<NewEffortPolicy(1)>>
    /\ request \in [Requests -> [pc : {"start"}, asks : Modes, model : Overrides, of : {1}, since : {1},
                                 policy : {1}, mode : {EffortAuto}, found : {Unknown}, sent : {Omit}]]

(* The base URL and the model that the request goes to.                     *)
KeyOf(r) == <<Setup[r.of].url, IF r.model = "" THEN Setup[r.of].model ELSE r.model>>

SendsNoEffort(c) == request' = [request EXCEPT ![c].pc = "plain", ![c].of = epoch]

(* ChatWithProvider takes the provider; the messages API has no effort.     *)
Chat(c) ==
    /\ request[c].pc = "start"
    /\ IF Setup[epoch].api = "messages" THEN SendsNoEffort(c)
       ELSE request' = [request EXCEPT ![c].pc = "effort", ![c].of = epoch]
    /\ UNCHANGED <<epoch, policies>>

(* applyEffort takes the policy, and the mode from the turn or from it.     *)
ApplyEffort(c) ==
    LET r == request[c]  policy == Len(policies) IN
    /\ r.pc = "effort"
    /\ request' = [request EXCEPT
         ![c].pc = IF KeyOf(r)[2] = "" THEN "plain" ELSE "lookup",
         ![c].policy = policy, ![c].since = epoch,
         ![c].mode = IF r.asks = Default THEN policies[policy].mode ELSE r.asks]
    /\ UNCHANGED <<epoch, policies>>

Finish(c, found) ==
    request' = [request EXCEPT
        ![c].pc = "done", ![c].found = found,
        ![c].sent = ResolveEffort(request[c].mode, Info(KeyOf(request[c]), found))]

EffortLookup(c) ==
    LET r == request[c]  cached == policies[r.policy].cache[KeyOf(r)] IN
    /\ r.pc = "lookup"
    /\ IF cached.known THEN Finish(c, cached) ELSE request' = [request EXCEPT ![c].pc = "probe"]
    /\ UNCHANGED <<epoch, policies>>

(* A provider without a base URL is not asked.  What failed, also because   *)
(* the turn was stopped, is a guess.                                        *)
Probe(c) ==
    /\ request[c].pc = "probe"
    /\ \E real \in BOOLEAN :
         /\ real => KeyOf(request[c])[1] # ""
         /\ request' = [request EXCEPT ![c].pc = "store", ![c].found = Found(real)]
    /\ UNCHANGED <<epoch, policies>>

(* A guess is remembered as well as an answer.                              *)
StoreInfo(c) ==
    LET r == request[c] IN
    /\ r.pc = "store"
    /\ policies' = [policies EXCEPT ![r.policy].cache[KeyOf(r)] = r.found]
    /\ Finish(c, r.found)
    /\ UNCHANGED epoch

(* A plausible slip: the client's policy is emptied, and stays.             *)
Renewed_m == policies' = <<NewEffortPolicy(epoch + 1)>>
Renewed == policies' = Append(policies, NewEffortPolicy(epoch + 1))

(* Client.Reload, under its mutex.                                          *)
EffortReload ==
    /\ epoch + 1 \in Epochs /\ epoch' = epoch + 1
    /\ Renewed
    /\ UNCHANGED request

EffortNext ==
    \/ EffortReload
    \/ \E c \in Requests : Chat(c) \/ ApplyEffort(c) \/ EffortLookup(c) \/ Probe(c) \/ StoreInfo(c)

EffortSpec == EffortInit /\ [][EffortNext]_effortVars

-----------------------------------------------------------------------------
EffortTypeOK ==
    /\ epoch \in Epochs /\ Len(policies) \in 1..epoch
    /\ \A c \in Requests :
         /\ request[c].pc \in {"start", "effort", "lookup", "probe", "store", "done", "plain"}
         /\ request[c].pc = "done" => request[c].sent \in Ranks \cup {Omit}

(* What a level may be for a model: one of the levels that are advertised,  *)
(* none of them nearer to the level wanted, no "none" where effort is       *)
(* mandatory, and nothing where there is no effort.                         *)
AcceptsEffort(info, mode, sent) ==
    IF ~info.supports THEN sent = Omit
    ELSE /\ mode \in Range(info.levels) /\ ~(mode = EffortNone /\ info.mandatory) => sent = mode
         /\ sent # Omit /\ info.levels # <<>> =>
              /\ sent \in Range(info.levels)
              /\ mode # EffortAuto /\ ~info.mandatory =>
                   \A l \in Range(info.levels) : Dist(sent, mode) <= Dist(l, mode)
         /\ info.mandatory /\ Range(info.levels) # {EffortNone} /\ mode \notin Range(info.levels) =>
              sent # EffortNone

(* A request carries an effort that its model accepts, for the turn's mode  *)
(* or that of the settings under which the effort is decided, by what the   *)
(* provider said (or by the guess, where it did not answer) under those     *)
(* settings or later: never by what was remembered from before a reload.    *)
(* A provider of the messages API gets no effort.                           *)
EffortFits ==
    \A c \in Requests :
        LET r == request[c]
            mode == IF r.asks = Default THEN Setup[r.since].mode ELSE r.asks
        IN /\ r.pc = "done" =>
                /\ Setup[r.of].api # "messages"
                /\ r.since <= r.found.at /\ AcceptsEffort(Info(KeyOf(r), r.found), mode, r.sent)
           /\ r.pc = "plain" => r.sent = Omit
=============================================================================
