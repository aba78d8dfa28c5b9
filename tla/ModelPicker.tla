------------------------------ MODULE ModelPicker ------------------------------
(***************************************************************************)
(* The model picker: what ListModels shows (llm/catalog.go), what StartTurn *)
(* makes of the choice (usecase/webchat/methods.go, ResolveModel), and the  *)
(* provider and model that the turn's first request goes to (llm/router.go, *)
(* llm/client.go).  The settings may be reloaded between the three.         *)
(***************************************************************************)
EXTENDS Integers, FiniteSets, SequencesExt

CONSTANTS
    Ranking,      \* provider ids, sorted
    ModelIds,     \* model ids; one may be a provider's as well
    Upper(_),     \* an id in upper case, as provider ids are
    Configs,      \* settings that a process may start with
    Later,        \* settings that may be saved while it runs
    Nothing, Stub

(* A provider's slot: enabled; its list of models, of which the first is    *)
(* the main one; bare: neither a key nor a family that needs none; hidden:  *)
(* models that chat does not offer, by their metadata or their names.       *)
ProviderIds == Range(Ranking)

PickerAssumption ==
    /\ Ranking \in Seq(ProviderIds) /\ Stub # Nothing
    /\ Nothing \notin ProviderIds \cup ModelIds /\ Stub \notin ProviderIds \cup ModelIds
    /\ \A p \in ProviderIds : Upper(p) = p
    /\ \A f \in Configs \cup Later :
         /\ f.stub \in BOOLEAN /\ f.strategy \in {"switch", "failover"}
         /\ f.active \in ProviderIds \cup {Nothing}
         /\ DOMAIN f.slots \subseteq ProviderIds
         /\ \A p \in DOMAIN f.slots :
              /\ Range(f.slots[p].list) \subseteq ModelIds
              /\ f.slots[p].hidden \subseteq ModelIds \cup ProviderIds

VARIABLES
    settings,     \* the settings in force
    options,      \* what the picker shows
    turn,         \* the choice and what became of it
    changed       \* ghost: the settings were reloaded after the listing

pickerVars == <<settings, options, turn, changed>>

-----------------------------------------------------------------------------
(* The catalog. *)

Enabled(f, p) == p \in DOMAIN f.slots /\ f.slots[p].enabled
IsChatSelectable(f, p, m) == m \notin f.slots[p].hidden
MainModel(slot) == IF slot.list = <<>> THEN Nothing ELSE Head(slot.list)

(* Providers in the picker, and the models of one; a provider without any   *)
(* is offered under its own id.                                             *)
Offering(f) == {p \in ProviderIds : Enabled(f, p) /\ ~(f.slots[p].list = <<>> /\ f.slots[p].bare)}
Offered(f, p) ==
    {m \in (IF f.slots[p].list = <<>> THEN {p} ELSE Range(f.slots[p].list)) : IsChatSelectable(f, p, m)}

Before(p, q) == \E i, j \in DOMAIN Ranking : i < j /\ Ranking[i] = p /\ Ranking[j] = q

FirstOf(S) ==
    IF S = {} THEN Nothing ELSE Ranking[Min({i \in DOMAIN Ranking : Ranking[i] \in S})]

(* A model that several providers have is shown once, for the first.        *)
ListedModels(f) ==
    {o \in (ModelIds \cup ProviderIds) \X Offering(f) :
        /\ o[1] \in Offered(f, o[2])
        /\ \A q \in Offering(f) : Before(q, o[2]) => o[1] \notin Offered(f, q)}

StubModels == {<<Stub, Stub>>}

ListModels(f) == IF f.stub \/ ListedModels(f) = {} THEN StubModels ELSE ListedModels(f)

(* A plausible slip: only the main model of a provider is known.            *)
Has_m(slot, m) == MainModel(slot) = m
Has(slot, m) == m \in Range(slot.list)

(* A provider's id, in any case of its letters, or a model: then the first  *)
(* enabled provider that has it decides, also when it does not offer it.    *)
ResolveModel(f, x) ==
    LET having == FirstOf({p \in ProviderIds : Enabled(f, p) /\ Has(f.slots[p], x)}) IN
    IF f.stub THEN IF x = Stub THEN Stub ELSE Nothing
    ELSE IF Upper(x) \in DOMAIN f.slots
      THEN LET p == Upper(x) IN
           IF Enabled(f, p) /\ IsChatSelectable(f, p, MainModel(f.slots[p])) THEN p ELSE Nothing
    ELSE IF having # Nothing /\ IsChatSelectable(f, having, x) THEN having ELSE Nothing

(* The router's first candidate for a turn that is pinned to a provider,    *)
(* and whether a request goes out to it: the router passes over a candidate *)
(* that is not enabled, and the client refuses one without a key for good.  *)
FirstAsked(f, pinned) ==
    IF f.strategy = "switch" /\ f.active # Nothing THEN f.active
    ELSE IF f.strategy # "switch" /\ Enabled(f, pinned) THEN pinned
    ELSE IF f.strategy # "switch" /\ Enabled(f, f.active) THEN f.active
    ELSE FirstOf({p \in ProviderIds : Enabled(f, p)})

Serves(f, p) == Enabled(f, p) /\ ~f.slots[p].bare

-----------------------------------------------------------------------------
NoTurn == [step |-> "none"]

PickerInit ==
    /\ settings \in Configs
    /\ options = {} /\ turn = NoTurn /\ changed = FALSE

Lists ==
    /\ options = {} /\ options' = ListModels(settings)
    /\ changed' = FALSE /\ UNCHANGED <<settings, turn>>

(* resolveTurnOverrides: the choice itself is the model that is asked for.  *)
PickerStartTurn ==
    /\ turn = NoTurn
    /\ \E o \in options :
         LET p == ResolveModel(settings, o[1]) IN
         turn' = [step |-> IF p = Nothing THEN "refused" ELSE "started",
                  picked |-> o, provider |-> p]
    /\ UNCHANGED <<settings, options, changed>>

(* ChatWithProvider puts the choice in place of the provider's main model.  *)
FirstRequest ==
    LET at == IF settings.stub THEN Stub ELSE FirstAsked(settings, turn.provider) IN
    /\ turn.step = "started"
    /\ turn' = [step |-> IF settings.stub \/ Serves(settings, at) THEN "asked" ELSE "failed",
                picked |-> turn.picked, provider |-> turn.provider,
                at |-> at, model |-> turn.picked[1]]
    /\ UNCHANGED <<settings, options, changed>>

PickerReload ==
    /\ \E f \in Later \ {settings} : settings' = f
    /\ changed' = TRUE /\ UNCHANGED <<options, turn>>

PickerNext == Lists \/ PickerStartTurn \/ FirstRequest \/ PickerReload

PickerSpec == PickerInit /\ [][PickerNext]_pickerVars

-----------------------------------------------------------------------------
PickerTypeOK ==
    /\ settings \in Configs \cup Later /\ changed \in BOOLEAN
    /\ options \subseteq (ModelIds \cup ProviderIds \cup {Stub}) \X (ProviderIds \cup {Stub})
    /\ turn.step \in {"none", "refused", "started", "asked", "failed"}

(* What the picker shows can be chosen, and the turn's first request goes   *)
(* to the provider that was shown, for a model that it has, as long as the  *)
(* settings stay the same.  Excepted are: the stub models shown when no     *)
(* provider offers any; a model that a provider before the one shown has    *)
(* but hides, or has without being shown itself; a provider without a list, *)
(* or a model that is spelled like a provider, which are asked for under    *)
(* that provider; and the strategy "switch", which ignores the choice of    *)
(* the provider but not that of the model.  A turn of any other choice      *)
(* fails without a request only if the provider shown has no key: it is     *)
(* shown for its list all the same.                                         *)
Shadowed(f, o) ==
    \E q \in ProviderIds : Enabled(f, q) /\ Before(q, o[2]) /\ o[1] \in Range(f.slots[q].list)

Regular(o) ==
    /\ o[2] \in DOMAIN settings.slots /\ o[1] \in ModelIds
    /\ Upper(o[1]) \notin DOMAIN settings.slots /\ ~Shadowed(settings, o)

PickedIsServed ==
    turn # NoTurn /\ ~changed =>
        /\ turn.step = "refused" => ~Regular(turn.picked) /\ ~settings.stub
        /\ Regular(turn.picked) => turn.provider = turn.picked[2]
        /\ turn.step \in {"asked", "failed"} /\ Regular(turn.picked) /\ settings.strategy # "switch" =>
             /\ turn.at = turn.picked[2] /\ turn.model \in Range(settings.slots[turn.at].list)
             /\ turn.step = "failed" <=> settings.slots[turn.at].bare
=============================================================================
