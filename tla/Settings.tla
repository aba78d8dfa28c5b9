-------------------------------- MODULE Settings --------------------------------
(***************************************************************************)
(* Settings: the usecase (usecase/settings/service.go, config_patch.go),    *)
(* the file it keeps (repository/appconfig/store.go), the merge of the file *)
(* over the process's own configuration (config/settings_merge.go), the     *)
(* start of the process (cmd/app/main.go), which builds some parts once and *)
(* for all, and the reload of the parts that take a new configuration       *)
(* (llm/runtime.go).  The process may die between any two steps, and every  *)
(* step on the disk may fail.                                               *)
(***************************************************************************)
EXTENDS Integers, FiniteSets, SequencesExt

CONSTANTS
    Order,        \* provider ids, sorted
    KeyOptional,  \* providers whose family needs no key
    Models,       \* model ids
    Users,        \* user ids
    Owner,        \* "usr_owner", the user of a new document
    None,         \* no file, no provider, a knob that is not set
    Env,          \* what config.Load() returned when the process started
    Start,        \* documents that an earlier run left, None for no file
    MaxOps,       \* bound: requests
    MaxCrashes    \* bound: deaths of the process

Providers == Range(Order)

VARIABLES
    file,         \* config.json
    tmp,          \* config.json.tmp: None, Torn or a document
    up,           \* the process runs
    running,      \* running[part]: the configuration each part works with
    born,         \* ghost: the document that the process started from
    op,           \* the request that holds the mutex
    ops, crashes, \* counters of the bounds
    acked,        \* ghost: the document of the last request answered with success
    strays        \* ghost: ids patched to be active while no provider had them

settingsVars == <<file, tmp, up, running, born, op, ops, crashes, acked, strays>>

Torn == "torn"
Roles == {"owner", "member"}

(* Two knobs: one of the worker, and one of a part that is built once.      *)
Knobs == {"reserve_tokens", "lock_ttl_sec"}

(* The parts in the order in which Runtime.Reload visits them.              *)
Parts == <<"router", "catalog", "vision", "effort", "worker">>

(* The parts that main builds and nothing reloads: the lock and floor TTLs, *)
(* the options of the documentation index, the MCP manager and the tools.   *)
BuiltOnce == {"locks", "floor", "docs", "mcp", "tools"}

AllParts == Range(Parts) \cup BuiltOnce

Idle == [step |-> "idle"]

Entries == [id : Providers, key : BOOLEAN, enabled : BOOLEAN, models : Seq(Models)]
Documents == [users : UNION {[S -> Roles] : S \in SUBSET Users}, providers : Seq(Entries),
              active : Providers \cup {None}, knobs : [Knobs -> Nat \cup {None}]]

-----------------------------------------------------------------------------
(* The document and its merge. *)

IdsOf(doc) == {doc.providers[i].id : i \in DOMAIN doc.providers}
IndexOf(doc, p) == CHOOSE i \in DOMAIN doc.providers : doc.providers[i].id = p
Owners(users) == {u \in DOMAIN users : users[u] = "owner"}

(* The document a process without a file starts from.                       *)
DefaultSeedFile ==
    [users |-> [u \in {Owner} |-> "owner"], providers |-> <<>>, active |-> None, knobs |-> Env.knobs]

(* A knob of the file counts when it is set and positive; a zero that the   *)
(* patch accepted leaves the default in force.                              *)
Knob(k, v) == IF v # None /\ v > 0 THEN v ELSE Env.knobs[k]

FirstEnabled(providers) ==
    LET on == {i \in DOMAIN Order : \E j \in DOMAIN providers :
                                     providers[j].id = Order[i] /\ providers[j].enabled}
    IN  IF on = {} THEN None ELSE Order[Min(on)]

(* The runtime keeps one slot per id and lists a model once.                *)
Slot(sp) ==
    [key |-> sp.key, enabled |-> sp.enabled,
     model |-> IF sp.models = <<>> THEN None ELSE Head(sp.models), list |-> ToSet(sp.models)]

ProviderUsable(sp) == sp.enabled /\ (sp.key \/ sp.id \in KeyOptional)

ApplySettingsFile(doc) ==
    LET knobs == [k \in Knobs |-> Knob(k, doc.knobs[k])] IN
    IF doc.providers = <<>>
      THEN [Env EXCEPT !.knobs = knobs, !.active = IF doc.active # None THEN doc.active ELSE @]
      ELSE [slots |-> [p \in IdsOf(doc) |-> Slot(doc.providers[IndexOf(doc, p)])],
            active |-> IF doc.active # None THEN doc.active ELSE FirstEnabled(doc.providers),
            stub |-> \A i \in DOMAIN doc.providers : ~ProviderUsable(doc.providers[i]),
            knobs |-> knobs]

(* What every request starts from: the file, or the seed until one exists.  *)
Loaded == IF file = None THEN DefaultSeedFile ELSE file

(* What the process is given: a configuration without gaps, and documents   *)
(* with an owner and with every provider once.                              *)
OwnerIn(doc) == Owners(doc.users) # {}
IdsOnce(doc) == \A i, j \in DOMAIN doc.providers : doc.providers[i].id = doc.providers[j].id => i = j

SettingsAssumption ==
    /\ Order \in Seq(Providers) /\ None \notin Providers /\ KeyOptional \subseteq Providers /\ IsFiniteSet(Models)
    /\ Owner \in Users /\ MaxOps \in Nat /\ MaxCrashes \in Nat
    /\ Env = [slots |-> Env.slots, active |-> Env.active, stub |-> Env.stub, knobs |-> Env.knobs]
    /\ Env.knobs \in [Knobs -> Nat]
    /\ \A doc \in Start \ {None} : doc \in Documents /\ OwnerIn(doc) /\ IdsOnce(doc)

-----------------------------------------------------------------------------
SettingsInit ==
    /\ file \in Start /\ tmp = None /\ up = FALSE
    /\ running = [p \in AllParts |-> Env] /\ born = DefaultSeedFile
    /\ op = Idle /\ ops = 0 /\ crashes = 0
    /\ acked = file
    /\ strays = IF file = None THEN {} ELSE {file.active} \ (IdsOf(file) \cup {None})

(* main: the file is seeded when there is none, which may fail, and what is *)
(* there is merged over the configuration of the process.                   *)
Boot ==
    /\ ~up /\ up' = TRUE
    /\ \E seeded \in BOOLEAN :
         LET doc == IF file = None /\ seeded THEN DefaultSeedFile ELSE file IN
         /\ file' = doc
         /\ tmp' = IF file = None /\ seeded THEN None ELSE tmp
         /\ running' = [p \in AllParts |-> IF doc = None THEN Env ELSE ApplySettingsFile(doc)]
         /\ born' = IF doc = None THEN DefaultSeedFile ELSE doc
         /\ acked' = doc
    /\ op' = Idle /\ UNCHANGED <<ops, crashes, strays>>

Crash ==
    /\ up /\ crashes < MaxCrashes /\ crashes' = crashes + 1
    /\ up' = FALSE /\ UNCHANGED <<file, tmp, running, born, op, ops, acked, strays>>

(* A request takes the mutex with the document it is going to save.         *)
Takes(doc, reload) ==
    /\ op' = [step |-> "create", doc |-> doc, reload |-> reload, left |-> <<>>]
    /\ UNCHANGED <<file, tmp, up, running, born, crashes, acked>>

Request ==
    /\ up /\ op.step = "idle" /\ ops < MaxOps /\ ops' = ops + 1

-----------------------------------------------------------------------------
(* Users. *)

CreateUser ==
    \E u \in Users \ DOMAIN Loaded.users, r \in Roles :
        /\ Request
        /\ Takes([Loaded EXCEPT !.users = [v \in DOMAIN @ \cup {u} |-> IF v = u THEN r ELSE @[v]]], FALSE)
        /\ UNCHANGED strays

UpdateUser ==
    \E u \in DOMAIN Loaded.users, r \in Roles :
        /\ Request
        /\ ~(Loaded.users[u] = "owner" /\ r # "owner" /\ Cardinality(Owners(Loaded.users)) <= 1)
        /\ Takes([Loaded EXCEPT !.users[u] = r], FALSE)
        /\ UNCHANGED strays

DeleteUser ==
    \E u \in DOMAIN Loaded.users :
        /\ Request
        /\ ~(Loaded.users[u] = "owner" /\ Cardinality(Owners(Loaded.users)) <= 1)
        /\ Takes([Loaded EXCEPT !.users = [v \in DOMAIN @ \ {u} |-> @[v]]], FALSE)
        /\ UNCHANGED strays

-----------------------------------------------------------------------------
(* Providers and their models. *)

CreateProvider ==
    \E p \in Providers \ IdsOf(Loaded), key, enabled \in BOOLEAN, m \in Models \cup {None} :
        LET sp == [id |-> p, key |-> key, enabled |-> enabled,
                   models |-> IF m = None THEN <<>> ELSE <<m>>]
        IN  /\ Request
            /\ Takes([Loaded EXCEPT !.providers = Append(@, sp),
                                    !.active = IF @ = None THEN p ELSE @], TRUE)
            /\ UNCHANGED strays

(* The changes UpdateProvider makes: a key is set and never cleared, the    *)
(* switch, a list of models, or a main model that replaces the first one    *)
(* (and may then be listed twice).                                          *)
Updated(sp) ==
    {[sp EXCEPT !.key = TRUE]} \cup {[sp EXCEPT !.enabled = b] : b \in BOOLEAN}
        \cup {[sp EXCEPT !.models = <<>>]}
        \cup {[sp EXCEPT !.models = IF @ = <<>> THEN <<m>> ELSE [@ EXCEPT ![1] = m]] : m \in Models}

UpdateProvider ==
    \E i \in DOMAIN Loaded.providers :
        \E sp \in Updated(Loaded.providers[i]) :
            /\ Request
            /\ Takes([Loaded EXCEPT !.providers[i] = sp], TRUE)
            /\ UNCHANGED strays

(* A plausible slip: the active provider is not elected again.              *)
WithoutProvider_m(doc, i) == [doc EXCEPT !.providers = RemoveAt(@, i)]

WithoutProvider(doc, i) ==
    LET rest == RemoveAt(doc.providers, i) IN
    [doc EXCEPT !.providers = rest,
                !.active = IF @ # doc.providers[i].id THEN @
                           ELSE IF rest = <<>> THEN None ELSE rest[1].id]

DeleteProvider ==
    \E i \in DOMAIN Loaded.providers :
        /\ Request
        /\ Takes(WithoutProvider(Loaded, i), TRUE)
        /\ UNCHANGED strays

AddModel ==
    \E i \in DOMAIN Loaded.providers, m \in Models :
        /\ m \notin Range(Loaded.providers[i].models)
        /\ Request
        /\ Takes([Loaded EXCEPT !.providers[i].models = Append(@, m)], TRUE)
        /\ UNCHANGED strays

(* A model that is listed twice goes twice.                                 *)
WithoutModel(models, m) ==
    FlattenSeq([j \in DOMAIN models |-> IF models[j] = m THEN <<>> ELSE <<models[j]>>])

RemoveModel ==
    \E i \in DOMAIN Loaded.providers :
        \E m \in Range(Loaded.providers[i].models) :
            /\ Request
            /\ Takes([Loaded EXCEPT !.providers[i].models = WithoutModel(@, m)], TRUE)
            /\ UNCHANGED strays

(* The mutex is held while the models are asked for over the network.       *)
ImportModels ==
    \E i \in DOMAIN Loaded.providers :
        /\ Request
        /\ op' = [step |-> "fetch", doc |-> Loaded, reload |-> TRUE, left |-> <<>>, at |-> i]
        /\ UNCHANGED <<file, tmp, up, running, born, crashes, acked, strays>>

Fetched ==
    /\ up /\ op.step = "fetch"
    /\ \/ op' = Idle                                             \* the importer fails
       \/ \E ms \in SUBSET Models :
            LET new == ms \ Range(op.doc.providers[op.at].models)
            IN  op' = [op EXCEPT !.step = "create",
                          !.doc.providers[op.at].models = @ \o SetToSeq(new)]
    /\ UNCHANGED <<file, tmp, up, running, born, ops, crashes, acked, strays>>

-----------------------------------------------------------------------------
(* Product knobs.  Any id may be patched to be the active provider.         *)

Accepts(k, v) == IF k = "reserve_tokens" THEN v >= 0 ELSE v >= 1

PatchConfig ==
    \/ \E k \in Knobs, v \in 0..1 :
         /\ Accepts(k, v)
         /\ Request
         /\ Takes([Loaded EXCEPT !.knobs[k] = v], TRUE)
         /\ UNCHANGED strays
    \/ \E p \in Providers \cup {None} :
         /\ Request
         /\ Takes([Loaded EXCEPT !.active = p], TRUE)
         /\ strays' = IF p \in IdsOf(Loaded) \cup {None} THEN strays ELSE strays \cup {p}

-----------------------------------------------------------------------------
(* Store.Save: a temporary file, synced, and renamed over the document.     *)

(* A plausible slip: the parts are reloaded although the save failed.       *)
Failed_m == op' = [op EXCEPT !.step = "reload", !.left = IF op.reload THEN Parts ELSE <<>>]

(* The request ends with an error; the parts keep what they have.           *)
Failed == op' = Idle

SaveOpens ==
    /\ up /\ op.step = "create"
    /\ \/ Failed /\ tmp' = tmp                                   \* no directory, no file
       \/ op' = [op EXCEPT !.step = "write"] /\ tmp' = Torn
    /\ UNCHANGED <<file, up, running, born, ops, crashes, acked, strays>>

SaveWrites ==
    /\ up /\ op.step = "write"
    /\ \/ Failed /\ tmp' = None
       \/ op' = [op EXCEPT !.step = "rename"] /\ tmp' = op.doc
    /\ UNCHANGED <<file, up, running, born, ops, crashes, acked, strays>>

SaveRenames ==
    /\ up /\ op.step = "rename" /\ tmp' = None
    /\ \/ Failed /\ UNCHANGED file
       \/ /\ file' = tmp
          /\ op' = [op EXCEPT !.step = "reload", !.left = IF op.reload THEN Parts ELSE <<>>]
    /\ UNCHANGED <<up, running, born, ops, crashes, acked, strays>>

(* Runtime.Reload goes through the parts one after the other.               *)
ReloadPart ==
    /\ up /\ op.step = "reload" /\ op.left # <<>>
    /\ running' = [running EXCEPT ![Head(op.left)] = ApplySettingsFile(op.doc)]
    /\ op' = [op EXCEPT !.left = Tail(@)]
    /\ UNCHANGED <<file, tmp, up, born, ops, crashes, acked, strays>>

Answer ==
    /\ up /\ op.step = "reload" /\ op.left = <<>>
    /\ op' = Idle /\ acked' = op.doc
    /\ UNCHANGED <<file, tmp, up, running, born, ops, crashes, strays>>

SettingsNext ==
    \/ Boot \/ Crash
    \/ CreateUser \/ UpdateUser \/ DeleteUser
    \/ CreateProvider \/ UpdateProvider \/ DeleteProvider \/ AddModel \/ RemoveModel
    \/ ImportModels \/ Fetched \/ PatchConfig
    \/ SaveOpens \/ SaveWrites \/ SaveRenames \/ ReloadPart \/ Answer

SettingsSpec == SettingsInit /\ [][SettingsNext]_settingsVars

-----------------------------------------------------------------------------
Saves == {"create", "write", "rename", "reload"}
Ops ==
    {Idle}
    \cup [step : Saves, doc : Documents, reload : BOOLEAN, left : Seq(Range(Parts))]
    \cup [step : Saves \cup {"fetch"}, doc : Documents, reload : {TRUE}, left : Seq(Range(Parts)),
          at : Nat]

SettingsTypeOK ==
    /\ up \in BOOLEAN /\ ops \in 0..MaxOps /\ crashes \in 0..MaxCrashes
    /\ DOMAIN running = AllParts /\ strays \subseteq Providers
    /\ file \in Documents \cup {None} /\ born \in Documents /\ op \in Ops

(* Between two requests every part that is reloaded runs with what a        *)
(* restart would load, and the disk has the document of the last request    *)
(* that was answered with success, or of the one that a crash left without  *)
(* an answer.  The parts that are built once run with what the process      *)
(* started from, whatever was saved since: their settings change with the   *)
(* next start only (docs/architecture/mcp-support.md:60).                   *)
RunningIsDurable ==
    /\ up /\ op.step = "idle" =>
         /\ \A p \in Range(Parts) : running[p] = ApplySettingsFile(Loaded)
         /\ file = acked
    /\ up => \A p \in BuiltOnce : running[p] = ApplySettingsFile(born)
    /\ ~up => file \in {acked} \cup (IF op.step = "idle" THEN {} ELSE {op.doc})

(* No sequence of requests leaves the document without an owner, with a     *)
(* provider twice, or with an active provider that is gone: an active id    *)
(* without a provider was patched in as such.                               *)
OwnerRemains == OwnerIn(Loaded)
IdsUnique == IdsOnce(Loaded)
ActiveListed ==
    LET active == ApplySettingsFile(Loaded).active IN
    Loaded.providers # <<>> =>
        \/ active \in IdsOf(Loaded) \cup strays
        \/ active = None /\ \A i \in DOMAIN Loaded.providers : ~Loaded.providers[i].enabled

DocumentSound == OwnerRemains /\ IdsUnique /\ ActiveListed
=============================================================================
