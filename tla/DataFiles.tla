----------------------------- MODULE DataFiles ------------------------------
(***************************************************************************)
(* The files of a data directory that several programs edit: config.toml   *)
(* (src/config/mod.rs), bootstrap.toml (src/bootstrap/resolver.rs),        *)
(* search_providers.toml (src/scraper/discovery/providers.rs), and         *)
(* banned_peers.json and peers.json (src/api/handlers.rs).  The editors    *)
(* are CLI commands, the node's API and the UI; every edit reads the file, *)
(* changes what it read and writes the whole file, with no lock.           *)
(* std::fs::write truncates and then writes, and an editor may be killed.  *)
(* The files do not depend on each other: a behaviour is about one.        *)
(***************************************************************************)
EXTENDS Naturals, FiniteSets

CONSTANTS
    Kinds,       \* of {"config", "bootstrap", "providers", "banned", "peers"}
    Editor,      \* editors that run at the same time
    Roles, Jobs, \* the roles and scraper jobs of config.toml
    Names,       \* peers or providers
    Values,      \* values of a setting
    MaxEdits,    \* bound of the edits begun
    MaxKills     \* bound of the editors killed

ASSUME FileAssumption ==
    /\ Kinds \subseteq {"config", "bootstrap", "providers", "banned", "peers"}
    /\ "light" \in Roles /\ "default" \in Names /\ "default" \in Values
    /\ MaxEdits \in Nat /\ MaxKills \in Nat

Current == 1     \* CURRENT_CONFIG_VERSION; 0 stands for no config_version

VARIABLES
    kind,        \* which file this is; never changes
    text,        \* "missing", "empty", "garbled" or "ok"
    doc,         \* what it says when it is "ok"
    epc,         \* where each editor is
    edit,        \* what it does
    held,        \* what it is about to write
    edits, ekills,
    expected,    \* history: what the edits that were reported as done amount to
    overlap      \* history: an edit began during another one

onDisk  == <<text, doc>>
editing == <<epc, edit, held>>
vars    == <<kind, onDisk, editing, edits, ekills, expected, overlap>>

Doc  == [version : 0..(Current + 1), items : SUBSET (Roles \cup Jobs \cup Names), setting : Values]
Edit == [op : {"set_role", "add_role", "remove_role", "add_job", "set_value", "init",
               "init_role", "add", "remove", "rewrite", "reset"},
         arg : Roles \cup Jobs \cup Names \cup Values \cup {"none"}]

NoEdit == [op |-> "reset", arg |-> "none"]

\* What an empty text stands for: the defaults of serde.
Empty ==
    [version |-> 0, items |-> IF kind = "config" THEN {"light"} ELSE {}, setting |-> "default"]

TypeOK ==
    /\ kind \in Kinds
    /\ text \in {"missing", "empty", "garbled", "ok"}
    /\ doc \in Doc /\ (kind = "config" => doc.items \cap Roles # {})
    /\ epc \in [Editor -> {"idle", "save", "open", "write"}]
    /\ edit \in [Editor -> Edit] /\ held \in [Editor -> Doc]
    /\ edits \in 0..MaxEdits /\ ekills \in 0..MaxKills
    /\ expected \in Doc /\ overlap \in BOOLEAN

\* What the file says to a program that can read it.
Says == IF text = "ok" THEN doc ELSE Empty

\* No file, one the program wrote, or one edited by hand: with a mistake, or
\* left by a later version of the program.
Init ==
    /\ kind \in Kinds
    /\ \E v \in (IF kind = "config" THEN {0, Current, Current + 1} ELSE {0}) :
         doc = [Empty EXCEPT !.version = v]
    /\ text \in {"missing", "ok", "garbled"}
    /\ epc = [e \in Editor |-> "idle"]
    /\ edit = [e \in Editor |-> NoEdit]
    /\ held = [e \in Editor |-> Empty]
    /\ edits = 0 /\ ekills = 0
    /\ expected = Says /\ overlap = FALSE
-----------------------------------------------------------------------------
(* What an edit reads and makes of it. *)

\* Plausible bug: the version is not looked at.
ReadableAnyVersion(o) ==
    CASE kind = "config" -> text # "garbled"
      [] kind = "providers" -> text # "garbled" \/ o.op = "add"
      [] OTHER -> TRUE

\* load_config and remove_provider report a text they cannot parse, and
\* load_config a version from the future; the others start from nothing.
Readable(o) ==
    CASE kind = "config" -> text # "garbled" /\ Says.version <= Current
      [] kind = "providers" -> text # "garbled" \/ o.op = "add"
      [] OTHER -> TRUE

\* Plausible bug: an edit always starts from the defaults.
StartNew == Empty

\* What an edit starts from.
Start == Says

\* Edits that end without a write: what is there already, what is not there.
Skips(o) ==
    \/ o.op = "init" /\ text # "missing"
    \/ o.op = "init_role" /\ text = "missing"
    \/ o.op = "add_role" /\ o.arg \in Says.items
    \/ o.op = "add" /\ kind \in {"providers", "banned"} /\ o.arg \in Says.items
    \/ o.op = "remove" /\ text = "missing"
    \/ o.op = "remove" /\ kind # "banned" /\ o.arg \notin Says.items

\* cmd_role remove: a node has a role.
WithoutRole(items, r) ==
    IF (items \ {r}) \cap Roles = {} THEN (items \ {r}) \cup {"light"} ELSE items \ {r}

\* default_config_toml and default_search_providers_toml.
Default ==
    [Empty EXCEPT !.version = IF kind = "config" THEN Current ELSE 0,
                  !.items = IF kind = "providers" THEN {"default"} ELSE @]

After(o, d) ==
    CASE o.op = "set_role"         -> [d EXCEPT !.items = (@ \ Roles) \cup {o.arg}]
      [] o.op = "init_role"        -> [d EXCEPT !.items = (@ \ Roles) \cup {o.arg}, !.version = Current]
      [] o.op = "remove_role"      -> [d EXCEPT !.items = WithoutRole(@, o.arg)]
      [] o.op \in {"add_role", "add_job", "add"} -> [d EXCEPT !.items = @ \cup {o.arg}]
      [] o.op = "set_value"        -> [d EXCEPT !.setting = o.arg]
      [] o.op = "remove"           -> [d EXCEPT !.items = @ \ {o.arg}]
      [] o.op = "rewrite"          -> [d EXCEPT !.items = {o.arg}]
      [] o.op = "init"             -> [Default EXCEPT !.items = IF o.arg = "none" THEN @ ELSE {o.arg}]
      [] o.op = "reset"            -> Default

\* save_config keeps the version of the file and gives one to a file without.
Versioned(d, version) ==
    IF kind = "config" /\ version = 0 THEN [d EXCEPT !.version = Current]
    ELSE [d EXCEPT !.version = version]
-----------------------------------------------------------------------------
(* The steps of an editor. *)

\* Everything up to the write.  Only config.toml is saved by save_config.
Begin(e, o) ==
    /\ epc[e] = "idle"
    /\ edits < MaxEdits
    /\ o.op = "reset" \/ (o.op = "init" /\ text = "missing") \/ (Readable(o) /\ ~Skips(o))
    /\ edits' = edits + 1
    /\ edit' = [edit EXCEPT ![e] = o]
    /\ held' = [held EXCEPT ![e] = After(o, Start)]
    /\ epc' = [epc EXCEPT ![e] = IF kind = "config" /\ o.op \notin {"init", "init_role", "reset"}
                                 THEN "save" ELSE "open"]
    /\ overlap' = (overlap \/ \E f \in Editor : epc[f] # "idle")
    /\ UNCHANGED <<kind, onDisk, ekills, expected>>

\* save_config reads the file once more, for its version, which it may or may
\* not find in a text that does not parse.
Save(e) ==
    /\ epc[e] = "save"
    /\ \E v \in (IF text = "garbled" THEN {0, doc.version} ELSE {Says.version}) :
         held' = [held EXCEPT ![e] = Versioned(@, v)]
    /\ epc' = [epc EXCEPT ![e] = "open"]
    /\ UNCHANGED <<kind, onDisk, edit, edits, ekills, expected, overlap>>

\* std::fs::write truncates...
Truncate(e) ==
    /\ epc[e] = "open"
    /\ text' = "empty"
    /\ epc' = [epc EXCEPT ![e] = "write"]
    /\ UNCHANGED <<kind, doc, edit, held, edits, ekills, expected, overlap>>

\* ...and writes; over what another editor wrote meanwhile, the longer text may
\* leave a tail.
Write(e) ==
    /\ epc[e] = "write"
    /\ doc' = held[e]
    /\ text' \in IF text = "empty" THEN {"ok"} ELSE {"ok", "garbled"}
    /\ expected' = IF edit[e].op \in {"init", "init_role", "reset"} THEN After(edit[e], expected)
                   ELSE Versioned(After(edit[e], expected), expected.version)
    /\ epc' = [epc EXCEPT ![e] = "idle"]
    /\ edit' = [edit EXCEPT ![e] = NoEdit]
    /\ held' = [held EXCEPT ![e] = Empty]
    /\ UNCHANGED <<kind, edits, ekills, overlap>>

\* `bootstrap reset` removes the file.
Remove(e) ==
    /\ kind = "bootstrap"
    /\ epc[e] = "idle"
    /\ text # "missing" /\ edits < MaxEdits
    /\ edits' = edits + 1
    /\ text' = "missing"
    /\ expected' = Empty
    /\ overlap' = (overlap \/ \E f \in Editor : epc[f] # "idle")
    /\ UNCHANGED <<kind, doc, editing, ekills>>

\* An editor is killed.  Between truncating and writing, the file is left empty.
Kill(e) ==
    /\ epc[e] # "idle" /\ ekills < MaxKills
    /\ ekills' = ekills + 1
    /\ expected' = IF epc[e] = "write" THEN Empty ELSE expected
    /\ epc' = [epc EXCEPT ![e] = "idle"]
    /\ edit' = [edit EXCEPT ![e] = NoEdit]
    /\ held' = [held EXCEPT ![e] = Empty]
    /\ UNCHANGED <<kind, onDisk, edits, overlap>>
-----------------------------------------------------------------------------
(* The operations that edit a file. *)

Do(e, op, args) == \E x \in args : Begin(e, [op |-> op, arg |-> x])

\* `init` makes the files that are missing, config.toml with the role it is
\* given; in a config.toml that is there it changes the role, without
\* save_config.
CmdInit(e) ==
    \/ kind \in {"bootstrap", "providers"} /\ Do(e, "init", {"none"})
    \/ kind = "config" /\ (Do(e, "init", Roles \cup {"none"}) \/ Do(e, "init_role", Roles))

\* The last step of the wizard of the desktop UI.
FinishWizard(e) ==
    \/ kind = "config" /\ Do(e, "set_role", Roles)
    \/ kind = "bootstrap" /\ Do(e, "init", {"none"})

CmdRole(e) ==
    /\ kind = "config"
    /\ Do(e, "set_role", Roles) \/ Do(e, "add_role", Roles) \/ Do(e, "remove_role", Roles)

CmdConfig(e) ==
    /\ kind = "config"
    /\ Do(e, "set_value", Values) \/ Do(e, "reset", {"none"})

\* POST /config/set of the API.
SetConfig(e) == kind = "config" /\ Do(e, "set_value", Values)

\* `scraper add`.
AddJob(e) == kind = "config" /\ Do(e, "add_job", Jobs)

\* The buttons of the desktop UI: "Add Job" and "Add" in the settings, "Add
\* Peer" in the bootstrap panel.
AddJobButton(e) == kind = "config" /\ Do(e, "add_job", Jobs)
AddProviderButton(e) == kind = "providers" /\ Do(e, "add", Names)
AddPeerButton(e) == kind = "bootstrap" /\ Do(e, "add", Names)

\* `bootstrap add` and `bootstrap remove`.
EditBootstrap(e) == kind = "bootstrap" /\ (Do(e, "add", Names) \/ Do(e, "remove", Names))

\* `scraper provider-add` and `scraper provider-remove`.
EditProviders(e) == kind = "providers" /\ (Do(e, "add", Names) \/ Do(e, "remove", Names))

\* POST /peers/ban and /peers/unban.
EditBanned(e) == kind = "banned" /\ (Do(e, "add", Names) \/ Do(e, "remove", Names))

\* POST /peers/add.
AddPeer(e) == kind = "peers" /\ Do(e, "add", Names)

\* The node writes its routing table over peers.json.
WritePeersFile(e) == kind = "peers" /\ Do(e, "rewrite", Names)

Operation(e) ==
    \/ CmdInit(e) \/ FinishWizard(e) \/ CmdRole(e) \/ CmdConfig(e) \/ SetConfig(e) \/ AddJob(e)
    \/ AddJobButton(e) \/ AddProviderButton(e) \/ AddPeerButton(e)
    \/ EditBootstrap(e) \/ EditProviders(e) \/ EditBanned(e) \/ AddPeer(e) \/ WritePeersFile(e)

Next == \E e \in Editor :
    \/ Operation(e)
    \/ Save(e) \/ Truncate(e) \/ Write(e) \/ Remove(e) \/ Kill(e)
-----------------------------------------------------------------------------
(* Properties. *)

\* Edits that take turns are all in the file and nothing else is, whatever
\* versions and defaults they met; after an editor was killed between truncating
\* and writing, the file says what an empty one says, without an error, and the
\* next edits start from there.
EditsExact == (~overlap /\ \A e \in Editor : epc[e] = "idle") => Says = expected

\* "Downgrading is not supported": whatever overlaps or is killed, a config.toml
\* of a later version of the program stays as it is until somebody resets it.
FutureKept ==
    [][kind = "config" /\ Says.version > Current /\ <<text, doc>>' # <<text, doc>> =>
         \E e \in Editor : edit[e].op = "reset" /\ epc[e] # "idle"]_vars
=============================================================================
