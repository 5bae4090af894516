------------------------------ MODULE Identity ------------------------------
(***************************************************************************)
(* The three files of a node's identity (src/proto/cert.rs): identity.key, *)
(* the secret; node.crt, a certificate made from it; identity.tls, the     *)
(* same key once more, for TLS.  They are written by `init`, `node start`  *)
(* and `doctor` (load_or_generate_identity), by the wizard of the desktop  *)
(* UI and by `identity import`, one file after the other; each write       *)
(* truncates first, and a process may be killed anywhere.                  *)
(***************************************************************************)
EXTENDS Naturals, Sequences, FiniteSets

CONSTANTS
    User,     \* processes that work on the directory at the same time
    MaxIds,   \* bound of the identities generated
    IdKills,  \* bound of the processes killed
    Missing,  \* the file does not exist
    Torn      \* the file was truncated and not written

Ident == 1..MaxIds
File  == Ident \cup {Missing, Torn}

ASSUME IdAssumption ==
    /\ MaxIds \in Nat \ {0} /\ IdKills \in Nat
    /\ Missing # Torn /\ {Missing, Torn} \cap (0..MaxIds) = {}

VARIABLES
    files,      \* files["key"], files["crt"], files["tls"]: whose identity each holds
    backup,     \* the exported identity.key and node.crt
    todo,       \* the writes a process has still to do, of [file, id]
    isOpen,     \* it has truncated the file of the first one
    doing,      \* "idle", "load", "import" or "wizard"
    ids,        \* identities generated so far
    kills,
    known,      \* history: the identity last shown or imported as the directory's, or 0
    attempted,  \* history: identities whose import or generation by the wizard began
    cert,       \* history: what the last load returned, [key, crt]
    mixed,      \* history: node.crt may be another key's for good (see Mixes)
    bare        \* history: one of the three files was missing when `known` was shown

idDisk  == <<files, backup>>
idProcs == <<todo, isOpen, doing>>
idHist  == <<known, attempted, cert, mixed, bare>>
idVars  == <<idDisk, idProcs, ids, kills, idHist>>

IdTypeOK ==
    /\ files \in [{"key", "crt", "tls"} -> File]
    /\ backup \in [key : File, crt : File]
    /\ todo \in [User -> Seq([file : {"key", "crt", "tls"}, id : Ident \cup {Torn}])]
    /\ isOpen \in [User -> BOOLEAN]
    /\ doing \in [User -> {"idle", "load", "import", "wizard"}]
    /\ ids \in 0..MaxIds /\ kills \in 0..IdKills
    /\ known \in Ident \cup {0} /\ attempted \subseteq Ident
    /\ cert \in [key : Ident \cup {0}, crt : Ident \cup {0, Torn}]
    /\ mixed \in BOOLEAN /\ bare \in BOOLEAN

\* A fresh directory, and a backup made on another machine or none.
IdInit ==
    /\ files = [f \in {"key", "crt", "tls"} |-> Missing]
    /\ ids \in {0, 1}
    /\ backup = LET held == IF ids = 0 THEN Missing ELSE 1 IN [key |-> held, crt |-> held]
    /\ todo = [u \in User |-> <<>>]
    /\ isOpen = [u \in User |-> FALSE]
    /\ doing = [u \in User |-> "idle"]
    /\ kills = 0
    /\ known = 0 /\ attempted = {} /\ cert = [key |-> 0, crt |-> 0]
    /\ mixed = FALSE /\ bare = FALSE

Exists(f)  == files[f] # Missing
AllExist   == Exists("key") /\ Exists("crt") /\ Exists("tls")
Put(f, id) == [file |-> f, id |-> id]

\* History: operations overlap.
Mixes(u) == mixed' = (mixed \/ \E v \in User \ {u} : doing[v] # "idle")

\* An operation begins.
BeginId(u, what, writes) ==
    /\ doing[u] = "idle"
    /\ doing' = [doing EXCEPT ![u] = what]
    /\ todo' = [todo EXCEPT ![u] = writes]
    /\ Mixes(u)
    /\ UNCHANGED <<files, backup, isOpen, kills, known, cert, bare>>

\* save_identity: the key, the certificate, the TLS key, in this order.
SaveIdentity(id) == <<Put("key", id), Put("crt", id), Put("tls", id)>>

\* Plausible bug: only the file that was found wrong is written.
RepairTls(id) == <<Put("tls", id)>>

\* The certificate and the TLS key are made again from the key.
Repair(id) == <<Put("crt", id), Put("tls", id)>>

\* load_or_generate_identity finds all files and the TLS key made of the key:
\* it does not look whose certificate node.crt is.  A key that is not 32 bytes
\* long is an error, and nothing happens.
Load(u) ==
    /\ doing[u] = "idle"
    /\ AllExist /\ files["key"] # Torn
    /\ files["tls"] = files["key"]
    /\ known' = files["key"]
    /\ cert' = [key |-> files["key"], crt |-> files["crt"]]
    /\ bare' = FALSE
    /\ Mixes(u)
    /\ UNCHANGED <<idDisk, idProcs, ids, kills, attempted>>

\* Plausible bug: an identity whose files do not agree is replaced.
LoadRepairAnew(u) ==
    /\ AllExist /\ files["key"] # Torn
    /\ files["tls"] # files["key"]
    /\ ids < MaxIds
    /\ ids' = ids + 1
    /\ BeginId(u, "load", SaveIdentity(ids'))
    /\ UNCHANGED attempted

\* The TLS key is another one: the two derived files are written again.
LoadRepair(u) ==
    /\ AllExist /\ files["key"] # Torn
    /\ files["tls"] # files["key"]
    /\ BeginId(u, "load", Repair(files["key"]))
    /\ UNCHANGED <<ids, attempted>>

\* One of the files does not exist: a new identity.
LoadGenerate(u) ==
    /\ ~AllExist
    /\ ids < MaxIds
    /\ ids' = ids + 1
    /\ BeginId(u, "load", SaveIdentity(ids'))
    /\ UNCHANGED attempted

\* `doctor` loads the identity to look at it, if there is a key, and so may
\* repair or replace it.
CheckIdentity(u) == Exists("key") /\ (Load(u) \/ LoadRepair(u) \/ LoadGenerate(u))

\* The wizard generates one without looking whether the directory the user
\* chose has one already, and shows it.
Wizard(u) ==
    /\ ids < MaxIds
    /\ ids' = ids + 1
    /\ BeginId(u, "wizard", SaveIdentity(ids'))
    /\ attempted' = attempted \cup {ids'}

\* `identity show`, at any moment, also while another process writes: it looks
\* at identity.key alone.  (If a node of the directory runs, it shows what that
\* node loaded.)
Show ==
    /\ Exists("key") /\ files["key"] # Torn
    /\ known' = files["key"]
    /\ bare' = ~AllExist
    /\ UNCHANGED <<idDisk, idProcs, ids, kills, attempted, cert, mixed>>

\* `identity export` copies two of the three files, also when they disagree.
Export(u) ==
    /\ doing[u] = "idle"
    /\ Exists("key") /\ Exists("crt")
    /\ backup' = [key |-> files["key"], crt |-> files["crt"]]
    /\ mixed' = (mixed \/ files["key"] # files["crt"] \/ \E v \in User \ {u} : doing[v] # "idle")
    /\ UNCHANGED <<files, idProcs, ids, kills, known, attempted, cert, bare>>

\* `identity import` copies them back.
Import(u) ==
    /\ backup.key # Missing /\ backup.crt # Missing
    /\ BeginId(u, "import", <<Put("key", backup.key), Put("crt", backup.crt)>>)
    /\ attempted' = attempted \cup ({backup.key} \ {Torn})
    /\ UNCHANGED ids

\* std::fs::write and std::fs::copy truncate the file...
OpenFile(u) ==
    /\ todo[u] # <<>> /\ ~isOpen[u]
    /\ isOpen' = [isOpen EXCEPT ![u] = TRUE]
    /\ files' = [files EXCEPT ![Head(todo[u]).file] = Torn]
    /\ UNCHANGED <<backup, todo, doing, ids, kills, idHist>>

\* ...and write it.  After the last file, the operation returns.
WriteFile(u) ==
    LET put  == Head(todo[u])
        last == Len(todo[u]) = 1
    IN  /\ todo[u] # <<>> /\ isOpen[u]
        /\ isOpen' = [isOpen EXCEPT ![u] = FALSE]
        /\ files' = [files EXCEPT ![put.file] = put.id]
        /\ todo' = [todo EXCEPT ![u] = Tail(@)]
        /\ doing' = [doing EXCEPT ![u] = IF last THEN "idle" ELSE @]
        /\ known' = IF last /\ put.id # Torn THEN put.id ELSE known
        /\ cert' = IF last /\ doing[u] # "import" THEN [key |-> put.id, crt |-> put.id] ELSE cert
        /\ bare' = IF last /\ put.id # Torn THEN ~AllExist ELSE bare
        /\ UNCHANGED <<backup, ids, kills, attempted, mixed>>

\* An import of the identity that is there already, killed while it writes
\* node.crt, leaves an empty certificate next to two keys that agree.
KillUser(u) ==
    /\ doing[u] # "idle" /\ kills < IdKills
    /\ kills' = kills + 1
    /\ doing' = [doing EXCEPT ![u] = "idle"]
    /\ todo' = [todo EXCEPT ![u] = <<>>]
    /\ isOpen' = [isOpen EXCEPT ![u] = FALSE]
    /\ mixed' = (mixed \/ (doing[u] = "import" /\ files["tls"] = files["key"]
                              /\ files["crt"] # files["key"]))
    /\ UNCHANGED <<idDisk, ids, known, attempted, cert, bare>>

IdNext ==
    \/ \E u \in User :
         \/ Load(u) \/ LoadRepair(u) \/ LoadGenerate(u) \/ CheckIdentity(u)
         \/ Wizard(u) \/ Export(u) \/ Import(u)
         \/ OpenFile(u) \/ WriteFile(u) \/ KillUser(u)
    \/ Show
-----------------------------------------------------------------------------
(* Properties. *)

\* Whatever gets killed, a load returns the identity the directory is known by,
\* or one whose import or generation was begun: no interrupted write and no
\* repair makes a node somebody else.  Not if one of the three files was missing
\* when that identity was shown: `identity show` does not look whether
\* load_or_generate_identity would use the key it reads (after an `init` that was
\* killed between its files it does not), and an export holds no identity.tls, so
\* that after an import into an empty directory the next load overwrites the key.
IdentityKept ==
    [][known' # known /\ known # 0 => bare \/ mixed \/ known' \in attempted]_idVars

\* The certificate a load returns is the one of its key, although only the TLS
\* key is compared: not when operations overlap, when two files that disagree
\* were exported, or when an import of the same identity was killed half way.
CertMatches == mixed \/ cert.crt = cert.key
=============================================================================
