--------------------------- MODULE DataDirProofs ---------------------------
(***************************************************************************)
(* Proofs about the files of a data directory: DataFiles and Identity, for *)
(* any number of editors and processes, edits, kills and identities.       *)
(***************************************************************************)
EXTENDS MCDataDir, TLAPS
-----------------------------------------------------------------------------
(* The inductive invariant of the files that are edited. *)

\* The edits there are for the file.
Asked(o) ==
    /\ o.op \in {"set_role", "add_role", "remove_role", "init_role"} => kind = "config" /\ o.arg \in Roles
    /\ o.op = "add_job" => kind = "config" /\ o.arg \in Jobs
    /\ o.op = "set_value" => kind = "config" /\ o.arg \in Values
    /\ o.op \in {"add", "remove", "rewrite"} => kind # "config" /\ o.arg \in Names
    /\ o.op = "init" => o.arg = "none" \/ (kind = "config" /\ o.arg \in Roles)

\* A document the program may write: a node has a role.
Fit(d) == d \in Doc /\ (kind = "config" => d.items \cap Roles # {})

FileTypes ==
    /\ TypeOK /\ Fit(expected)
    /\ \A e \in Editor : Asked(edit[e]) /\ Fit(held[e])

\* Edits that do not go through save_config.
Direct == {"init", "init_role", "reset"}

EditorInv ==
    \A e \in Editor : epc[e] = "save" => kind = "config" /\ edit[e].op \notin Direct

\* Nothing written has a later version, and with a file of a later version on
\* the disk only resets are under way.
FutureInv ==
    kind = "config" =>
        /\ \A e \in Editor : held[e].version <= Current
        /\ doc.version > Current /\ text \in {"ok", "garbled"} =>
              \A e \in Editor : epc[e] # "idle" => edit[e].op = "reset"

\* What the edit of e makes of the documents it is expected to find.
Wanted(e) ==
    IF edit[e].op \in Direct THEN After(edit[e], expected)
    ELSE Versioned(After(edit[e], expected), expected.version)

\* As long as edits take turns, there is one editor; what the file says is
\* expected but while it writes, and it holds what is expected next.
TurnsInv ==
    ~overlap =>
        /\ \A e, f \in Editor : epc[e] # "idle" /\ epc[f] # "idle" => e = f
        /\ (\A e \in Editor : epc[e] # "write") => Says = expected
        /\ \A e \in Editor :
              /\ epc[e] = "write" => text = "empty"
              /\ epc[e] = "save" => text # "garbled" /\ held[e] = After(edit[e], expected)
              /\ epc[e] \in {"open", "write"} => held[e] = Wanted(e)

FilesInv == FileTypes /\ EditorInv /\ FutureInv /\ TurnsInv
-----------------------------------------------------------------------------
(* The inductive invariant of the identity. *)

Started == 1..ids

\* The writes a process has still to do, and what it has left behind; when
\* operations have taken turns, a new identity is in no file but the ones it
\* wrote, and what is written goes with what has been.
Doing(u) ==
    \/ doing[u] = "idle" /\ todo[u] = <<>> /\ ~isOpen[u]
    \/ /\ doing[u] \in {"load", "wizard"}
       /\ \E id \in Started :
             \/ todo[u] = SaveIdentity(id) /\ (~mixed => files["tls"] # id)
             \/ /\ todo[u] = Repair(id) /\ Exists("key")
                /\ ~mixed => files["key"] = id /\ files["tls"] # id
             \/ /\ todo[u] = <<Put("tls", id)>> /\ Exists("key") /\ Exists("crt")
                /\ ~mixed => files["key"] = id /\ files["crt"] = id
    \/ /\ doing[u] = "import"
       /\ \E a, b \in Started \cup {Torn} :
             \/ todo[u] = <<Put("key", a), Put("crt", b)>> /\ (~mixed => a = b)
             \/ todo[u] = <<Put("crt", b)>> /\ Exists("key") /\ (~mixed => files["key"] = b)

Written == [file : {"key", "crt", "tls"}, id : Ident \cup {Torn}]

IdTypes ==
    /\ IdTypeOK
    /\ \A f \in {"key", "crt", "tls"} : files[f] \in Started \cup {Missing, Torn}
    /\ backup.key \in Started \cup {Missing, Torn} /\ backup.crt \in Started \cup {Missing, Torn}

ProcInv == \A u \in User : Doing(u)

\* Two keys that agree have their certificate next to them.
Agree == (files["key"] # Torn /\ files["tls"] = files["key"]) => files["crt"] = files["key"]

TurnInv ==
    ~mixed =>
        /\ \A u, v \in User : doing[u] # "idle" /\ doing[v] # "idle" => u = v
        /\ backup.key = backup.crt
        /\ (\A u \in User : doing[u] # "import") => Agree

\* A directory that is known by an identity has all files, its key is that
\* identity or an asked-for one, and so is what is written.
KnownInv ==
    known # 0 /\ ~bare =>
        /\ AllExist
        /\ ~mixed => /\ files["key"] \in {known, Torn} \cup attempted
                     /\ \A u \in User : \A i \in 1..Len(todo[u]) :
                           todo[u][i].id \in {known, Torn} \cup attempted

\* In a directory that has all files, what is written is the identity of the key
\* or one that was asked for: `identity show` may read the key at any moment.
PlanInv ==
    ~mixed /\ AllExist /\ files["key"] # Torn =>
        \A u \in User : \A i \in 1..Len(todo[u]) :
            todo[u][i].id \in {files["key"], Torn} \cup attempted

IdInv == IdTypes /\ ProcInv /\ TurnInv /\ KnownInv /\ PlanInv /\ CertMatches
-----------------------------------------------------------------------------
(* The documents. *)

\* What an empty file says, and what a reset writes, is a document.
LEMMA DefaultFit ==
  ASSUME kind \in Kinds
  PROVE  /\ Fit(Empty) /\ Empty.version = 0
         /\ Fit(Default) /\ (kind = "config" => Default.version = Current)
  <1> DEFINE v == IF kind = "config" THEN Current ELSE 0
             s == IF kind = "providers" THEN {"default"} ELSE IF kind = "config" THEN {"light"} ELSE {}
  <1>1. Fit(Empty) /\ Empty.version = 0
    BY FileAssumption DEF Fit, Doc, Empty, Current
  <1>2. Default = [version |-> v, items |-> s, setting |-> "default"]
    <2> DEFINE r == [version |-> 0, items |-> IF kind = "config" THEN {"light"} ELSE {}, setting |-> "default"]
               t == [r EXCEPT !.version = v]
    <2>1. Empty = r /\ [r EXCEPT !.version = v, !.items = IF kind = "providers" THEN {"default"} ELSE @]
                         = [t EXCEPT !.items = IF kind = "providers" THEN {"default"} ELSE @]
      BY DEF Empty
    <2>2. t = [version |-> v, items |-> IF kind = "config" THEN {"light"} ELSE {}, setting |-> "default"]
      OBVIOUS
    <2> HIDE DEF t
    <2>3. [t EXCEPT !.items = IF kind = "providers" THEN {"default"} ELSE @]
            = [version |-> v, items |-> s, setting |-> "default"]
      BY <2>2
    <2> QED
      BY <2>1, <2>3 DEF Default, t
  <1>3. v \in 0..(Current + 1) /\ s \in SUBSET (Roles \cup Jobs \cup Names) /\ "default" \in Values
    BY FileAssumption DEF Current
  <1>4. kind = "config" => s \cap Roles # {}
    BY FileAssumption
  <1> HIDE DEF v, s
  <1>5. Fit(Default) /\ Default.version = v
    BY <1>2, <1>3, <1>4 DEF Fit, Doc
  <1> QED
    BY <1>1, <1>5 DEF v

\* The fields of a document with other items, or with another version.
LEMMA DocEdit ==
  ASSUME NEW d \in Doc
  PROVE  /\ \A s \in SUBSET (Roles \cup Jobs \cup Names) :
              LET x == [d EXCEPT !.items = s] IN
              x \in Doc /\ x.items = s /\ x.version = d.version
         /\ \A v \in 0..(Current + 1) :
              LET x == [d EXCEPT !.version = v] IN
              x \in Doc /\ x.items = d.items /\ x.version = v
         /\ \A w \in Values :
              LET x == [d EXCEPT !.setting = w] IN
              x \in Doc /\ x.items = d.items /\ x.version = d.version
         /\ [d EXCEPT !.version = d.version] = d
         /\ d.items \in SUBSET (Roles \cup Jobs \cup Names) /\ d.version \in 0..(Current + 1)
  BY DEF Doc

\* A document with other items and the current version.
LEMMA DocEdit2 ==
  ASSUME NEW d \in Doc, NEW s \in SUBSET (Roles \cup Jobs \cup Names)
  PROVE  LET x == [d EXCEPT !.items = s, !.version = Current] IN
         x \in Doc /\ x.items = s /\ x.version = Current
  <1> DEFINE t == [d EXCEPT !.items = s]
  <1>1. [d EXCEPT !.items = s, !.version = Current] = [t EXCEPT !.version = Current]
    OBVIOUS
  <1>2. t \in Doc /\ t.items = s
    BY DocEdit
  <1>3. Current \in 0..(Current + 1)
    BY DEF Current
  <1> HIDE DEF t
  <1> QED
    BY <1>1, <1>2, <1>3, DocEdit

\* What an edit makes of a document is a document, and where its version comes
\* from.
LEMMA AfterFit ==
  ASSUME kind \in Kinds, NEW o \in Edit, Asked(o), NEW d, Fit(d)
  PROVE  /\ Fit(After(o, d))
         /\ o.op \notin Direct => After(o, d).version = d.version
         /\ o.op \in Direct /\ kind = "config" => After(o, d).version = Current
  <1>0. d \in Doc /\ (kind = "config" => d.items \cap Roles # {})
    BY DEF Fit
  <1>1. CASE o.op = "set_role"
    <2>1. o.arg \in Roles /\ After(o, d) = [d EXCEPT !.items = (@ \ Roles) \cup {o.arg}]
      BY <1>1 DEF After, Asked
    <2> QED
      BY <1>0, <1>1, <2>1, DocEdit DEF Fit, Direct
  <1>2. CASE o.op = "init_role"
    <2>1. o.arg \in Roles /\ After(o, d) = [d EXCEPT !.items = (d.items \ Roles) \cup {o.arg}, !.version = Current]
      BY <1>2 DEF After, Asked
    <2>2. (d.items \ Roles) \cup {o.arg} \in SUBSET (Roles \cup Jobs \cup Names)
      BY <1>0, <2>1, DocEdit
    <2> DEFINE s == (d.items \ Roles) \cup {o.arg}
               x == [d EXCEPT !.items = s, !.version = Current]
    <2>3. x \in Doc /\ x.items = s /\ x.version = Current /\ o.arg \in s
      <3> HIDE DEF s
      <3> QED
        BY <1>0, <2>2, DocEdit2 DEF s
    <2>4. After(o, d) = x
      BY <2>1
    <2> HIDE DEF s, x
    <2> QED
      BY <1>2, <2>1, <2>3, <2>4 DEF Fit, Direct
  <1>3. CASE o.op = "remove_role"
    <2> DEFINE s == WithoutRole(d.items, o.arg)
    <2>1. After(o, d) = [d EXCEPT !.items = s]
      BY <1>3 DEF After
    <2>2. s \in SUBSET (Roles \cup Jobs \cup Names) /\ s \cap Roles # {}
      BY <1>0, DocEdit, FileAssumption DEF WithoutRole
    <2> HIDE DEF s
    <2> QED
      BY <1>0, <1>3, <2>1, <2>2, DocEdit DEF Fit, Direct
  <1>4. CASE o.op \in {"add_role", "add_job", "add"}
    <2> DEFINE s == d.items \cup {o.arg}
    <2>1. After(o, d) = [d EXCEPT !.items = s]
      BY <1>4 DEF After
    <2>2. s \in SUBSET (Roles \cup Jobs \cup Names) /\ (kind = "config" => s \cap Roles # {})
      BY <1>0, <1>4, DocEdit DEF Asked
    <2> HIDE DEF s
    <2> QED
      BY <1>0, <1>4, <2>1, <2>2, DocEdit DEF Fit, Direct
  <1>5. CASE o.op = "set_value"
    <2>1. o.arg \in Values /\ After(o, d) = [d EXCEPT !.setting = o.arg]
      BY <1>5 DEF After, Asked
    <2> QED
      BY <1>0, <1>5, <2>1, DocEdit DEF Fit, Direct
  <1>6. CASE o.op = "remove"
    <2>1. kind # "config" /\ After(o, d) = [d EXCEPT !.items = d.items \ {o.arg}]
      BY <1>6 DEF After, Asked
    <2> QED
      BY <1>0, <1>6, <2>1, DocEdit DEF Fit, Direct
  <1>7. CASE o.op = "rewrite"
    <2>1. kind # "config" /\ o.arg \in Names /\ After(o, d) = [d EXCEPT !.items = {o.arg}]
      BY <1>7 DEF After, Asked
    <2> QED
      BY <1>0, <1>7, <2>1, DocEdit DEF Fit, Direct
  <1>8. CASE o.op = "init"
    <2> DEFINE s == IF o.arg = "none" THEN Default.items ELSE {o.arg}
    <2>1. After(o, d) = [Default EXCEPT !.items = s]
      BY <1>8 DEF After
    <2>2. /\ Default \in Doc /\ (kind = "config" => Default.version = Current)
          /\ (kind = "config" => Default.items \cap Roles # {})
      BY DefaultFit DEF Fit
    <2>3. s \in SUBSET (Roles \cup Jobs \cup Names) /\ (kind = "config" => s \cap Roles # {})
      BY <1>8, <2>2, DocEdit DEF Asked
    <2> HIDE DEF s
    <2> QED
      BY <1>8, <2>1, <2>2, <2>3, DocEdit DEF Fit, Direct
  <1>9. CASE o.op = "reset"
    BY <1>9, DefaultFit DEF After, Direct
  <1> QED
    BY <1>1, <1>2, <1>3, <1>4, <1>5, <1>6, <1>7, <1>8, <1>9 DEF Edit

\* Giving a document a version leaves the rest alone.
LEMMA VersionedFit ==
  ASSUME NEW d, Fit(d), NEW v \in 0..(Current + 1)
  PROVE  /\ Fit(Versioned(d, v))
         /\ v <= Current => Versioned(d, v).version <= Current
         /\ kind # "config" /\ v = d.version => Versioned(d, v) = d
  <1>1. Current \in 0..(Current + 1)
    BY DEF Current
  <1>2. d \in Doc /\ (kind = "config" => d.items \cap Roles # {})
    BY DEF Fit
  <1>3. CASE kind = "config" /\ v = 0
    <2>1. Versioned(d, v) = [d EXCEPT !.version = Current]
      BY <1>3 DEF Versioned
    <2>2. /\ [d EXCEPT !.version = Current] \in Doc
          /\ [d EXCEPT !.version = Current].items = d.items
          /\ [d EXCEPT !.version = Current].version = Current
      BY <1>1, <1>2, DocEdit
    <2>3. Fit(Versioned(d, v))
      BY <1>2, <2>1, <2>2 DEF Fit
    <2>4. Versioned(d, v).version = Current /\ Current <= Current
      BY <2>1, <2>2 DEF Current
    <2> QED
      BY <1>3, <2>3, <2>4
  <1>4. CASE ~(kind = "config" /\ v = 0)
    <2>1. Versioned(d, v) = [d EXCEPT !.version = v]
      BY <1>4 DEF Versioned
    <2>2. /\ [d EXCEPT !.version = v] \in Doc
          /\ [d EXCEPT !.version = v].items = d.items
          /\ [d EXCEPT !.version = v].version = v
          /\ [d EXCEPT !.version = d.version] = d
      BY <1>2, DocEdit
    <2> QED
      BY <1>2, <2>1, <2>2 DEF Fit
  <1> QED
    BY <1>3, <1>4
-----------------------------------------------------------------------------
(* The steps of an editor. *)

\* Every operation begins an edit there is for the file.
LEMMA OperationBegins ==
  ASSUME NEW e \in Editor, Operation(e)
  PROVE  \E o \in Edit : Asked(o) /\ Begin(e, o)
  <1>1. ASSUME NEW op, NEW x, Begin(e, [op |-> op, arg |-> x]),
               [op |-> op, arg |-> x] \in Edit, Asked([op |-> op, arg |-> x])
        PROVE  \E o \in Edit : Asked(o) /\ Begin(e, o)
    BY <1>1
  <1>2. ASSUME kind = "config", Do(e, "set_role", Roles) \/ Do(e, "add_role", Roles) \/ Do(e, "remove_role", Roles)
                                  \/ Do(e, "init_role", Roles)
        PROVE  \E o \in Edit : Asked(o) /\ Begin(e, o)
    <2>1. PICK x \in Roles, op \in {"set_role", "add_role", "remove_role", "init_role"} : Begin(e, [op |-> op, arg |-> x])
      BY <1>2 DEF Do
    <2> QED
      BY <1>1, <1>2, <2>1 DEF Asked, Edit
  <1>3. ASSUME kind = "config", Do(e, "add_job", Jobs)
        PROVE  \E o \in Edit : Asked(o) /\ Begin(e, o)
    BY <1>1, <1>3 DEF Do, Asked, Edit
  <1>4. ASSUME kind = "config", Do(e, "set_value", Values)
        PROVE  \E o \in Edit : Asked(o) /\ Begin(e, o)
    BY <1>1, <1>4 DEF Do, Asked, Edit
  <1>5. ASSUME Do(e, "reset", {"none"}) \/ Do(e, "init", {"none"})
        PROVE  \E o \in Edit : Asked(o) /\ Begin(e, o)
    <2>1. PICK op \in {"reset", "init"} : Begin(e, [op |-> op, arg |-> "none"])
      BY <1>5 DEF Do
    <2> QED
      BY <1>1, <2>1 DEF Asked, Edit
  <1>6. ASSUME kind = "config", Do(e, "init", Roles \cup {"none"})
        PROVE  \E o \in Edit : Asked(o) /\ Begin(e, o)
    BY <1>1, <1>6 DEF Do, Asked, Edit
  <1>7. ASSUME kind # "config", Do(e, "add", Names) \/ Do(e, "remove", Names) \/ Do(e, "rewrite", Names)
        PROVE  \E o \in Edit : Asked(o) /\ Begin(e, o)
    <2>1. PICK x \in Names, op \in {"add", "remove", "rewrite"} : Begin(e, [op |-> op, arg |-> x])
      BY <1>7 DEF Do
    <2> QED
      BY <1>1, <1>7, <2>1 DEF Asked, Edit
  <1> QED
    BY <1>2, <1>3, <1>4, <1>5, <1>6, <1>7
       DEF Operation, CmdInit, FinishWizard, CmdRole, CmdConfig, SetConfig, AddJob, AddJobButton, AddProviderButton,
           AddPeerButton, EditBootstrap, EditProviders, EditBanned, AddPeer, WritePeersFile

\* Which file it is does not change, and so what edits mean.
LEMMA SameKind ==
  ASSUME kind' = kind
  PROVE  /\ Empty' = Empty
         /\ \A o, d : After(o, d)' = After(o, d)
         /\ \A o : Asked(o)' <=> Asked(o)
         /\ \A d : Fit(d)' <=> Fit(d)
  <1>1. Empty' = Empty
    BY DEF Empty
  <1>2. Default' = Default
    BY <1>1 DEF Default
  <1>3. ASSUME NEW o, NEW d
        PROVE  After(o, d)' = After(o, d)
    BY <1>2 DEF After
  <1>4. ASSUME NEW o
        PROVE  Asked(o)' <=> Asked(o)
    BY DEF Asked
  <1>5. ASSUME NEW d
        PROVE  Fit(d)' <=> Fit(d)
    BY DEF Fit
  <1> QED
    BY <1>1, <1>3, <1>4, <1>5

\* The invariant of the files holds in a fresh directory.
LEMMA FilesInit ==
  ASSUME Init
  PROVE  FilesInv
  <1>0. kind \in Kinds /\ Fit(Empty) /\ Empty.version = 0
    BY DefaultFit DEF Init
  <1>1. PICK v \in (IF kind = "config" THEN {0, Current, Current + 1} ELSE {0}) : doc = [Empty EXCEPT !.version = v]
    BY DEF Init
  <1>2. v \in 0..(Current + 1)
    BY <1>1 DEF Current
  <1>3. Fit(doc)
    BY <1>0, <1>1, <1>2, DocEdit DEF Fit
  <1>4. Fit(expected)
    BY <1>0, <1>3 DEF Init, Says
  <1>5. NoEdit \in Edit /\ Asked(NoEdit)
    BY DEF NoEdit, Edit, Asked
  <1>6. TypeOK
    <2>1. epc \in [Editor -> {"idle", "save", "open", "write"}] /\ edit \in [Editor -> Edit]
      BY <1>5 DEF Init
    <2>2. held \in [Editor -> Doc] /\ expected \in Doc /\ doc \in Doc /\ (kind = "config" => doc.items \cap Roles # {})
      BY <1>0, <1>3, <1>4 DEF Init, Fit
    <2>3. edits \in 0..MaxEdits /\ ekills \in 0..MaxKills
      BY FileAssumption DEF Init
    <2>4. text \in {"missing", "empty", "garbled", "ok"} /\ overlap \in BOOLEAN
      BY DEF Init
    <2> QED
      BY <1>0, <2>1, <2>2, <2>3, <2>4 DEF TypeOK
  <1>7. FileTypes
    BY <1>0, <1>4, <1>5, <1>6 DEF Init, FileTypes
  <1>8. EditorInv /\ TurnsInv
    BY DEF Init, EditorInv, TurnsInv
  <1>9. FutureInv
    BY <1>0 DEF Init, FutureInv, Current
  <1> QED
    BY <1>7, <1>8, <1>9 DEF FilesInv

\* What the file says is a document.
LEMMA SaysFit ==
  ASSUME FileTypes
  PROVE  /\ kind \in Kinds /\ Fit(Says) /\ Fit(doc) /\ Fit(Empty) /\ Empty.version = 0
         /\ NoEdit \in Edit /\ Asked(NoEdit)
         /\ text # "ok" => Says = Empty
         /\ text = "ok" => Says = doc
  <1>1. kind \in Kinds /\ Fit(doc)
    BY DEF FileTypes, TypeOK, Fit
  <1>2. Fit(Empty) /\ Empty.version = 0
    BY <1>1, DefaultFit
  <1>3. NoEdit \in Edit /\ Asked(NoEdit)
    BY DEF NoEdit, Edit, Asked
  <1> QED
    BY <1>1, <1>2, <1>3 DEF Says

\* What an editor holds that is not in the way of another one: the part of the
\* invariant that follows when a step changes the editor e only.
LEMMA OneEditor ==
  ASSUME FileTypes, NEW e \in Editor, kind' = kind,
         NEW pc \in {"idle", "save", "open", "write"}, epc' = [epc EXCEPT ![e] = pc],
         NEW o \in Edit, Asked(o), edit' = [edit EXCEPT ![e] = o],
         NEW d, Fit(d), held' = [held EXCEPT ![e] = d]
  PROVE  /\ epc' \in [Editor -> {"idle", "save", "open", "write"}] /\ edit' \in [Editor -> Edit] /\ held' \in [Editor -> Doc]
         /\ epc'[e] = pc /\ edit'[e] = o /\ held'[e] = d
         /\ \A f \in Editor \ {e} : epc'[f] = epc[f] /\ edit'[f] = edit[f] /\ held'[f] = held[f]
         /\ \A f \in Editor : Asked(edit[f])' /\ Fit(held[f])'
  <1>1. d \in Doc
    BY DEF Fit
  <1>2. /\ epc \in [Editor -> {"idle", "save", "open", "write"}] /\ edit \in [Editor -> Edit] /\ held \in [Editor -> Doc]
        /\ \A f \in Editor : Asked(edit[f]) /\ Fit(held[f])
    BY DEF FileTypes, TypeOK
  <1>3. /\ epc'[e] = pc /\ edit'[e] = o /\ held'[e] = d
        /\ \A f \in Editor \ {e} : epc'[f] = epc[f] /\ edit'[f] = edit[f] /\ held'[f] = held[f]
    BY <1>2
  <1>4. ASSUME NEW f \in Editor
        PROVE  Asked(edit[f])' /\ Fit(held[f])'
    <2>1. Asked(edit'[f]) /\ Fit(held'[f])
      BY <1>2, <1>3
    <2> QED
      BY <2>1 DEF Asked, Fit
  <1> QED
    BY <1>1, <1>2, <1>3, <1>4

\* A step keeps the types.
LEMMA TypesNext ==
  ASSUME FilesInv, Next
  PROVE  FileTypes'
  <1> USE FileAssumption
  <1>0. FileTypes /\ TypeOK
    BY DEF FilesInv, FileTypes
  <1>00. /\ kind \in Kinds /\ Fit(Says) /\ Fit(doc) /\ Fit(Empty) /\ NoEdit \in Edit /\ Asked(NoEdit) /\ Fit(expected)
         /\ kind' = kind => (Empty' = Empty)
    BY <1>0, SaysFit, SameKind DEF FileTypes
  <1>1. ASSUME kind' = kind, text' \in {"missing", "empty", "garbled", "ok"}, Fit(doc'), Fit(expected'),
               epc' \in [Editor -> {"idle", "save", "open", "write"}], edit' \in [Editor -> Edit], held' \in [Editor -> Doc],
               \A f \in Editor : Asked(edit[f])' /\ Fit(held[f])',
               edits' \in 0..MaxEdits, ekills' \in 0..MaxKills, overlap' \in BOOLEAN
        PROVE  FileTypes'
    BY <1>00, <1>1 DEF FileTypes, TypeOK, Fit
  <1>2. \A f \in Editor : kind' = kind /\ edit' = edit /\ held' = held => Asked(edit[f])' /\ Fit(held[f])'
    BY <1>0 DEF FileTypes, Asked, Fit
  <1>3. ASSUME NEW e \in Editor, NEW o \in Edit, Asked(o), Begin(e, o)
        PROVE  FileTypes'
    <2>1. Fit(After(o, Says))
      BY <1>00, <1>3, AfterFit
    <2>2. PICK pc \in {"save", "open"} : epc' = [epc EXCEPT ![e] = pc]
      BY <1>3 DEF Begin
    <2>3. edits' \in 0..MaxEdits
      BY <1>0, <1>3 DEF Begin, TypeOK
    <2>4. /\ kind' = kind /\ text' = text /\ doc' = doc /\ ekills' = ekills /\ expected' = expected
          /\ edit' = [edit EXCEPT ![e] = o] /\ held' = [held EXCEPT ![e] = After(o, Says)]
          /\ overlap' \in BOOLEAN
      BY <1>0, <1>3 DEF Begin, onDisk, Start, TypeOK
    <2>5. /\ epc' \in [Editor -> {"idle", "save", "open", "write"}] /\ edit' \in [Editor -> Edit] /\ held' \in [Editor -> Doc]
          /\ \A f \in Editor : Asked(edit[f])' /\ Fit(held[f])'
      BY <1>0, <1>3, <2>1, <2>2, <2>4, OneEditor
    <2> QED
      BY <1>0, <1>00, <1>1, <2>3, <2>4, <2>5 DEF TypeOK
  <1>4. ASSUME NEW e \in Editor, Save(e)
        PROVE  FileTypes'
    <2>1. PICK v \in (IF text = "garbled" THEN {0, doc.version} ELSE {Says.version}) :
             held' = [held EXCEPT ![e] = Versioned(held[e], v)]
      BY <1>4 DEF Save
    <2>2. Fit(held[e]) /\ edit[e] \in Edit /\ Asked(edit[e]) /\ v \in 0..(Current + 1)
      BY <1>0, <1>00, <2>1 DEF FileTypes, TypeOK, Fit, Doc, Current
    <2>3. Fit(Versioned(held[e], v))
      BY <2>2, VersionedFit
    <2>4. /\ kind' = kind /\ text' = text /\ doc' = doc /\ ekills' = ekills /\ expected' = expected /\ edits' = edits
          /\ edit' = [edit EXCEPT ![e] = edit[e]] /\ epc' = [epc EXCEPT ![e] = "open"] /\ overlap' = overlap
      BY <1>0, <1>4 DEF Save, onDisk, TypeOK
    <2>5. /\ epc' \in [Editor -> {"idle", "save", "open", "write"}] /\ edit' \in [Editor -> Edit] /\ held' \in [Editor -> Doc]
          /\ \A f \in Editor : Asked(edit[f])' /\ Fit(held[f])'
      BY <1>0, <2>1, <2>2, <2>3, <2>4, OneEditor
    <2> QED
      BY <1>0, <1>00, <1>1, <2>4, <2>5 DEF TypeOK
  <1>5. ASSUME NEW e \in Editor, Truncate(e)
        PROVE  FileTypes'
    <2>1. epc' \in [Editor -> {"idle", "save", "open", "write"}]
      BY <1>0, <1>5 DEF Truncate, TypeOK
    <2> QED
      BY <1>0, <1>00, <1>1, <1>2, <1>5, <2>1 DEF Truncate, TypeOK
  <1>6. ASSUME NEW e \in Editor, Write(e)
        PROVE  FileTypes'
    <2>1. Fit(held[e]) /\ edit[e] \in Edit /\ Asked(edit[e])
      BY <1>0 DEF FileTypes, TypeOK
    <2>2. expected.version \in 0..(Current + 1)
      BY <1>00 DEF Fit, Doc
    <2>3. Fit(After(edit[e], expected))
      BY <1>00, <2>1, AfterFit
    <2>4. Fit(Versioned(After(edit[e], expected), expected.version))
      BY <2>2, <2>3, VersionedFit
    <2>5. Fit(expected')
      BY <1>6, <2>3, <2>4 DEF Write
    <2>6. /\ kind' = kind /\ doc' = held[e] /\ ekills' = ekills /\ edits' = edits
          /\ text' \in {"missing", "empty", "garbled", "ok"}
          /\ edit' = [edit EXCEPT ![e] = NoEdit] /\ epc' = [epc EXCEPT ![e] = "idle"] /\ overlap' = overlap
          /\ held' = [held EXCEPT ![e] = Empty]
      BY <1>6 DEF Write
    <2>7. /\ epc' \in [Editor -> {"idle", "save", "open", "write"}] /\ edit' \in [Editor -> Edit] /\ held' \in [Editor -> Doc]
          /\ \A f \in Editor : Asked(edit[f])' /\ Fit(held[f])'
      BY <1>0, <1>00, <2>6, OneEditor
    <2> QED
      BY <1>0, <1>1, <2>1, <2>5, <2>6, <2>7 DEF TypeOK
  <1>7. ASSUME NEW e \in Editor, Remove(e)
        PROVE  FileTypes'
    <2>1. edits' \in 0..MaxEdits
      BY <1>0, <1>7 DEF Remove, TypeOK
    <2>2. /\ kind' = kind /\ doc' = doc /\ ekills' = ekills /\ text' = "missing" /\ expected' = Empty
          /\ edit' = edit /\ epc' = epc /\ held' = held /\ overlap' \in BOOLEAN
      BY <1>0, <1>7 DEF Remove, editing, TypeOK
    <2> QED
      BY <1>0, <1>00, <1>1, <1>2, <2>1, <2>2 DEF TypeOK
  <1>8. ASSUME NEW e \in Editor, Kill(e)
        PROVE  FileTypes'
    <2>1. ekills' \in 0..MaxKills
      BY <1>0, <1>8 DEF Kill, TypeOK
    <2>2. /\ kind' = kind /\ doc' = doc /\ text' = text /\ Fit(expected') /\ edits' = edits
          /\ edit' = [edit EXCEPT ![e] = NoEdit] /\ epc' = [epc EXCEPT ![e] = "idle"] /\ overlap' = overlap
          /\ held' = [held EXCEPT ![e] = Empty]
      BY <1>00, <1>8 DEF Kill, onDisk
    <2>3. /\ epc' \in [Editor -> {"idle", "save", "open", "write"}] /\ edit' \in [Editor -> Edit] /\ held' \in [Editor -> Doc]
          /\ \A f \in Editor : Asked(edit[f])' /\ Fit(held[f])'
      BY <1>0, <1>00, <2>2, OneEditor
    <2> QED
      BY <1>0, <1>00, <1>1, <2>1, <2>2, <2>3 DEF TypeOK
  <1> QED
    BY <1>3, <1>4, <1>5, <1>6, <1>7, <1>8, OperationBegins DEF Next

\* A step changes one editor, or none when `bootstrap reset` removes the file.
LEMMA StepOf ==
  ASSUME FileTypes, NEW e \in Editor
  PROVE  /\ \A o \in Edit : Begin(e, o) =>
              /\ epc'[e] = (IF kind = "config" /\ o.op \notin Direct THEN "save" ELSE "open")
              /\ edit'[e] = o /\ held'[e] = After(o, Says) /\ epc[e] = "idle"
              /\ \A f \in Editor \ {e} : epc'[f] = epc[f] /\ edit'[f] = edit[f] /\ held'[f] = held[f]
         /\ Save(e) => /\ epc'[e] = "open" /\ edit'[e] = edit[e] /\ epc[e] = "save"
                       /\ \A f \in Editor \ {e} : epc'[f] = epc[f] /\ edit'[f] = edit[f] /\ held'[f] = held[f]
         /\ Truncate(e) => /\ epc'[e] = "write" /\ edit' = edit /\ held' = held /\ epc[e] = "open"
                           /\ \A f \in Editor \ {e} : epc'[f] = epc[f]
         /\ Write(e) \/ Kill(e) =>
              /\ epc'[e] = "idle" /\ edit'[e] = NoEdit /\ held'[e] = Empty /\ epc[e] # "idle"
              /\ \A f \in Editor \ {e} : epc'[f] = epc[f] /\ edit'[f] = edit[f] /\ held'[f] = held[f]
         /\ Remove(e) => epc' = epc /\ edit' = edit /\ held' = held
  <1>1. epc \in [Editor -> {"idle", "save", "open", "write"}] /\ edit \in [Editor -> Edit] /\ held \in [Editor -> Doc]
    BY DEF FileTypes, TypeOK
  <1>2. ASSUME NEW o \in Edit, Begin(e, o)
        PROVE  /\ epc'[e] = (IF kind = "config" /\ o.op \notin Direct THEN "save" ELSE "open")
               /\ edit'[e] = o /\ held'[e] = After(o, Says) /\ epc[e] = "idle"
               /\ \A f \in Editor \ {e} : epc'[f] = epc[f] /\ edit'[f] = edit[f] /\ held'[f] = held[f]
    BY <1>1, <1>2 DEF Begin, Direct, Start
  <1>3. ASSUME Save(e)
        PROVE  /\ epc'[e] = "open" /\ edit'[e] = edit[e] /\ epc[e] = "save"
               /\ \A f \in Editor \ {e} : epc'[f] = epc[f] /\ edit'[f] = edit[f] /\ held'[f] = held[f]
    BY <1>1, <1>3 DEF Save
  <1>4. ASSUME Truncate(e)
        PROVE  /\ epc'[e] = "write" /\ edit' = edit /\ held' = held /\ epc[e] = "open"
               /\ \A f \in Editor \ {e} : epc'[f] = epc[f]
    BY <1>1, <1>4 DEF Truncate
  <1>5. ASSUME Write(e) \/ Kill(e)
        PROVE  /\ epc'[e] = "idle" /\ edit'[e] = NoEdit /\ held'[e] = Empty /\ epc[e] # "idle"
               /\ \A f \in Editor \ {e} : epc'[f] = epc[f] /\ edit'[f] = edit[f] /\ held'[f] = held[f]
    BY <1>1, <1>5 DEF Write, Kill
  <1>6. Remove(e) => epc' = epc /\ edit' = edit /\ held' = held
    BY DEF Remove, editing
  <1> QED
    BY <1>2, <1>3, <1>4, <1>5, <1>6

\* Who is about to save edits config.toml.
LEMMA EditorNext ==
  ASSUME FilesInv, Next
  PROVE  EditorInv'
  <1>0. FileTypes /\ EditorInv
    BY DEF FilesInv
  <1>1. PICK e \in Editor : (\E o \in Edit : Asked(o) /\ Begin(e, o)) \/ Save(e) \/ Truncate(e) \/ Write(e) \/ Remove(e) \/ Kill(e)
    BY OperationBegins DEF Next
  <1>2. kind' = kind
    BY <1>1 DEF Begin, Save, Truncate, Write, Remove, Kill
  <1>3. ASSUME NEW o \in Edit, Begin(e, o)
        PROVE  EditorInv'
    BY <1>0, <1>2, <1>3, StepOf DEF EditorInv
  <1>4. CASE Save(e)
    BY <1>0, <1>2, <1>4, StepOf DEF EditorInv
  <1>5. CASE Truncate(e)
    BY <1>0, <1>2, <1>5, StepOf DEF EditorInv
  <1>6. CASE Write(e) \/ Kill(e)
    BY <1>0, <1>2, <1>6, StepOf DEF EditorInv
  <1>7. CASE Remove(e)
    BY <1>0, <1>2, <1>7, StepOf DEF EditorInv
  <1> QED
    BY <1>1, <1>3, <1>4, <1>5, <1>6, <1>7

\* Nothing that is written has a later version.
LEMMA FutureNext ==
  ASSUME FilesInv, Next
  PROVE  FutureInv'
  <1>0. FileTypes /\ EditorInv /\ FutureInv
    BY DEF FilesInv
  <1>1. PICK e \in Editor : (\E o \in Edit : Asked(o) /\ Begin(e, o)) \/ Save(e) \/ Truncate(e) \/ Write(e) \/ Remove(e) \/ Kill(e)
    BY OperationBegins DEF Next
  <1>2. kind' = kind
    BY <1>1 DEF Begin, Save, Truncate, Write, Remove, Kill
  <1>3. SUFFICES ASSUME kind = "config"
                 PROVE  FutureInv'
    BY <1>2 DEF FutureInv
  <1>4. /\ \A f \in Editor : held[f].version <= Current
        /\ doc.version > Current /\ text \in {"ok", "garbled"} => \A f \in Editor : epc[f] # "idle" => edit[f].op = "reset"
    BY <1>0, <1>3 DEF FutureInv
  <1>5. /\ Fit(Says) /\ Fit(doc) /\ Fit(Empty) /\ Empty.version = 0 /\ kind \in Kinds
        /\ text # "ok" => Says = Empty
        /\ text = "ok" => Says = doc
    BY <1>0, SaysFit
  <1>6. doc.version \in 0..(Current + 1) /\ Says.version \in 0..(Current + 1) /\ Current \in Nat
    BY <1>5 DEF Fit, Doc, Current
  <1>7. ASSUME NEW o \in Edit, Asked(o), Begin(e, o)
        PROVE  FutureInv'
    <2>1. o.op = "reset" \/ (o.op = "init" /\ text = "missing") \/ (text # "garbled" /\ Says.version <= Current)
      BY <1>3, <1>7 DEF Begin, Readable
    <2>2. /\ o.op \notin Direct => After(o, Says).version = Says.version
          /\ o.op \in Direct => After(o, Says).version = Current
      BY <1>3, <1>5, <1>7, AfterFit
    <2>3. Current <= Current
      BY DEF Current
    <2>4. After(o, Says).version <= Current
      BY <2>1, <2>2, <2>3 DEF Direct
    <2>5. \A f \in Editor : held'[f].version <= Current
      BY <1>0, <1>4, <1>7, <2>4, StepOf
    <2>6. doc.version > Current /\ text \in {"ok", "garbled"} => o.op = "reset"
      BY <1>5, <1>6, <2>1
    <2>7. doc' = doc /\ text' = text
      BY <1>7 DEF Begin, onDisk
    <2>8. doc.version > Current /\ text \in {"ok", "garbled"} => \A f \in Editor : epc'[f] # "idle" => edit'[f].op = "reset"
      BY <1>0, <1>4, <1>7, <2>6, StepOf
    <2> QED
      BY <2>5, <2>7, <2>8 DEF FutureInv, Current
  <1>8. CASE Save(e)
    <2>1. doc' = doc /\ text' = text
      BY <1>8 DEF Save, onDisk
    <2>2. edit[e].op # "reset" /\ epc[e] = "save"
      BY <1>0, <1>8, StepOf DEF EditorInv, Direct
    <2>3. ~(doc.version > Current /\ text \in {"ok", "garbled"})
      BY <1>4, <2>2
    <2>4. PICK v \in (IF text = "garbled" THEN {0, doc.version} ELSE {Says.version}) :
             held' = [held EXCEPT ![e] = Versioned(held[e], v)]
      BY <1>8 DEF Save
    <2>5. v \in 0..(Current + 1) /\ v <= Current
      BY <1>5, <1>6, <2>3, <2>4 DEF Current
    <2>6. held \in [Editor -> Doc] /\ Fit(held[e])
      BY <1>0 DEF FileTypes, TypeOK
    <2>7. held'[e].version <= Current
      BY <2>4, <2>5, <2>6, VersionedFit
    <2>8. \A f \in Editor : held'[f].version <= Current
      BY <1>0, <1>4, <1>8, <2>7, StepOf
    <2> QED
      BY <2>1, <2>3, <2>8 DEF FutureInv, Current
  <1>9. CASE Truncate(e)
    <2>1. held' = held /\ text' = "empty"
      BY <1>9 DEF Truncate
    <2> QED
      BY <1>4, <2>1 DEF FutureInv, Current
  <1>10. CASE Write(e)
    <2>1. doc' = held[e]
      BY <1>10 DEF Write
    <2>2. \A f \in Editor : held[f].version \in Nat
      BY <1>0 DEF FileTypes, TypeOK, Doc, Current
    <2>3. ~(doc'.version > Current)
      BY <1>4, <1>6, <2>1, <2>2
    <2>4. \A f \in Editor : held'[f].version <= Current
      BY <1>0, <1>4, <1>5, <1>6, <1>10, StepOf
    <2> QED
      BY <2>3, <2>4 DEF FutureInv, Current
  <1>11. CASE Kill(e)
    <2>1. doc' = doc /\ text' = text
      BY <1>11 DEF Kill, onDisk
    <2>2. \A f \in Editor : held'[f].version <= Current
      BY <1>0, <1>4, <1>5, <1>6, <1>11, StepOf
    <2>3. \A f \in Editor : epc'[f] = "idle" \/ (epc'[f] = epc[f] /\ edit'[f] = edit[f])
      BY <1>0, <1>11, StepOf
    <2> QED
      BY <1>4, <2>1, <2>2, <2>3 DEF FutureInv, Current
  <1>12. CASE Remove(e)
    BY <1>3, <1>12 DEF Remove
  <1> QED
    BY <1>1, <1>7, <1>8, <1>9, <1>10, <1>11, <1>12

\* What an edit is expected to make, after a step.
LEMMA WantedNext ==
  ASSUME kind' = kind, NEW e
  PROVE  /\ Wanted(e)' = IF edit'[e].op \in Direct THEN After(edit'[e], expected')
                         ELSE Versioned(After(edit'[e], expected'), expected'.version)
         /\ After(edit[e], expected)' = After(edit'[e], expected')
         /\ Says' = IF text' = "ok" THEN doc' ELSE Empty
  <1>1. Empty' = Empty
    BY DEF Empty
  <1>2. Default' = Default
    BY <1>1 DEF Default
  <1>3. After(edit[e], expected)' = After(edit'[e], expected')
    BY <1>2 DEF After
  <1> QED
    BY <1>1, <1>3 DEF Wanted, Versioned, Direct, Says

\* Edits that take turns do what is expected of them.
LEMMA TurnsNext ==
  ASSUME FilesInv, Next
  PROVE  TurnsInv'
  <1>0. FileTypes /\ EditorInv /\ TurnsInv
    BY DEF FilesInv
  <1>1. PICK e \in Editor : (\E o \in Edit : Asked(o) /\ Begin(e, o)) \/ Save(e) \/ Truncate(e) \/ Write(e) \/ Remove(e) \/ Kill(e)
    BY OperationBegins DEF Next
  <1>2. kind' = kind /\ (overlap => overlap')
    <2>1. kind' = kind
      BY <1>1 DEF Begin, Save, Truncate, Write, Remove, Kill
    <2>2. (Save(e) \/ Truncate(e) \/ Write(e) \/ Kill(e)) => overlap' = overlap
      BY DEF Save, Truncate, Write, Kill
    <2>3. ASSUME NEW o, Begin(e, o) \/ Remove(e), overlap
          PROVE  overlap'
      <3>1. overlap' = (overlap \/ \E f \in Editor : epc[f] # "idle")
        BY <2>3 DEF Begin, Remove
      <3> QED
        BY <2>3, <3>1
    <2> QED
      BY <1>1, <2>1, <2>2, <2>3
  <1>3. SUFFICES ASSUME ~overlap, ~overlap'
                 PROVE  TurnsInv'
    BY <1>2 DEF TurnsInv
  <1>4. /\ \A f, g \in Editor : epc[f] # "idle" /\ epc[g] # "idle" => f = g
        /\ (\A f \in Editor : epc[f] # "write") => Says = expected
        /\ \A f \in Editor :
              /\ epc[f] = "write" => text = "empty"
              /\ epc[f] = "save" => text # "garbled" /\ held[f] = After(edit[f], expected)
              /\ epc[f] \in {"open", "write"} => held[f] = Wanted(f)
    BY <1>0, <1>3 DEF TurnsInv
  <1>5. /\ Fit(Says) /\ Fit(doc) /\ Fit(Empty) /\ Empty.version = 0 /\ kind \in Kinds
        /\ text # "ok" => Says = Empty
        /\ text = "ok" => Says = doc
    BY <1>0, SaysFit
  <1>6. SUFFICES
          /\ \A f, g \in Editor : epc'[f] # "idle" /\ epc'[g] # "idle" => f = g
          /\ (\A f \in Editor : epc'[f] # "write") => Says' = expected'
          /\ \A f \in Editor :
                /\ epc'[f] = "write" => text' = "empty"
                /\ epc'[f] = "save" => text' # "garbled" /\ held'[f] = After(edit'[f], expected')
                /\ epc'[f] \in {"open", "write"} => held'[f] = Wanted(f)'
    BY <1>2, <1>3, WantedNext DEF TurnsInv
  <1>7. ASSUME NEW o \in Edit, Asked(o), Begin(e, o)
        PROVE  /\ \A f, g \in Editor : epc'[f] # "idle" /\ epc'[g] # "idle" => f = g
               /\ (\A f \in Editor : epc'[f] # "write") => Says' = expected'
               /\ \A f \in Editor :
                     /\ epc'[f] = "write" => text' = "empty"
                     /\ epc'[f] = "save" => text' # "garbled" /\ held'[f] = After(edit'[f], expected')
                     /\ epc'[f] \in {"open", "write"} => held'[f] = Wanted(f)'
    <2>1. \A f \in Editor : epc[f] = "idle"
      BY <1>3, <1>7 DEF Begin
    <2>2. text' = text /\ doc' = doc /\ expected' = expected
      BY <1>7 DEF Begin, onDisk
    <2>3. Says = expected
      BY <1>4, <2>1
    <2>4. Says' = expected'
      BY <1>2, <1>5, <2>2, <2>3, WantedNext
    <2>5. /\ epc'[e] = (IF kind = "config" /\ o.op \notin Direct THEN "save" ELSE "open")
          /\ edit'[e] = o /\ held'[e] = After(o, expected)
          /\ \A f \in Editor \ {e} : epc'[f] = "idle"
      BY <1>0, <1>7, <2>1, <2>3, StepOf
    <2>6. epc'[e] = "save" => text # "garbled"
      BY <1>7, <2>5 DEF Begin, Readable, Direct
    <2>7. epc'[e] = "open" => held'[e] = Wanted(e)'
      <3>1. CASE o.op \in Direct
        BY <1>2, <2>2, <2>5, <3>1, WantedNext
      <3>2. CASE o.op \notin Direct /\ kind # "config"
        <4>1. Fit(After(o, expected)) /\ After(o, expected).version = expected.version
          BY <1>5, <1>7, <2>3, <3>2, AfterFit
        <4>2. expected.version \in 0..(Current + 1)
          BY <1>5, <2>3 DEF Fit, Doc
        <4>3. Versioned(After(o, expected), expected.version) = After(o, expected)
          BY <3>2, <4>1, <4>2, VersionedFit
        <4> QED
          BY <1>2, <2>2, <2>5, <3>2, <4>3, WantedNext
      <3> QED
        BY <2>5, <3>1, <3>2
    <2> QED
      BY <2>2, <2>4, <2>5, <2>6, <2>7
  <1>8. CASE Save(e)
    <2>1. text' = text /\ doc' = doc /\ expected' = expected
      BY <1>8 DEF Save, onDisk
    <2>2. epc[e] = "save" /\ edit[e].op \notin Direct /\ edit'[e] = edit[e] /\ epc'[e] = "open"
      BY <1>0, <1>8, StepOf DEF EditorInv
    <2>3. \A f \in Editor \ {e} : epc[f] = "idle" /\ epc'[f] = "idle"
      BY <1>0, <1>4, <1>8, <2>2, StepOf
    <2>4. Says = expected /\ text # "garbled" /\ held[e] = After(edit[e], expected)
      BY <1>4, <2>2, <2>3
    <2>5. held' = [held EXCEPT ![e] = Versioned(held[e], Says.version)]
      BY <1>8, <2>4 DEF Save
    <2>6. held'[e] = Versioned(After(edit[e], expected), expected.version)
      BY <1>0, <2>4, <2>5 DEF FileTypes, TypeOK
    <2>7. held'[e] = Wanted(e)'
      BY <1>2, <2>1, <2>2, <2>6, WantedNext
    <2>8. Says' = expected'
      BY <1>2, <1>5, <2>1, <2>4, WantedNext
    <2> QED
      BY <2>2, <2>3, <2>7, <2>8
  <1>9. CASE Truncate(e)
    <2>1. text' = "empty" /\ expected' = expected /\ edit' = edit /\ held' = held
      BY <1>9 DEF Truncate
    <2>2. epc[e] = "open" /\ epc'[e] = "write"
      BY <1>0, <1>9, StepOf
    <2>3. \A f \in Editor \ {e} : epc'[f] = "idle"
      BY <1>0, <1>4, <1>9, <2>2, StepOf
    <2>4. held[e] = Wanted(e)
      BY <1>4, <2>2
    <2>5. Wanted(e)' = Wanted(e)
      BY <1>2, <2>1, WantedNext DEF Wanted
    <2> QED
      BY <2>1, <2>2, <2>3, <2>4, <2>5
  <1>10. CASE Write(e)
    <2>1. epc[e] = "write" /\ doc' = held[e] /\ expected' = Wanted(e)
      BY <1>10 DEF Write, Wanted, Direct
    <2>2. text = "empty" /\ held[e] = Wanted(e)
      BY <1>4, <2>1
    <2>3. text' = "ok"
      BY <1>10, <2>2 DEF Write
    <2>4. \A f \in Editor : epc'[f] = "idle"
      BY <1>0, <1>4, <1>10, <2>1, StepOf
    <2>5. Says' = expected'
      BY <1>2, <2>1, <2>2, <2>3, WantedNext
    <2> QED
      BY <2>4, <2>5
  <1>11. CASE Kill(e)
    <2>1. text' = text /\ doc' = doc /\ epc[e] # "idle" /\ expected' = IF epc[e] = "write" THEN Empty ELSE expected
      BY <1>11 DEF Kill, onDisk
    <2>2. \A f \in Editor : epc'[f] = "idle"
      BY <1>0, <1>4, <1>11, <2>1, StepOf
    <2>3. \A f \in Editor \ {e} : epc[f] = "idle"
      BY <1>4, <2>1
    <2>4. CASE epc[e] = "write"
      BY <1>2, <1>4, <2>1, <2>2, <2>4, WantedNext
    <2>5. CASE epc[e] # "write"
      <3>1. Says = expected
        BY <1>4, <2>3, <2>5
      <3> QED
        BY <1>2, <1>5, <2>1, <2>2, <2>5, <3>1, WantedNext
    <2> QED
      BY <2>4, <2>5
  <1>12. CASE Remove(e)
    <2>1. \A f \in Editor : epc[f] = "idle" /\ epc'[f] = "idle"
      BY <1>0, <1>3, <1>12, StepOf DEF Remove
    <2>2. text' = "missing" /\ expected' = Empty
      BY <1>12 DEF Remove
    <2> QED
      BY <1>2, <2>1, <2>2, WantedNext
  <1> QED
    BY <1>1, <1>7, <1>8, <1>9, <1>10, <1>11, <1>12

\* The invariant is inductive, and the identity's steps leave the files alone.
LEMMA FilesNext ==
  ASSUME FilesInv, [DirNext]_dirVars
  PROVE  FilesInv'
  <1>1. CASE Next
    BY <1>1, TypesNext, EditorNext, FutureNext, TurnsNext DEF FilesInv
  <1>2. CASE UNCHANGED vars
    <2>1. /\ kind' = kind /\ text' = text /\ doc' = doc /\ epc' = epc /\ edit' = edit /\ held' = held
          /\ edits' = edits /\ ekills' = ekills /\ expected' = expected /\ overlap' = overlap
      BY <1>2 DEF vars, onDisk, editing
    <2>2. FileTypes'
      BY <2>1 DEF FilesInv, FileTypes, TypeOK, Fit, Asked
    <2>3. EditorInv' /\ FutureInv'
      BY <2>1 DEF FilesInv, EditorInv, FutureInv
    <2>4. Empty' = Empty /\ Says' = Says
      BY <2>1 DEF Says, Empty
    <2>5. \A e \in Editor : Wanted(e)' = Wanted(e) /\ After(edit[e], expected)' = After(edit[e], expected)
      BY <2>1, WantedNext DEF Wanted
    <2>6. TurnsInv'
      BY <2>1, <2>4, <2>5 DEF FilesInv, TurnsInv
    <2> QED
      BY <2>2, <2>3, <2>6 DEF FilesInv
  <1> QED
    BY <1>1, <1>2 DEF DirNext, dirVars

\* Edits that take turns are all in the file and nothing else is, also after
\* kills (config.toml, bootstrap.toml, search_providers.toml, banned_peers.json
\* and peers.json).
THEOREM EditsCorrect == DirSpec => []EditsExact
  <1>1. DirInit => FilesInv
    BY FilesInit DEF DirInit
  <1>2. FilesInv /\ [DirNext]_dirVars => FilesInv'
    BY FilesNext
  <1>3. FilesInv => EditsExact
    BY DEF FilesInv, TurnsInv, EditsExact
  <1> QED
    BY <1>1, <1>2, <1>3, PTL DEF DirSpec

\* A config.toml of a later version stays as it is until somebody resets it,
\* whatever edits overlap or are killed (load_config, save_config).
THEOREM FutureCorrect == DirSpec => FutureKept
  <1> DEFINE P == kind = "config" /\ Says.version > Current /\ <<text, doc>>' # <<text, doc>> =>
                    \E e \in Editor : edit[e].op = "reset" /\ epc[e] # "idle"
  <1>1. DirInit => FilesInv
    BY FilesInit DEF DirInit
  <1>2. FilesInv /\ [DirNext]_dirVars => FilesInv'
    BY FilesNext
  <1>3. FilesInv /\ [DirNext]_dirVars => [P]_vars
    <2>1. SUFFICES ASSUME FilesInv, Next, kind = "config", Says.version > Current, <<text, doc>>' # <<text, doc>>
                   PROVE  \E e \in Editor : edit[e].op = "reset" /\ epc[e] # "idle"
      BY DEF DirNext, dirVars
    <2>2. FileTypes /\ FutureInv
      BY <2>1 DEF FilesInv
    <2>3. text = "ok" /\ doc.version > Current
      BY <2>1, <2>2, SaysFit DEF Current
    <2>4. PICK e \in Editor : Truncate(e) \/ Write(e) \/ Remove(e)
      BY <2>1, OperationBegins DEF Next, Begin, Save, Kill, onDisk
    <2>5. epc[e] # "idle"
      BY <2>1, <2>4 DEF Truncate, Write, Remove
    <2> QED
      BY <2>1, <2>2, <2>3, <2>5 DEF FutureInv
  <1>4. DirSpec => [][P]_vars
    BY <1>1, <1>2, <1>3, PTL DEF DirSpec
  <1> QED
    BY <1>4 DEF FutureKept
-----------------------------------------------------------------------------
(* The identity. *)

\* What is left of the writes of an operation after the first one.
LEMMA Writes ==
  /\ \A id : /\ SaveIdentity(id) # <<>> /\ Head(SaveIdentity(id)) = Put("key", id)
             /\ Tail(SaveIdentity(id)) = Repair(id) /\ Len(SaveIdentity(id)) = 3
             /\ Repair(id) # <<>> /\ Head(Repair(id)) = Put("crt", id)
             /\ Tail(Repair(id)) = <<Put("tls", id)>> /\ Len(Repair(id)) = 2
             /\ \A i \in 1..3 : SaveIdentity(id)[i].id = id
             /\ \A i \in 1..2 : Repair(id)[i].id = id
  /\ \A a, b : /\ <<a, b>> # <<>> /\ Head(<<a, b>>) = a /\ Tail(<<a, b>>) = <<b>> /\ Len(<<a, b>>) = 2
               /\ <<a>> # <<>> /\ Head(<<a>>) = a /\ Tail(<<a>>) = <<>> /\ Len(<<a>>) = 1
  /\ \A f, id : Put(f, id).file = f /\ Put(f, id).id = id
  BY DEF SaveIdentity, Repair, Put

\* Writes of identities are writes.
LEMMA WritesType ==
  /\ \A id \in Ident : SaveIdentity(id) \in Seq(Written) /\ Repair(id) \in Seq(Written)
                         /\ <<Put("tls", id)>> \in Seq(Written)
  /\ \A a, b \in Ident \cup {Torn} : <<Put("key", a), Put("crt", b)>> \in Seq(Written) /\ <<Put("crt", b)>> \in Seq(Written)
  /\ <<>> \in Seq(Written)
  <1>1. \A f \in {"key", "crt", "tls"}, id \in Ident \cup {Torn} : Put(f, id) \in Written
    BY DEF Put, Written
  <1> HIDE DEF Written
  <1>2. \A a, b, c \in Written : <<a, b, c>> \in Seq(Written) /\ <<a, b>> \in Seq(Written) /\ <<a>> \in Seq(Written)
    OBVIOUS
  <1> QED
    BY <1>1, <1>2 DEF SaveIdentity, Repair

\* The invariant of the identity holds in a fresh directory.
LEMMA IdInitial ==
  ASSUME IdInit
  PROVE  IdInv
  <1> USE IdAssumption
  <1>1. ids \in 0..MaxIds /\ kills \in 0..IdKills /\ (ids = 1 => 1 \in Ident /\ 1 \in Started)
    BY DEF IdInit, Ident, Started
  <1>2. files \in [{"key", "crt", "tls"} -> File] /\ \A f \in {"key", "crt", "tls"} : files[f] = Missing
    BY DEF IdInit, File
  <1>3. /\ backup \in [key : File, crt : File] /\ backup.key = backup.crt
        /\ backup.key \in Started \cup {Missing, Torn}
    <2>1. CASE ids = 0
      BY <2>1 DEF IdInit, File
    <2>2. CASE ids = 1
      BY <1>1, <2>2 DEF IdInit, File
    <2> QED
      BY <2>1, <2>2 DEF IdInit
  <1>4. todo \in [User -> Seq(Written)] /\ isOpen \in [User -> BOOLEAN]
        /\ doing \in [User -> {"idle", "load", "import", "wizard"}]
    BY WritesType DEF IdInit
  <1>5. /\ known \in Ident \cup {0} /\ attempted \subseteq Ident /\ mixed \in BOOLEAN /\ bare \in BOOLEAN
        /\ cert \in [key : Ident \cup {0}, crt : Ident \cup {0, Torn}]
    BY DEF IdInit
  <1>6. IdTypes
    BY <1>1, <1>2, <1>3, <1>4, <1>5 DEF IdTypes, IdTypeOK, Written
  <1>7. ProcInv
    BY DEF IdInit, ProcInv, Doing
  <1>8. TurnInv
    BY <1>2, <1>3 DEF IdInit, TurnInv, Agree
  <1>9. KnownInv /\ PlanInv /\ CertMatches
    BY DEF IdInit, KnownInv, PlanInv, CertMatches
  <1> QED
    BY <1>6, <1>7, <1>8, <1>9 DEF IdInv

\* The types, piece by piece.
LEMMA IdParts ==
  ASSUME IdInv
  PROVE  /\ files \in [{"key", "crt", "tls"} -> File] /\ backup \in [key : File, crt : File]
         /\ todo \in [User -> Seq(Written)] /\ isOpen \in [User -> BOOLEAN]
         /\ doing \in [User -> {"idle", "load", "import", "wizard"}]
         /\ ids \in 0..MaxIds /\ kills \in 0..IdKills /\ known \in Ident \cup {0} /\ attempted \subseteq Ident
         /\ cert \in [key : Ident \cup {0}, crt : Ident \cup {0, Torn}] /\ mixed \in BOOLEAN /\ bare \in BOOLEAN
         /\ \A f \in {"key", "crt", "tls"} : files[f] \in Started \cup {Missing, Torn}
         /\ backup.key \in Started \cup {Missing, Torn} /\ backup.crt \in Started \cup {Missing, Torn}
         /\ Started \subseteq Ident /\ Torn \notin Started /\ Missing \notin Started /\ Missing # Torn
         /\ \A u \in User : Doing(u)
  <1>1. Started \subseteq Ident /\ Torn \notin Started /\ Missing \notin Started /\ Missing # Torn
    <2>1. ids \in Nat /\ ids <= MaxIds /\ MaxIds \in Nat
      BY IdAssumption DEF IdInv, IdTypes, IdTypeOK
    <2>2. Started \subseteq Ident /\ Ident \subseteq 0..MaxIds
      BY <2>1 DEF Started, Ident
    <2>3. Missing \notin 0..MaxIds /\ Torn \notin 0..MaxIds /\ Missing # Torn
      BY IdAssumption
    <2> QED
      BY <2>2, <2>3
  <1> QED
    BY <1>1 DEF IdInv, IdTypes, IdTypeOK, ProcInv, Written

\* A process that is idle has nothing to write.
LEMMA IdleNothing ==
  ASSUME IdInv, NEW u \in User
  PROVE  (doing[u] = "idle") <=> (todo[u] = <<>>)
  <1>1. \/ doing[u] = "idle" /\ todo[u] = <<>>
        \/ /\ doing[u] # "idle"
           /\ \/ \E id : todo[u] = SaveIdentity(id) \/ todo[u] = Repair(id) \/ todo[u] = <<Put("tls", id)>>
              \/ \E a, b : todo[u] = <<Put("key", a), Put("crt", b)>> \/ todo[u] = <<Put("crt", b)>>
    <2>1. Doing(u)
      BY IdParts
    <2> QED
      BY <2>1 DEF Doing
  <1>2. \A a, b : <<a, b>> # <<>> /\ <<a>> # <<>>
    OBVIOUS
  <1>3. \A id : SaveIdentity(id) # <<>> /\ Repair(id) # <<>>
    BY Writes
  <1> QED
    BY <1>1, <1>2, <1>3

\* A step of another process keeps what a process has to do, when it is alone
\* or operations have overlapped.
LEMMA OthersStay ==
  ASSUME IdInv, NEW v \in User, todo'[v] = todo[v], doing'[v] = doing[v], isOpen'[v] = isOpen[v],
         ids' \in ids..MaxIds, mixed => mixed',
         \A f \in {"key", "crt", "tls"} : files[f] # Missing => files'[f] # Missing,
         files' = files \/ mixed' \/ doing[v] = "idle"
  PROVE  Doing(v)'
  <1>1. Doing(v) /\ ids \in 0..MaxIds
    BY IdParts
  <1>2. Started \subseteq Started'
    BY <1>1 DEF Started
  <1>3. \A f \in {"key", "crt", "tls"} : Exists(f) => Exists(f)'
    BY DEF Exists
  <1>4. CASE doing[v] = "idle"
    BY <1>1, <1>4 DEF Doing
  <1>5. CASE doing[v] # "idle" /\ doing[v] # "import"
    <2>1. PICK id \in Started :
             \/ todo[v] = SaveIdentity(id) /\ (~mixed => files["tls"] # id)
             \/ /\ todo[v] = Repair(id) /\ Exists("key")
                /\ ~mixed => files["key"] = id /\ files["tls"] # id
             \/ /\ todo[v] = <<Put("tls", id)>> /\ Exists("key") /\ Exists("crt")
                /\ ~mixed => files["key"] = id /\ files["crt"] = id
      BY <1>1, <1>5 DEF Doing
    <2>2. id \in Started' /\ doing'[v] \in {"load", "wizard"}
      BY <1>1, <1>2, <1>5 DEF Doing
    <2>3. ~mixed' => ~mixed /\ files' = files
      BY <1>5
    <2> QED
      BY <1>3, <2>1, <2>2, <2>3 DEF Doing, SaveIdentity, Repair, Put
  <1>6. CASE doing[v] = "import"
    <2>1. PICK a \in Started \cup {Torn}, b \in Started \cup {Torn} :
             \/ todo[v] = <<Put("key", a), Put("crt", b)>> /\ (~mixed => a = b)
             \/ todo[v] = <<Put("crt", b)>> /\ Exists("key") /\ (~mixed => files["key"] = b)
      BY <1>1, <1>6 DEF Doing
    <2>2. a \in Started' \cup {Torn} /\ b \in Started' \cup {Torn}
      BY <1>2
    <2>3. ~mixed' => ~mixed /\ files' = files
      BY <1>6
    <2> QED
      BY <1>3, <1>6, <2>1, <2>2, <2>3 DEF Doing, Put
  <1> QED
    BY <1>4, <1>5, <1>6

\* A load that finds everything in order keeps the invariant, and returns an
\* identity that is known.
LEMMA LoadKeeps ==
  ASSUME IdInv, NEW u \in User, Load(u)
  PROVE  IdInv' /\ (known' # known /\ known # 0 => bare \/ mixed \/ known' \in attempted)
  <1>1. /\ doing[u] = "idle" /\ files["key"] # Missing /\ files["crt"] # Missing /\ files["tls"] # Missing
        /\ files["key"] # Torn /\ files["tls"] = files["key"]
        /\ known' = files["key"] /\ cert' = [key |-> files["key"], crt |-> files["crt"]]
        /\ mixed' = (mixed \/ \E v \in User \ {u} : doing[v] # "idle")
        /\ files' = files /\ backup' = backup /\ todo' = todo /\ isOpen' = isOpen /\ doing' = doing
        /\ ids' = ids /\ kills' = kills /\ attempted' = attempted /\ bare' = FALSE
    BY DEF Load, AllExist, Exists, Mixes, idDisk, idProcs
  <1>2. ~mixed' => ~mixed /\ \A v \in User : doing[v] = "idle" /\ todo[v] = <<>>
    BY <1>1, IdleNothing
  <1>3. files["key"] \in Started /\ files["crt"] \in Started \cup {Torn} /\ Started \subseteq Ident
    BY <1>1, IdParts
  <1>4. IdTypes'
    <2>1. known' \in Ident \cup {0} /\ cert' \in [key : Ident \cup {0}, crt : Ident \cup {0, Torn}] /\ mixed' \in BOOLEAN
      BY <1>1, <1>3
    <2> QED
      BY <1>1, <2>1 DEF IdInv, IdTypes, IdTypeOK, Started
  <1>5. ASSUME NEW v \in User
        PROVE  Doing(v)'
    <2>1. ids' \in ids..MaxIds
      BY <1>1, IdParts, IdAssumption
    <2> QED
      BY <1>1, <1>2, <2>1, OthersStay
  <1>6. TurnInv'
    BY <1>1, <1>2 DEF IdInv, TurnInv, Agree
  <1>7. KnownInv'
    <2>1. AllExist'
      BY <1>1 DEF AllExist, Exists
    <2>2. ~mixed' => \A v \in User : Len(todo'[v]) = 0
      BY <1>1, <1>2
    <2> QED
      BY <1>1, <2>1, <2>2 DEF KnownInv
  <1>8. CertMatches'
    <2>1. ~mixed' => files["crt"] = files["key"]
      BY <1>1, <1>2 DEF IdInv, TurnInv, Agree
    <2> QED
      BY <1>1, <2>1 DEF CertMatches
  <1>9. known # 0 /\ ~bare /\ ~mixed => known' \in {known} \cup attempted
    BY <1>1 DEF IdInv, KnownInv
  <1>10. PlanInv'
    <2>1. ~mixed' => \A v \in User : Len(todo'[v]) = 0
      BY <1>1, <1>2
    <2> QED
      BY <2>1 DEF PlanInv
  <1> QED
    BY <1>4, <1>5, <1>6, <1>7, <1>8, <1>9, <1>10 DEF IdInv, ProcInv

\* Showing the key keeps the invariant, and the identity it shows is the known
\* one, or asked for, or one of a directory that lacked a file.
LEMMA ShowKeeps ==
  ASSUME IdInv, Show
  PROVE  IdInv' /\ (known' # known /\ known # 0 => bare \/ mixed \/ known' \in attempted)
  <1>1. /\ files["key"] # Missing /\ files["key"] # Torn /\ known' = files["key"] /\ bare' = ~AllExist
        /\ files' = files /\ backup' = backup /\ todo' = todo /\ isOpen' = isOpen /\ doing' = doing
        /\ ids' = ids /\ kills' = kills /\ attempted' = attempted /\ cert' = cert /\ mixed' = mixed
    BY DEF Show, Exists, idDisk, idProcs
  <1>2. files["key"] \in Started /\ Started \subseteq Ident
    BY <1>1, IdParts
  <1>3. IdTypes'
    <2>1. known' \in Ident \cup {0} /\ bare' \in BOOLEAN
      BY <1>1, <1>2
    <2> QED
      BY <1>1, <2>1 DEF IdInv, IdTypes, IdTypeOK, Started
  <1>4. ASSUME NEW v \in User
        PROVE  Doing(v)'
    <2>1. ids' \in ids..MaxIds
      BY <1>1, IdParts, IdAssumption
    <2> QED
      BY <1>1, <2>1, OthersStay
  <1>5. TurnInv' /\ PlanInv' /\ CertMatches'
    BY <1>1 DEF IdInv, TurnInv, Agree, PlanInv, AllExist, Exists, CertMatches
  <1>6. KnownInv'
    <2>1. AllExist' = AllExist
      BY <1>1 DEF AllExist, Exists
    <2>2. ~mixed /\ AllExist => \A u \in User : \A i \in 1..Len(todo[u]) :
                                   todo[u][i].id \in {files["key"], Torn} \cup attempted
      BY <1>1 DEF IdInv, PlanInv
    <2> QED
      BY <1>1, <2>1, <2>2 DEF KnownInv
  <1>7. known # 0 /\ ~bare /\ ~mixed => known' \in {known} \cup attempted
    BY <1>1 DEF IdInv, KnownInv
  <1> QED
    BY <1>3, <1>4, <1>5, <1>6, <1>7 DEF IdInv, ProcInv

\* An operation that begins with writes that fit the directory keeps the
\* invariant.
LEMMA BeginKeeps ==
  ASSUME IdInv, NEW u \in User, NEW what \in {"load", "import", "wizard"}, NEW writes \in Seq(Written),
         BeginId(u, what, writes), ids' \in ids..MaxIds, attempted \subseteq attempted', attempted' \subseteq Ident,
         (doing'[u] = what /\ todo'[u] = writes /\ (~mixed' => ~mixed)) => Doing(u)',
         known # 0 /\ ~bare /\ ~mixed => \A i \in 1..Len(writes) : writes[i].id \in {known, Torn} \cup attempted',
         AllExist /\ files["key"] # Torn /\ ~mixed =>
             \A i \in 1..Len(writes) : writes[i].id \in {files["key"], Torn} \cup attempted'
  PROVE  IdInv' /\ known' = known
  <1>1. /\ doing[u] = "idle" /\ doing' = [doing EXCEPT ![u] = what] /\ todo' = [todo EXCEPT ![u] = writes]
        /\ mixed' = (mixed \/ \E v \in User \ {u} : doing[v] # "idle")
        /\ files' = files /\ backup' = backup /\ isOpen' = isOpen /\ kills' = kills /\ known' = known
        /\ cert' = cert /\ bare' = bare
    BY DEF BeginId, Mixes
  <1>2. /\ doing'[u] = what /\ todo'[u] = writes
        /\ \A v \in User \ {u} : doing'[v] = doing[v] /\ todo'[v] = todo[v]
    BY <1>1, IdParts
  <1>3. ~mixed' => ~mixed /\ \A v \in User : doing[v] = "idle" /\ todo[v] = <<>>
    BY <1>1, IdleNothing
  <1>4. Started \subseteq Started' /\ ids' \in 0..MaxIds
    BY IdParts DEF Started
  <1>5. IdTypes'
    <2>1. /\ doing' \in [User -> {"idle", "load", "import", "wizard"}] /\ todo' \in [User -> Seq(Written)]
      BY <1>1, IdParts
    <2>2. mixed' \in BOOLEAN
      BY <1>1
    <2>3. IdTypeOK'
      BY <1>1, <1>4, <2>1, <2>2 DEF IdInv, IdTypes, IdTypeOK, Written
    <2> QED
      BY <1>1, <1>4, <2>3 DEF IdInv, IdTypes
  <1>6. ASSUME NEW v \in User
        PROVE  Doing(v)'
    <2>1. CASE v = u
      BY <1>2, <1>3, <2>1
    <2>2. CASE v # u
      BY <1>1, <1>2, <1>3, <2>2, OthersStay
    <2> QED
      BY <2>1, <2>2
  <1>7. TurnInv'
    <2>1. SUFFICES ASSUME ~mixed'
                   PROVE  /\ \A x, v \in User : doing'[x] # "idle" /\ doing'[v] # "idle" => x = v
                          /\ backup'.key = backup'.crt
                          /\ Agree'
      BY DEF TurnInv
    <2>2. \A x, v \in User : doing'[x] # "idle" /\ doing'[v] # "idle" => x = v
      BY <1>2, <1>3, <2>1
    <2>3. backup.key = backup.crt /\ Agree
      BY <1>3, <2>1 DEF IdInv, TurnInv
    <2> QED
      BY <1>1, <2>2, <2>3 DEF Agree
  <1>8. KnownInv'
    <2>1. SUFFICES ASSUME known # 0, ~bare
                   PROVE  /\ AllExist'
                          /\ ~mixed' => /\ files'["key"] \in {known, Torn} \cup attempted'
                                        /\ \A v \in User : \A i \in 1..Len(todo'[v]) :
                                              todo'[v][i].id \in {known, Torn} \cup attempted'
      BY <1>1 DEF KnownInv
    <2>2. AllExist'
      BY <1>1, <2>1 DEF IdInv, KnownInv, AllExist, Exists
    <2>3. ~mixed' => files'["key"] \in {known, Torn} \cup attempted'
      BY <1>1, <1>3, <2>1 DEF IdInv, KnownInv
    <2>4. ASSUME ~mixed', NEW v \in User, NEW i \in 1..Len(todo'[v])
          PROVE  todo'[v][i].id \in {known, Torn} \cup attempted'
      <3>1. CASE v = u
        BY <1>2, <1>3, <2>1, <2>4, <3>1
      <3>2. CASE v # u
        <4>1. todo'[v] = <<>>
          BY <1>2, <1>3, <2>4, <3>2
        <4> QED
          BY <2>4, <4>1
      <3> QED
        BY <3>1, <3>2
    <2> QED
      BY <2>2, <2>3, <2>4
  <1>9. CertMatches'
    BY <1>1, <1>3 DEF IdInv, CertMatches
  <1>10. PlanInv'
    <2>1. SUFFICES ASSUME ~mixed', AllExist', files'["key"] # Torn, NEW v \in User, NEW i \in 1..Len(todo'[v])
                   PROVE  todo'[v][i].id \in {files'["key"], Torn} \cup attempted'
      BY DEF PlanInv
    <2>2. AllExist /\ files["key"] # Torn /\ ~mixed
      BY <1>1, <1>3, <2>1 DEF AllExist, Exists
    <2>3. v # u => todo'[v] = <<>>
      BY <1>2, <1>3, <2>1
    <2>4. v = u
      BY <2>1, <2>3
    <2> QED
      BY <1>1, <1>2, <2>1, <2>2, <2>4
  <1> QED
    BY <1>1, <1>5, <1>6, <1>7, <1>8, <1>9, <1>10 DEF IdInv, ProcInv

\* A new identity is one no file holds.
LEMMA FreshIdentity ==
  ASSUME IdInv, ids < MaxIds, ids' = ids + 1
  PROVE  /\ ids' \in ids..MaxIds /\ ids' \in Started' /\ ids' \in Ident
         /\ \A f \in {"key", "crt", "tls"} : files[f] # ids'
  <1>1. ids \in Nat /\ MaxIds \in Nat /\ ids' \in ids..MaxIds /\ ids' \in Ident /\ ids' \in Started'
    BY IdParts, IdAssumption DEF Ident, Started
  <1>2. ids' # Missing /\ ids' # Torn
    BY <1>1, IdAssumption
  <1>3. ids' \notin Started
    BY <1>1 DEF Started
  <1> QED
    BY <1>1, <1>2, <1>3, IdParts

\* A repair begins with the key that is there.
LEMMA RepairKeeps ==
  ASSUME IdInv, NEW u \in User, LoadRepair(u)
  PROVE  IdInv' /\ known' = known
  <1>1. PICK id : id = files["key"]
    OBVIOUS
  <1>2. /\ Exists("key") /\ id # Torn /\ files["tls"] # id /\ files["key"] = id
        /\ BeginId(u, "load", Repair(id)) /\ ids' = ids /\ attempted' = attempted
    BY <1>1 DEF LoadRepair, AllExist
  <1>3. files' = files
    BY <1>2 DEF BeginId
  <1>4. id \in Started /\ id \in Started' /\ id \in Ident
    BY <1>2, IdParts DEF Exists, Started
  <1>5. Repair(id) \in Seq(Written)
    BY <1>4, WritesType
  <1>6. ids' \in ids..MaxIds
    BY <1>2, IdParts, IdAssumption
  <1>7. doing'[u] = "load" /\ todo'[u] = Repair(id) => Doing(u)'
    BY <1>2, <1>3, <1>4 DEF Doing, Exists, Repair, Put
  <1>8. known # 0 /\ ~bare /\ ~mixed => \A i \in 1..Len(Repair(id)) : Repair(id)[i].id \in {known, Torn} \cup attempted'
    <2>1. known # 0 /\ ~bare /\ ~mixed => id \in {known, Torn} \cup attempted
      BY <1>1 DEF IdInv, KnownInv
    <2> QED
      BY <1>2, <2>1, Writes
  <1>9. attempted \subseteq attempted' /\ attempted' \subseteq Ident
    BY <1>2, IdParts
  <1>10. \A i \in 1..Len(Repair(id)) : Repair(id)[i].id \in {files["key"], Torn} \cup attempted'
    BY <1>2, Writes
  <1> QED
    BY <1>2, <1>5, <1>6, <1>7, <1>8, <1>9, <1>10, BeginKeeps

\* A load generates an identity only in a directory that is not known by one.
LEMMA GenerateKeeps ==
  ASSUME IdInv, NEW u \in User, LoadGenerate(u)
  PROVE  IdInv' /\ known' = known
  <1>1. ~AllExist /\ ids < MaxIds /\ ids' = ids + 1 /\ attempted' = attempted
    BY DEF LoadGenerate
  <1>2. PICK id : id = ids'
    OBVIOUS
  <1>3. BeginId(u, "load", SaveIdentity(id)) /\ files' = files
    BY <1>2 DEF LoadGenerate, BeginId
  <1>4. ids' \in ids..MaxIds /\ id \in Started' /\ id \in Ident /\ files["tls"] # id
    BY <1>1, <1>2, FreshIdentity
  <1>5. SaveIdentity(id) \in Seq(Written)
    BY <1>4, WritesType
  <1>6. doing'[u] = "load" /\ todo'[u] = SaveIdentity(id) => Doing(u)'
    BY <1>3, <1>4 DEF Doing, SaveIdentity, Put
  <1>7. ~(known # 0 /\ ~bare)
    BY <1>1 DEF IdInv, KnownInv
  <1>8. attempted \subseteq attempted' /\ attempted' \subseteq Ident
    BY <1>1, IdParts
  <1> QED
    BY <1>1, <1>3, <1>4, <1>5, <1>6, <1>7, <1>8, BeginKeeps

\* The wizard generates an identity in any directory.
LEMMA WizardKeeps ==
  ASSUME IdInv, NEW u \in User, Wizard(u)
  PROVE  IdInv' /\ known' = known
  <1>1. PICK id : id = ids'
    OBVIOUS
  <1>2. ids < MaxIds /\ ids' = ids + 1 /\ attempted' = attempted \cup {id}
    BY <1>1 DEF Wizard
  <1>3. BeginId(u, "wizard", SaveIdentity(id)) /\ files' = files
    BY <1>1 DEF Wizard, BeginId
  <1>4. ids' \in ids..MaxIds /\ id \in Started' /\ id \in Ident /\ files["tls"] # id
    BY <1>1, <1>2, FreshIdentity
  <1>5. SaveIdentity(id) \in Seq(Written)
    BY <1>4, WritesType
  <1>6. doing'[u] = "wizard" /\ todo'[u] = SaveIdentity(id) => Doing(u)'
    BY <1>3, <1>4 DEF Doing, SaveIdentity, Put
  <1>7. \A i \in 1..Len(SaveIdentity(id)) : SaveIdentity(id)[i].id \in {known, Torn} \cup attempted'
    BY <1>2, Writes
  <1>8. attempted \subseteq attempted' /\ attempted' \subseteq Ident
    BY <1>2, <1>4, IdParts
  <1>9. \A i \in 1..Len(SaveIdentity(id)) : SaveIdentity(id)[i].id \in {files["key"], Torn} \cup attempted'
    BY <1>2, Writes
  <1> QED
    BY <1>3, <1>4, <1>5, <1>6, <1>7, <1>8, <1>9, BeginKeeps

\* An import writes what was exported.
LEMMA ImportKeeps ==
  ASSUME IdInv, NEW u \in User, Import(u)
  PROVE  IdInv' /\ known' = known
  <1>1. PICK a, b : a = backup.key /\ b = backup.crt
    OBVIOUS
  <1> DEFINE writes == <<Put("key", a), Put("crt", b)>>
  <1>2. /\ a # Missing /\ b # Missing /\ BeginId(u, "import", writes)
        /\ attempted' = attempted \cup ({a} \ {Torn}) /\ ids' = ids
    BY <1>1 DEF Import
  <1>3. /\ a \in Started \cup {Torn} /\ b \in Started \cup {Torn}
        /\ a \in Ident \cup {Torn} /\ b \in Ident \cup {Torn}
    BY <1>1, <1>2, IdParts
  <1>4. ~mixed => a = b
    BY <1>1 DEF IdInv, TurnInv
  <1>5. writes \in Seq(Written)
    BY <1>3, WritesType
  <1>6. ids' \in ids..MaxIds /\ Started' = Started
    BY <1>2, IdParts, IdAssumption DEF Started
  <1>7. doing'[u] = "import" /\ todo'[u] = writes /\ (~mixed' => ~mixed) => Doing(u)'
    BY <1>3, <1>4, <1>6 DEF Doing, Put
  <1>8. ~mixed => \A i \in 1..Len(writes) : writes[i].id \in {Torn} \cup attempted'
    <2>1. a \in {Torn} \cup attempted'
      BY <1>2
    <2>2. Len(writes) = 2 /\ writes[1].id = a /\ writes[2].id = b
      BY DEF Put
    <2> QED
      BY <1>4, <2>1, <2>2
  <1>9. attempted \subseteq attempted' /\ attempted' \subseteq Ident
    BY <1>2, <1>3, IdParts
  <1> HIDE DEF writes
  <1> QED
    BY <1>2, <1>5, <1>6, <1>7, <1>8, <1>9, BeginKeeps

\* An export of two files that disagree is the end of the promises.
LEMMA ExportKeeps ==
  ASSUME IdInv, NEW u \in User, Export(u)
  PROVE  IdInv' /\ known' = known
  <1>1. /\ files["key"] # Missing /\ files["crt"] # Missing
        /\ backup' = [key |-> files["key"], crt |-> files["crt"]]
        /\ mixed' = (mixed \/ files["key"] # files["crt"] \/ \E v \in User \ {u} : doing[v] # "idle")
        /\ files' = files /\ todo' = todo /\ isOpen' = isOpen /\ doing' = doing
        /\ ids' = ids /\ kills' = kills /\ known' = known /\ attempted' = attempted /\ cert' = cert /\ bare' = bare
    BY DEF Export, Exists, idProcs
  <1>2. ~mixed' => ~mixed /\ files["key"] = files["crt"]
    BY <1>1
  <1>3. backup' \in [key : File, crt : File] /\ backup'.key = files["key"] /\ backup'.crt = files["crt"] /\ mixed' \in BOOLEAN
    BY <1>1, IdParts
  <1>4. IdTypes'
    <2>1. IdTypeOK'
      BY <1>1, <1>3 DEF IdInv, IdTypes, IdTypeOK
    <2> QED
      BY <1>1, <1>3, <2>1 DEF IdInv, IdTypes, Started
  <1>5. ASSUME NEW v \in User
        PROVE  Doing(v)'
    <2>1. ids' \in ids..MaxIds
      BY <1>1, IdParts, IdAssumption
    <2> QED
      BY <1>1, <1>2, <2>1, OthersStay
  <1>6. TurnInv'
    BY <1>1, <1>2, <1>3 DEF IdInv, TurnInv, Agree
  <1>7. KnownInv' /\ PlanInv' /\ CertMatches'
    BY <1>1, <1>2 DEF IdInv, KnownInv, PlanInv, CertMatches, AllExist, Exists
  <1> QED
    BY <1>1, <1>4, <1>5, <1>6, <1>7 DEF IdInv, ProcInv

\* What a process that is not idle writes next, and what there is left then.
LEMMA Shapes ==
  ASSUME IdInv, NEW u \in User, todo[u] # <<>>
  PROVE  /\ doing[u] # "idle"
         /\ \/ \E id \in Started :
                  /\ todo[u] = SaveIdentity(id) /\ doing[u] # "import" /\ (~mixed => files["tls"] # id)
                  /\ Head(todo[u]) = Put("key", id) /\ Tail(todo[u]) = Repair(id) /\ Len(todo[u]) = 3
            \/ \E id \in Started :
                  /\ todo[u] = Repair(id) /\ doing[u] # "import" /\ Exists("key")
                  /\ ~mixed => files["key"] = id /\ files["tls"] # id
                  /\ Head(todo[u]) = Put("crt", id) /\ Tail(todo[u]) = <<Put("tls", id)>> /\ Len(todo[u]) = 2
            \/ \E id \in Started :
                  /\ todo[u] = <<Put("tls", id)>> /\ doing[u] # "import" /\ Exists("key") /\ Exists("crt")
                  /\ ~mixed => files["key"] = id /\ files["crt"] = id
                  /\ Head(todo[u]) = Put("tls", id) /\ Tail(todo[u]) = <<>> /\ Len(todo[u]) = 1
            \/ \E a, b \in Started \cup {Torn} :
                  /\ todo[u] = <<Put("key", a), Put("crt", b)>> /\ doing[u] = "import" /\ (~mixed => a = b)
                  /\ Head(todo[u]) = Put("key", a) /\ Tail(todo[u]) = <<Put("crt", b)>> /\ Len(todo[u]) = 2
            \/ \E b \in Started \cup {Torn} :
                  /\ todo[u] = <<Put("crt", b)>> /\ doing[u] = "import" /\ Exists("key") /\ (~mixed => files["key"] = b)
                  /\ Head(todo[u]) = Put("crt", b) /\ Tail(todo[u]) = <<>> /\ Len(todo[u]) = 1
  <1>1. Doing(u) /\ doing[u] # "idle"
    BY IdParts, IdleNothing
  <1>2. CASE doing[u] \in {"load", "wizard"}
    <2>1. PICK id \in Started :
             \/ todo[u] = SaveIdentity(id) /\ (~mixed => files["tls"] # id)
             \/ /\ todo[u] = Repair(id) /\ Exists("key")
                /\ ~mixed => files["key"] = id /\ files["tls"] # id
             \/ /\ todo[u] = <<Put("tls", id)>> /\ Exists("key") /\ Exists("crt")
                /\ ~mixed => files["key"] = id /\ files["crt"] = id
      BY <1>1, <1>2 DEF Doing
    <2>2. CASE todo[u] = SaveIdentity(id) /\ (~mixed => files["tls"] # id)
      BY <1>2, <2>2, Writes
    <2>3. CASE todo[u] = Repair(id) /\ Exists("key") /\ (~mixed => files["key"] = id /\ files["tls"] # id)
      BY <1>2, <2>3, Writes
    <2>4. CASE /\ todo[u] = <<Put("tls", id)>> /\ Exists("key") /\ Exists("crt")
               /\ ~mixed => files["key"] = id /\ files["crt"] = id
      BY <1>2, <2>4, Writes
    <2> QED
      BY <2>1, <2>2, <2>3, <2>4
  <1>3. CASE doing[u] = "import"
    <2>1. PICK a \in Started \cup {Torn}, b \in Started \cup {Torn} :
             \/ todo[u] = <<Put("key", a), Put("crt", b)>> /\ (~mixed => a = b)
             \/ todo[u] = <<Put("crt", b)>> /\ Exists("key") /\ (~mixed => files["key"] = b)
      BY <1>1, <1>3 DEF Doing
    <2>2. CASE todo[u] = <<Put("key", a), Put("crt", b)>> /\ (~mixed => a = b)
      BY <1>3, <2>2, Writes
    <2>3. CASE todo[u] = <<Put("crt", b)>> /\ Exists("key") /\ (~mixed => files["key"] = b)
      BY <1>3, <2>3, Writes
    <2> QED
      BY <2>1, <2>2, <2>3
  <1> QED
    BY <1>1, <1>2, <1>3 DEF Doing

\* Operations that take turns: the one at work writes one identity, the key's
\* unless the key comes first.
LEMMA OneIdentity ==
  ASSUME IdInv, NEW u \in User, todo[u] # <<>>, ~mixed
  PROVE  /\ \A i \in 1..Len(todo[u]) : todo[u][i].id = Head(todo[u]).id
         /\ Head(todo[u]).file # "key" => Head(todo[u]).id = files["key"]
         /\ \A v \in User \ {u} : todo[v] = <<>>
  <1> DEFINE One == /\ \A i \in 1..Len(todo[u]) : todo[u][i].id = Head(todo[u]).id
                    /\ Head(todo[u]).file # "key" => Head(todo[u]).id = files["key"]
  <1>1. One
    <2>1. ASSUME NEW id \in Started, todo[u] = SaveIdentity(id), Head(todo[u]) = Put("key", id), Len(todo[u]) = 3
          PROVE  One
      BY <2>1, Writes
    <2>2. ASSUME NEW id \in Started, todo[u] = Repair(id), Head(todo[u]) = Put("crt", id), Len(todo[u]) = 2,
                 files["key"] = id
          PROVE  One
      BY <2>2, Writes
    <2>3. ASSUME NEW id \in Started, todo[u] = <<Put("tls", id)>>, Head(todo[u]) = Put("tls", id), files["key"] = id
          PROVE  One
      BY <2>3, Writes
    <2>4. ASSUME NEW a \in Started \cup {Torn}, todo[u] = <<Put("key", a), Put("crt", a)>>,
                 Head(todo[u]) = Put("key", a)
          PROVE  One
      BY <2>4, Writes DEF Put
    <2>5. ASSUME NEW b \in Started \cup {Torn}, todo[u] = <<Put("crt", b)>>, Head(todo[u]) = Put("crt", b),
                 files["key"] = b
          PROVE  One
      BY <2>5, Writes
    <2> QED
      BY <2>1, <2>2, <2>3, <2>4, <2>5, Shapes
  <1>2. ASSUME NEW v \in User \ {u}
        PROVE  todo[v] = <<>>
    BY IdleNothing DEF IdInv, TurnInv
  <1> QED
    BY <1>1, <1>2

\* Truncating a file keeps the invariant.
LEMMA OpenKeeps ==
  ASSUME IdInv, NEW u \in User, OpenFile(u)
  PROVE  IdInv' /\ known' = known
  <1> DEFINE f == Head(todo[u]).file
  <1>1. /\ todo[u] # <<>> /\ isOpen' = [isOpen EXCEPT ![u] = TRUE] /\ files' = [files EXCEPT ![f] = Torn]
        /\ backup' = backup /\ todo' = todo /\ doing' = doing /\ ids' = ids /\ kills' = kills
        /\ known' = known /\ attempted' = attempted /\ cert' = cert /\ mixed' = mixed /\ bare' = bare
    BY DEF OpenFile, idHist
  <1>2. f \in {"key", "crt", "tls"}
    BY <1>1, Shapes, Writes
  <1> HIDE DEF f
  <1>3. /\ files' \in [{"key", "crt", "tls"} -> File] /\ files'[f] = Torn
        /\ \A g \in {"key", "crt", "tls"} \ {f} : files'[g] = files[g]
    BY <1>1, <1>2, IdParts DEF File
  <1>4. IdTypes'
    <2>1. isOpen' \in [User -> BOOLEAN]
      BY <1>1, IdParts
    <2>2. IdTypeOK'
      BY <1>1, <1>3, <2>1 DEF IdInv, IdTypes, IdTypeOK
    <2> QED
      BY <1>1, <1>2, <1>3, <2>2 DEF IdInv, IdTypes, Started
  <1>5. /\ Started' = Started /\ (\A g \in {"key", "crt", "tls"} : Exists(g) => Exists(g)')
        /\ ids' \in ids..MaxIds
    BY <1>1, <1>2, <1>3, IdParts, IdAssumption DEF Started, Exists
  <1>6. ASSUME NEW v \in User, v # u
        PROVE  Doing(v)'
    <2>1. mixed \/ doing[v] = "idle"
      BY <1>1, <1>6, Shapes DEF IdInv, TurnInv
    <2>2. isOpen'[v] = isOpen[v]
      BY <1>1, <1>6, IdParts
    <2> QED
      BY <1>1, <1>5, <2>1, <2>2, OthersStay DEF Exists
  <1>7. Doing(u)' /\ (~mixed /\ doing[u] # "import" => Agree')
    <2>0. doing[u] \in {"load", "wizard", "import"} /\ Torn \notin Started
      BY <1>1, Shapes, IdParts
    <2>1. ASSUME NEW id \in Started, todo[u] = SaveIdentity(id), doing[u] # "import", ~mixed => files["tls"] # id,
                 Head(todo[u]) = Put("key", id)
          PROVE  Doing(u)' /\ Agree'
      <3>1. f = "key"
        BY <2>1, Writes DEF f
      <3> QED
        BY <1>1, <1>3, <1>5, <2>0, <2>1, <3>1 DEF Doing, SaveIdentity, Put, Agree
    <2>2. ASSUME NEW id \in Started, todo[u] = Repair(id), doing[u] # "import", Exists("key"),
                 ~mixed => files["key"] = id /\ files["tls"] # id, Head(todo[u]) = Put("crt", id)
          PROVE  Doing(u)' /\ (~mixed => Agree')
      <3>1. f = "crt"
        BY <2>2, Writes DEF f
      <3> QED
        BY <1>1, <1>3, <1>5, <2>0, <2>2, <3>1 DEF Doing, Repair, Put, Agree
    <2>3. ASSUME NEW id \in Started, todo[u] = <<Put("tls", id)>>, doing[u] # "import", Exists("key"), Exists("crt"),
                 ~mixed => files["key"] = id /\ files["crt"] = id, Head(todo[u]) = Put("tls", id)
          PROVE  Doing(u)' /\ (~mixed => Agree')
      <3>1. f = "tls"
        BY <2>3, Writes DEF f
      <3> QED
        BY <1>1, <1>3, <1>5, <2>0, <2>3, <3>1 DEF Doing, Put, Agree
    <2>4. ASSUME NEW a \in Started \cup {Torn}, NEW b \in Started \cup {Torn}, doing[u] = "import",
                 todo[u] = <<Put("key", a), Put("crt", b)>>, ~mixed => a = b
          PROVE  Doing(u)'
      BY <1>1, <1>5, <2>4 DEF Doing, Put
    <2>5. ASSUME NEW b \in Started \cup {Torn}, doing[u] = "import", todo[u] = <<Put("crt", b)>>, Exists("key"),
                 ~mixed => files["key"] = b, Head(todo[u]) = Put("crt", b)
          PROVE  Doing(u)'
      <3>1. f = "crt"
        BY <2>5, Writes DEF f
      <3> QED
        BY <1>1, <1>3, <1>5, <2>5, <3>1 DEF Doing, Put
    <2> QED
      BY <1>1, <2>1, <2>2, <2>3, <2>4, <2>5, Shapes
  <1>8. TurnInv'
    <2>1. SUFFICES ASSUME ~mixed
                   PROVE  /\ \A x, v \in User : doing'[x] # "idle" /\ doing'[v] # "idle" => x = v
                          /\ backup'.key = backup'.crt
                          /\ (\A v \in User : doing'[v] # "import") => Agree'
      BY <1>1 DEF TurnInv
    <2> QED
      BY <1>1, <1>7, <2>1 DEF IdInv, TurnInv
  <1>9. KnownInv' /\ CertMatches'
    <2>1. AllExist => AllExist'
      BY <1>5 DEF AllExist
    <2>2. files'["key"] \in {files["key"], Torn}
      BY <1>2, <1>3
    <2> QED
      BY <1>1, <2>1, <2>2 DEF IdInv, KnownInv, CertMatches
  <1>10. PlanInv'
    <2>1. SUFFICES ASSUME ~mixed, files'["key"] # Torn, NEW v \in User, NEW i \in 1..Len(todo'[v])
                   PROVE  todo'[v][i].id = files'["key"]
      BY <1>1 DEF PlanInv
    <2>2. v # u => Len(todo'[v]) = 0
      BY <1>1, <2>1, OneIdentity
    <2>3. v = u /\ f # "key"
      BY <1>3, <2>1, <2>2
    <2>4. todo[u][i].id = files["key"]
      BY <1>1, <2>1, <2>3, OneIdentity DEF f
    <2> QED
      BY <1>1, <1>3, <2>3, <2>4
  <1> QED
    BY <1>1, <1>4, <1>6, <1>7, <1>8, <1>9, <1>10 DEF IdInv, ProcInv

\* An operation that is killed keeps the invariant.
LEMMA KillKeeps ==
  ASSUME IdInv, NEW u \in User, KillUser(u)
  PROVE  IdInv' /\ known' = known
  <1>1. /\ doing[u] # "idle" /\ kills < IdKills /\ kills' = kills + 1
        /\ doing' = [doing EXCEPT ![u] = "idle"] /\ todo' = [todo EXCEPT ![u] = <<>>] /\ isOpen' = [isOpen EXCEPT ![u] = FALSE]
        /\ mixed' = (mixed \/ (doing[u] = "import" /\ files["tls"] = files["key"] /\ files["crt"] # files["key"]))
        /\ files' = files /\ backup' = backup /\ ids' = ids /\ known' = known /\ attempted' = attempted
        /\ cert' = cert /\ bare' = bare
    BY DEF KillUser, idDisk
  <1>2. /\ doing'[u] = "idle" /\ todo'[u] = <<>> /\ isOpen'[u] = FALSE
        /\ \A v \in User \ {u} : doing'[v] = doing[v] /\ todo'[v] = todo[v] /\ isOpen'[v] = isOpen[v]
    BY <1>1, IdParts
  <1>3. ~mixed' => ~mixed /\ (doing[u] = "import" /\ files["tls"] = files["key"] => files["crt"] = files["key"])
    BY <1>1
  <1>4. IdTypes'
    <2>1. kills' \in 0..IdKills
      BY <1>1, IdParts, IdAssumption
    <2>2. doing' \in [User -> {"idle", "load", "import", "wizard"}] /\ isOpen' \in [User -> BOOLEAN]
          /\ todo' \in [User -> Seq(Written)]
      BY <1>1, IdParts, WritesType
    <2>3. mixed' \in BOOLEAN
      BY <1>1
    <2>4. IdTypeOK'
      BY <1>1, <2>1, <2>2, <2>3 DEF IdInv, IdTypes, IdTypeOK, Written
    <2> QED
      BY <1>1, <2>4 DEF IdInv, IdTypes, Started
  <1>5. ASSUME NEW v \in User
        PROVE  Doing(v)'
    <2>1. CASE v = u
      BY <1>2, <2>1 DEF Doing
    <2>2. CASE v # u
      <3>1. ids' \in ids..MaxIds
        BY <1>1, IdParts, IdAssumption
      <3> QED
        BY <1>1, <1>2, <1>3, <2>2, <3>1, OthersStay
    <2> QED
      BY <2>1, <2>2
  <1>6. TurnInv'
    <2>1. SUFFICES ASSUME ~mixed'
                   PROVE  /\ \A x, v \in User : doing'[x] # "idle" /\ doing'[v] # "idle" => x = v
                          /\ backup'.key = backup'.crt
                          /\ Agree'
      BY DEF TurnInv
    <2>2. /\ \A x, v \in User : doing[x] # "idle" /\ doing[v] # "idle" => x = v
          /\ backup.key = backup.crt
          /\ (\A v \in User : doing[v] # "import") => Agree
      BY <1>3, <2>1 DEF IdInv, TurnInv
    <2>3. CASE doing[u] = "import"
      BY <1>1, <1>2, <1>3, <2>1, <2>2, <2>3 DEF Agree
    <2>4. CASE doing[u] # "import"
      <3>1. \A v \in User : doing[v] # "import"
        BY <1>1, <2>2, <2>4
      <3> QED
        BY <1>1, <1>2, <2>2, <3>1 DEF Agree
    <2> QED
      BY <2>3, <2>4
  <1>7. KnownInv' /\ PlanInv' /\ CertMatches'
    <2>1. \A v \in User : \A i \in 1..Len(todo'[v]) : i \in 1..Len(todo[v]) /\ todo'[v][i] = todo[v][i]
      BY <1>2
    <2> QED
      BY <1>1, <1>3, <2>1 DEF IdInv, KnownInv, PlanInv, CertMatches, AllExist, Exists
  <1> QED
    BY <1>1, <1>4, <1>5, <1>6, <1>7 DEF IdInv, ProcInv

\* What the directory is known by and what is to be written, for one process.
KnownOf(u) ==
    known # 0 /\ ~bare =>
        /\ AllExist
        /\ ~mixed => /\ files["key"] \in {known, Torn} \cup attempted
                     /\ \A i \in 1..Len(todo[u]) : todo[u][i].id \in {known, Torn} \cup attempted

\* Writing a file keeps the invariant, and the identity that is shown after the
\* last one is known.
LEMMA WriteKeeps ==
  ASSUME IdInv, NEW u \in User, WriteFile(u)
  PROVE  IdInv' /\ (known' # known /\ known # 0 => bare \/ mixed \/ known' \in attempted)
  <1> DEFINE f == Head(todo[u]).file
             id == Head(todo[u]).id
             last == Len(todo[u]) = 1
  <1>1. /\ todo[u] # <<>> /\ isOpen' = [isOpen EXCEPT ![u] = FALSE] /\ files' = [files EXCEPT ![f] = id]
        /\ todo' = [todo EXCEPT ![u] = Tail(todo[u])] /\ doing' = [doing EXCEPT ![u] = IF last THEN "idle" ELSE doing[u]]
        /\ known' = (IF last /\ id # Torn THEN id ELSE known)
        /\ cert' = (IF last /\ doing[u] # "import" THEN [key |-> id, crt |-> id] ELSE cert)
        /\ bare' = (IF last /\ id # Torn THEN ~AllExist ELSE bare)
        /\ backup' = backup /\ ids' = ids /\ kills' = kills /\ attempted' = attempted /\ mixed' = mixed
    BY DEF WriteFile
  <1>2. f \in {"key", "crt", "tls"} /\ id \in Started \cup {Torn} /\ (doing[u] # "import" => id \in Started)
    BY <1>1, Shapes, Writes
  <1> HIDE DEF f, id, last
  <1>3. /\ files' \in [{"key", "crt", "tls"} -> File] /\ files'[f] = id
        /\ \A g \in {"key", "crt", "tls"} \ {f} : files'[g] = files[g]
    BY <1>1, <1>2, IdParts DEF File
  <1>4. /\ doing'[u] = (IF last THEN "idle" ELSE doing[u]) /\ todo'[u] = Tail(todo[u]) /\ isOpen'[u] = FALSE
        /\ \A v \in User \ {u} : doing'[v] = doing[v] /\ todo'[v] = todo[v] /\ isOpen'[v] = isOpen[v]
    BY <1>1, IdParts
  <1>5. /\ Started' = Started /\ (\A g \in {"key", "crt", "tls"} : Exists(g) => Exists(g)')
        /\ ids' \in ids..MaxIds /\ id # Missing /\ Torn \notin Started /\ Missing \notin Started
    BY <1>1, <1>2, <1>3, IdParts, IdAssumption DEF Started, Exists
  <1>6. \A v \in User : v # u => mixed \/ (doing[v] = "idle" /\ todo[v] = <<>>)
    BY <1>1, Shapes, IdleNothing DEF IdInv, TurnInv
  <1>7. IdTypes'
    <2>1. Tail(todo[u]) \in Seq(Written)
      <3>1. todo[u] \in Seq(Written)
        BY IdParts
      <3> QED
        BY <1>1, <3>1
    <2>2. todo' \in [User -> Seq(Written)]
      BY <1>1, <2>1, IdParts
    <2>3. doing' \in [User -> {"idle", "load", "import", "wizard"}] /\ isOpen' \in [User -> BOOLEAN]
      BY <1>1, IdParts
    <2>4. known' \in Ident \cup {0} /\ bare' \in BOOLEAN
      BY <1>1, <1>2, IdParts
    <2>5. cert' \in [key : Ident \cup {0}, crt : Ident \cup {0, Torn}]
      BY <1>1, <1>2, IdParts
    <2>6. IdTypeOK'
      BY <1>1, <1>3, <2>2, <2>3, <2>4, <2>5 DEF IdInv, IdTypes, IdTypeOK, Written
    <2> QED
      BY <1>1, <1>2, <1>3, <1>5, <2>6 DEF IdInv, IdTypes
  <1>8. ASSUME NEW v \in User, v # u
        PROVE  Doing(v)'
    BY <1>1, <1>4, <1>5, <1>6, <1>8, OthersStay DEF Exists
  <1>9. known # 0 /\ ~bare /\ ~mixed =>
          \A i \in 1..Len(todo[u]) : todo[u][i].id \in {known, Torn} \cup attempted
    BY DEF IdInv, KnownInv
  <1>10. known # 0 /\ ~bare => AllExist /\ (~mixed => files["key"] \in {known, Torn} \cup attempted)
    BY DEF IdInv, KnownInv
  <1>11. /\ Doing(u)' /\ (~mixed /\ doing'[u] # "import" => Agree') /\ KnownOf(u)'
    <2>0. doing[u] \in {"load", "wizard", "import"}
      BY <1>1, Shapes, IdParts
    <2>1. ASSUME NEW x \in Started, todo[u] = SaveIdentity(x), doing[u] # "import", ~mixed => files["tls"] # x,
                 Head(todo[u]) = Put("key", x), Tail(todo[u]) = Repair(x), Len(todo[u]) = 3
          PROVE  Doing(u)' /\ (~mixed => Agree') /\ KnownOf(u)'
      <3>1. f = "key" /\ id = x /\ ~last
        BY <2>1, Writes DEF f, id, last
      <3>2. doing'[u] = doing[u] /\ todo'[u] = Repair(x) /\ known' = known /\ bare' = bare
        BY <1>1, <1>4, <2>1, <3>1
      <3>3. files'["key"] = x /\ files'["tls"] = files["tls"] /\ Exists("key")'
        BY <1>3, <1>5, <3>1 DEF Exists
      <3>4. Doing(u)' /\ (~mixed => Agree')
        BY <1>1, <1>5, <2>0, <2>1, <3>2, <3>3 DEF Doing, Repair, Put, Agree
      <3>5. known # 0 /\ ~bare /\ ~mixed => x \in {known, Torn} \cup attempted
        BY <1>9, <2>1, Writes
      <3>6. KnownOf(u)'
        <4>1. AllExist => AllExist'
          BY <1>5 DEF AllExist
        <4>2. \A i \in 1..Len(todo'[u]) : todo'[u][i].id = x
          <5>1. Len(Repair(x)) = 2 /\ \A i \in 1..2 : Repair(x)[i].id = x
            BY Writes
          <5> QED
            BY <3>2, <5>1
        <4>3. mixed' = mixed /\ attempted' = attempted
          BY <1>1
        <4> QED
          BY <1>10, <3>2, <3>3, <3>5, <4>1, <4>2, <4>3 DEF KnownOf
      <3> QED
        BY <3>4, <3>6
    <2>2. ASSUME NEW x \in Started, todo[u] = Repair(x), doing[u] # "import", Exists("key"),
                 ~mixed => files["key"] = x /\ files["tls"] # x, Head(todo[u]) = Put("crt", x),
                 Tail(todo[u]) = <<Put("tls", x)>>, Len(todo[u]) = 2
          PROVE  Doing(u)' /\ (~mixed => Agree') /\ KnownOf(u)'
      <3>1. f = "crt" /\ id = x /\ ~last
        BY <2>2, Writes DEF f, id, last
      <3>2. doing'[u] = doing[u] /\ todo'[u] = <<Put("tls", x)>> /\ known' = known /\ bare' = bare
        BY <1>1, <1>4, <2>2, <3>1
      <3>3. files'["crt"] = x /\ files'["key"] = files["key"] /\ Exists("key")' /\ Exists("crt")'
        BY <1>3, <1>5, <2>2, <3>1 DEF Exists
      <3>4. Doing(u)' /\ (~mixed => Agree')
        BY <1>1, <1>5, <2>0, <2>2, <3>2, <3>3 DEF Doing, Put, Agree
      <3>5. known # 0 /\ ~bare /\ ~mixed => x \in {known, Torn} \cup attempted
        BY <1>9, <2>2, Writes
      <3>6. \A i \in 1..Len(todo'[u]) : todo'[u][i].id = x
        BY <3>2 DEF Put
      <3>7. KnownOf(u)'
        <4>1. AllExist => AllExist'
          BY <1>5 DEF AllExist
        <4>2. known # 0 /\ ~bare /\ ~mixed => \A i \in 1..Len(todo'[u]) : todo'[u][i].id \in {known, Torn} \cup attempted
          BY <3>5, <3>6
        <4>3. known # 0 /\ ~bare => AllExist' /\ (~mixed => files'["key"] \in {known, Torn} \cup attempted)
          BY <1>10, <3>3, <4>1
        <4>4. known' = known /\ bare' = bare /\ mixed' = mixed /\ attempted' = attempted
          BY <1>1, <3>2
        <4> QED
          BY <4>2, <4>3, <4>4 DEF KnownOf
      <3> QED
        BY <3>4, <3>7
    <2>3. ASSUME NEW x \in Started, todo[u] = <<Put("tls", x)>>, doing[u] # "import", Exists("key"), Exists("crt"),
                 ~mixed => files["key"] = x /\ files["crt"] = x, Head(todo[u]) = Put("tls", x),
                 Tail(todo[u]) = <<>>, Len(todo[u]) = 1
          PROVE  Doing(u)' /\ (~mixed => Agree') /\ KnownOf(u)'
      <3>1. f = "tls" /\ id = x /\ last
        BY <2>3, Writes DEF f, id, last
      <3>2. doing'[u] = "idle" /\ todo'[u] = <<>> /\ known' = x
        BY <1>1, <1>4, <1>5, <2>3, <3>1
      <3>3. files'["key"] = files["key"] /\ files'["crt"] = files["crt"] /\ AllExist'
        BY <1>3, <1>5, <2>3, <3>1 DEF AllExist, Exists
      <3>4. Doing(u)' /\ (~mixed => Agree')
        BY <1>4, <2>3, <3>2, <3>3 DEF Doing, Agree
      <3>5. Len(todo'[u]) = 0
        BY <3>2
      <3> QED
        BY <1>1, <2>3, <3>2, <3>3, <3>4, <3>5 DEF KnownOf
    <2>4. ASSUME NEW a \in Started \cup {Torn}, NEW b \in Started \cup {Torn}, doing[u] = "import",
                 todo[u] = <<Put("key", a), Put("crt", b)>>, ~mixed => a = b, Head(todo[u]) = Put("key", a),
                 Tail(todo[u]) = <<Put("crt", b)>>, Len(todo[u]) = 2
          PROVE  Doing(u)' /\ doing'[u] = "import" /\ KnownOf(u)'
      <3>1. f = "key" /\ id = a /\ ~last
        BY <2>4, Writes DEF f, id, last
      <3>2. doing'[u] = "import" /\ todo'[u] = <<Put("crt", b)>> /\ known' = known /\ bare' = bare
        BY <1>1, <1>4, <2>4, <3>1
      <3>3. files'["key"] = a /\ Exists("key")'
        BY <1>3, <1>5, <3>1 DEF Exists
      <3>4. Doing(u)'
        BY <1>1, <1>5, <2>4, <3>2, <3>3 DEF Doing, Put
      <3>5. known # 0 /\ ~bare /\ ~mixed => a \in {known, Torn} \cup attempted
        <4>1. 1 \in 1..Len(todo[u]) /\ todo[u][1].id = a
          BY <2>4 DEF Put
        <4> QED
          BY <1>9, <4>1
      <3>6. \A i \in 1..Len(todo'[u]) : todo'[u][i].id = b
        BY <3>2 DEF Put
      <3>7. KnownOf(u)'
        BY <1>1, <1>5, <1>10, <2>4, <3>2, <3>3, <3>5, <3>6 DEF KnownOf, AllExist
      <3> QED
        BY <3>2, <3>4, <3>7
    <2>5. ASSUME NEW b \in Started \cup {Torn}, doing[u] = "import", todo[u] = <<Put("crt", b)>>, Exists("key"),
                 ~mixed => files["key"] = b, Head(todo[u]) = Put("crt", b), Tail(todo[u]) = <<>>, Len(todo[u]) = 1
          PROVE  Doing(u)' /\ (~mixed => Agree') /\ KnownOf(u)'
      <3>1. f = "crt" /\ id = b /\ last
        BY <2>5, Writes DEF f, id, last
      <3>2. doing'[u] = "idle" /\ todo'[u] = <<>> /\ known' = (IF b # Torn THEN b ELSE known)
            /\ bare' = (IF b # Torn THEN ~AllExist ELSE bare)
        BY <1>1, <1>4, <2>5, <3>1
      <3>3. files'["key"] = files["key"] /\ files'["crt"] = b /\ Exists("key")' /\ Exists("crt")'
        BY <1>3, <1>5, <2>5, <3>1 DEF Exists
      <3>4. Doing(u)' /\ (~mixed => Agree')
        BY <1>4, <2>5, <3>2, <3>3 DEF Doing, Agree
      <3>5. Len(todo'[u]) = 0
        BY <3>2
      <3>6. AllExist => AllExist'
        BY <1>5 DEF AllExist
      <3>7. KnownOf(u)'
        <4>1. CASE b = Torn
          BY <1>1, <1>10, <3>2, <3>3, <3>5, <3>6, <4>1 DEF KnownOf
        <4>2. CASE b # Torn
          <5>1. known' = b /\ (~bare' => AllExist') /\ mixed' = mixed
            BY <1>1, <3>2, <3>6, <4>2
          <5>2. ~mixed => files'["key"] = b
            BY <2>5, <3>3
          <5> QED
            BY <3>5, <5>1, <5>2 DEF KnownOf
        <4> QED
          BY <4>1, <4>2
      <3> QED
        BY <3>4, <3>7
    <2> QED
      BY <1>1, <2>1, <2>2, <2>3, <2>4, <2>5, Shapes
  <1>12. TurnInv'
    <2>1. SUFFICES ASSUME ~mixed
                   PROVE  /\ \A x, v \in User : doing'[x] # "idle" /\ doing'[v] # "idle" => x = v
                          /\ backup'.key = backup'.crt
                          /\ (\A v \in User : doing'[v] # "import") => Agree'
      BY <1>1 DEF TurnInv
    <2>2. \A x, v \in User : doing'[x] # "idle" /\ doing'[v] # "idle" => x = v
      BY <1>4, <1>6, <2>1
    <2> QED
      BY <1>1, <1>11, <2>1, <2>2 DEF IdInv, TurnInv
  <1>13. KnownInv'
    <2>1. \A v \in User : v # u /\ ~mixed => Len(todo'[v]) = 0
      BY <1>4, <1>6
    <2>2. ASSUME ~mixed', known' # 0, ~bare', NEW v \in User, NEW i \in 1..Len(todo'[v])
          PROVE  todo'[v][i].id \in {known', Torn} \cup attempted'
      <3>1. v = u
        BY <1>1, <2>1, <2>2
      <3> QED
        BY <1>11, <2>2, <3>1 DEF KnownOf
    <2> QED
      BY <1>11, <2>2 DEF KnownOf, KnownInv
  <1>14. CertMatches'
    BY <1>1 DEF IdInv, CertMatches
  <1>15. known' # known /\ known # 0 => bare \/ mixed \/ known' \in attempted
    <2>1. SUFFICES ASSUME known' # known, known # 0, ~bare, ~mixed
                   PROVE  known' \in attempted
      OBVIOUS
    <2>2. known' = id /\ id # Torn
      BY <1>1, <2>1
    <2>3. todo[u] \in Seq(Written)
      BY IdParts
    <2>4. 1 \in 1..Len(todo[u]) /\ todo[u][1] = Head(todo[u])
      BY <1>1, <2>3
    <2> QED
      BY <1>9, <2>1, <2>2, <2>4 DEF id
  <1>16. PlanInv'
    <2>1. SUFFICES ASSUME ~mixed, NEW v \in User, NEW i \in 1..Len(todo'[v])
                   PROVE  todo'[v][i].id = files'["key"]
      BY <1>1 DEF PlanInv
    <2>2. v # u => Len(todo'[v]) = 0
      BY <1>1, <1>4, <2>1, OneIdentity
    <2>3. v = u
      BY <2>1, <2>2
    <2>4. files'["key"] = id
      BY <1>1, <1>2, <1>3, <2>1, OneIdentity DEF f, id
    <2>5. todo[u] \in Seq(Written) /\ todo'[u] = Tail(todo[u])
      BY <1>4, IdParts
    <2>6. i + 1 \in 1..Len(todo[u]) /\ todo'[u][i] = todo[u][i + 1]
      <3>1. \A s \in Seq(Written) : s # <<>> =>
              \A j \in 1..Len(Tail(s)) : j + 1 \in 1..Len(s) /\ Tail(s)[j] = s[j + 1]
        <4> HIDE DEF Written
        <4> QED
          OBVIOUS
      <3>2. i \in 1..Len(Tail(todo[u]))
        BY <2>1, <2>3, <2>5
      <3> QED
        BY <1>1, <2>5, <3>1, <3>2
    <2> QED
      BY <1>1, <2>1, <2>3, <2>4, <2>6, OneIdentity DEF id
  <1> QED
    BY <1>7, <1>8, <1>11, <1>12, <1>13, <1>14, <1>15, <1>16 DEF IdInv, ProcInv

\* The invariant is inductive, and an identity that is shown is known.
LEMMA IdentityNext ==
  ASSUME IdInv, [DirNext]_dirVars
  PROVE  IdInv' /\ (known' # known /\ known # 0 => bare \/ mixed \/ known' \in attempted)
  <1>1. CASE IdNext
    BY <1>1, LoadKeeps, RepairKeeps, GenerateKeeps, WizardKeeps, ImportKeeps, ExportKeeps, ShowKeeps, OpenKeeps, WriteKeeps, KillKeeps
       DEF IdNext, CheckIdentity
  <1>2. CASE UNCHANGED idVars
    <2>1. /\ files' = files /\ backup' = backup /\ todo' = todo /\ isOpen' = isOpen /\ doing' = doing /\ ids' = ids
          /\ kills' = kills /\ known' = known /\ attempted' = attempted /\ cert' = cert /\ mixed' = mixed /\ bare' = bare
      BY <1>2 DEF idVars, idDisk, idProcs, idHist
    <2>2. IdTypes' /\ TurnInv' /\ KnownInv' /\ PlanInv' /\ CertMatches'
      <3>1. IdTypes'
        BY <2>1 DEF IdInv, IdTypes, IdTypeOK, Started
      <3>2. TurnInv'
        BY <2>1 DEF IdInv, TurnInv, Agree
      <3>3. KnownInv' /\ PlanInv' /\ CertMatches'
        BY <2>1 DEF IdInv, KnownInv, PlanInv, AllExist, Exists, CertMatches
      <3> QED
        BY <3>1, <3>2, <3>3
    <2>3. ProcInv'
      <3>1. ids' \in ids..MaxIds
        BY <2>1, IdParts, IdAssumption
      <3> QED
        BY <2>1, <3>1, OthersStay DEF ProcInv
    <2> QED
      BY <2>1, <2>2, <2>3 DEF IdInv
  <1> QED
    BY <1>1, <1>2 DEF DirNext, dirVars

\* The certificate a load returns is the one of its key, as long as operations
\* take turns (load_or_generate_identity compares the TLS key only).
THEOREM CertCorrect == DirSpec => []CertMatches
  <1>1. DirInit => IdInv
    BY IdInitial DEF DirInit
  <1>2. IdInv /\ [DirNext]_dirVars => IdInv'
    BY IdentityNext
  <1>3. IdInv => CertMatches
    BY DEF IdInv
  <1> QED
    BY <1>1, <1>2, <1>3, PTL DEF DirSpec

\* No interrupted write and no repair makes a node somebody else.
THEOREM IdentityCorrect == DirSpec => IdentityKept
  <1> DEFINE P == known' # known /\ known # 0 => bare \/ mixed \/ known' \in attempted
  <1>1. DirInit => IdInv
    BY IdInitial DEF DirInit
  <1>2. IdInv /\ [DirNext]_dirVars => IdInv' /\ [P]_idVars
    BY IdentityNext
  <1> HIDE DEF P
  <1>3. DirSpec => [][P]_idVars
    BY <1>1, <1>2, PTL DEF DirSpec
  <1> QED
    BY <1>3 DEF IdentityKept, P
=============================================================================
