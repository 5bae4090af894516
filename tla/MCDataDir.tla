----------------------------- MODULE MCDataDir -----------------------------
(***************************************************************************)
(* The files of a data directory for TLC.  The identity and the files that *)
(* are edited share no state, so a behaviour is about one or the other.    *)
(***************************************************************************)
EXTENDS DataFiles, Identity

VARIABLE subject    \* "files" or "identity"; never changes

dirVars == <<subject, vars, idVars>>

DirInit == subject \in {"files", "identity"} /\ Init /\ IdInit

DirNext ==
    \/ subject = "files" /\ Next /\ UNCHANGED <<subject, idVars>>
    \/ subject = "identity" /\ IdNext /\ UNCHANGED <<subject, vars>>

DirSpec == DirInit /\ [][DirNext]_dirVars
=============================================================================
