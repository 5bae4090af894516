--------------------------- MODULE GatewayProofs ----------------------------
(***************************************************************************)
(* Proofs about the gateway and the limiters.                              *)
(*                                                                         *)
(* Gateway, for any managing processes, nicknames, number of keys,         *)
(* connections and permits: the key file holds the keys that are valid, a  *)
(* revoked key is refused, and the permits are never lost or handed out    *)
(* twice.                                                                  *)
(*                                                                         *)
(* WindowLimiter, for any clients, limit, window and settings of the clock:*)
(* what is let through in the time of a window is bounded, and a client is *)
(* refused because of its own requests only.                               *)
(***************************************************************************)
EXTENDS Gateway, WindowLimiter, FiniteSetTheorems, TLAPS

USE DEF File, Conns, Admins

Creating == {"createOpen", "createWrite"}
Revoking == {"revokeOpen", "revokeWrite"}
Writing  == {"createWrite", "revokeWrite"}

\* The types of what the managing processes work on.
KeyTypes ==
    /\ keys \subseteq Key /\ torn \in BOOLEAN
    /\ issued \in 0..MaxKeys
    /\ apc \in [Admin -> {"idle"} \cup Creating \cup Revoking]
    /\ task \in [Admin -> Key \cup {NoTask}]
    /\ \A a \in Admin : apc[a] # "idle" => task[a] \in Key
    /\ held \in [Admin -> SUBSET Key]
    /\ created \subseteq Key /\ revoked \subseteq Key /\ lost \subseteq Key
    /\ overlap \in BOOLEAN

\* Every key there ever was, in the file, in a list or in the history.
Seen ==
    {k \in Key :
        \/ k \in keys \cup created \cup revoked \cup lost
        \/ \E a \in Admin : k \in held[a] \/ (apc[a] # "idle" /\ k = task[a])}

\* A secret is generated once.
SecretsUnique ==
    /\ \A k \in Seen : k.secret <= issued
    /\ \A j, k \in Seen : j.secret = k.secret => j = k

NamesDiffer(list) == \A j, k \in list : j.nickname = k.nickname => j = k

\* No list has a nickname twice.
NamesUnique == NamesDiffer(keys) /\ \A a \in Admin : NamesDiffer(held[a])

KeyInv == KeyTypes /\ SecretsUnique /\ NamesUnique

\* The keys that should be in the file.
Live == created \ (revoked \cup lost)

\* As long as the managing processes take turns, a file that can be read holds
\* the live keys, one that cannot holds them under what is unreadable, and the
\* process at work is about to write the list that its success makes right.
TurnsInv ==
    ~overlap =>
        /\ \A a, b \in Admin : apc[a] # "idle" /\ apc[b] # "idle" => a = b
        /\ Live \subseteq keys
        /\ ~torn => keys = Live
        /\ \A a \in Admin :
             /\ apc[a] \in Writing => torn
             /\ apc[a] \in Creating => /\ held[a] = Live \cup {task[a]}
                                       /\ task[a] \notin revoked \cup lost
             /\ apc[a] \in Revoking => /\ held[a] = Live \ {task[a]}
                                       /\ task[a] \in Live

\* Nothing that serves connections touches the keys.
LEMMA ConnsLeaveKeys ==
  ASSUME [Next]_vars
  PROVE  (\E a \in Admin : AdminStep(a)) \/ UNCHANGED Admins
  BY DEF Next, vars, Serve, Acquire, Request, CheckRate, Validate, Close, Connect

\* What a creation starts from is in the file.
LEMMA CreateList == ListForCreate \subseteq keys
  BY DEF ListForCreate

\* Every step of a managing process keeps the types.
LEMMA KeyTypesNext ==
  ASSUME KeyTypes, NEW a \in Admin, AdminStep(a)
  PROVE  KeyTypes'
  <1> USE BoundAssumption DEF Creating, Revoking
  <1>1. ASSUME NEW n \in Nick, CreateRead(a, n)
        PROVE  KeyTypes'
    <2> DEFINE k == [nickname |-> n, secret |-> issued + 1]
    <2>1. k \in Key /\ issued' \in 0..MaxKeys
      BY <1>1 DEF CreateRead, KeyTypes, Key, Secret
    <2>2. ListForCreate \cup {k} \in SUBSET Key
      BY <2>1, CreateList DEF KeyTypes
    <2> HIDE DEF k
    <2>3. /\ task' = [task EXCEPT ![a] = k]
          /\ held' = [held EXCEPT ![a] = ListForCreate \cup {k}]
          /\ apc' = [apc EXCEPT ![a] = "createOpen"]
      BY <1>1 DEF CreateRead, k
    <2>4. overlap' \in BOOLEAN /\ lost' \subseteq Key
      BY <1>1 DEF CreateRead, Begins, KeyTypes
    <2> QED
      BY <1>1, <2>1, <2>2, <2>3, <2>4 DEF CreateRead, KeyTypes
  <1>2. ASSUME NEW k \in keys, RevokeRead(a, k)
        PROVE  KeyTypes'
    <2>1. overlap' \in BOOLEAN
      BY <1>2 DEF RevokeRead, Begins, KeyTypes
    <2> QED
      BY <1>2, <2>1 DEF RevokeRead, KeyTypes
  <1>3. CASE WriteOpen(a)
    BY <1>3 DEF WriteOpen, KeyTypes
  <1>4. CASE WriteDone(a)
    <2>1. torn' \in BOOLEAN
      BY <1>4 DEF WriteDone
    <2>2. task[a] \in Key /\ held[a] \in SUBSET Key
      BY <1>4 DEF WriteDone, KeyTypes
    <2> QED
      BY <1>4, <2>1, <2>2 DEF WriteDone, KeyTypes
  <1>5. CASE Kill(a)
    BY <1>5 DEF Kill, KeyTypes
  <1> QED
    BY <1>1, <1>2, <1>3, <1>4, <1>5 DEF AdminStep, CmdGateway

\* A step adds no key to the ones there were, except the one it generates.
LEMMA SeenNext ==
  ASSUME KeyTypes, NEW a \in Admin, AdminStep(a)
  PROVE  \/ Seen' \subseteq Seen /\ issued' = issued
         \/ \E k \in Key : Seen' \subseteq Seen \cup {k} /\ k.secret = issued' /\ issued' = issued + 1
  <1>1. ASSUME NEW n \in Nick, CreateRead(a, n)
        PROVE  \E k \in Key : /\ Seen' \subseteq Seen \cup {k}
                              /\ k.secret = issued' /\ issued' = issued + 1
    <2> DEFINE k == [nickname |-> n, secret |-> issued + 1]
    <2>1. k \in Key /\ k.secret = issued' /\ issued' = issued + 1
      BY <1>1, BoundAssumption DEF CreateRead, KeyTypes, Key, Secret
    <2> HIDE DEF k
    <2>2. /\ task' = [task EXCEPT ![a] = k]
          /\ held' = [held EXCEPT ![a] = ListForCreate \cup {k}]
          /\ apc' = [apc EXCEPT ![a] = "createOpen"]
      BY <1>1 DEF CreateRead, k
    <2>3. lost' \subseteq lost \cup keys /\ UNCHANGED <<keys, created, revoked>>
      BY <1>1 DEF CreateRead
    <2>4. Seen' \subseteq Seen \cup {k}
      BY <2>2, <2>3, CreateList DEF KeyTypes, Seen
    <2> QED
      BY <2>1, <2>4
  <1>2. ASSUME NEW k \in keys, RevokeRead(a, k)
        PROVE  Seen' \subseteq Seen
    BY <1>2 DEF Seen, RevokeRead, KeyTypes
  <1>3. WriteOpen(a) => Seen' \subseteq Seen
    BY DEF Seen, WriteOpen, KeyTypes, Creating, Revoking
  <1>4. WriteDone(a) => Seen' \subseteq Seen
    BY DEF Seen, WriteDone, KeyTypes, Creating, Revoking
  <1>5. Kill(a) => Seen' \subseteq Seen
    BY DEF Seen, Kill, KeyTypes, Creating, Revoking
  <1>6. (WriteOpen(a) \/ WriteDone(a) \/ Kill(a) \/ \E k \in keys : RevokeRead(a, k)) => issued' = issued
    BY DEF WriteOpen, WriteDone, Kill, RevokeRead
  <1> QED
    BY <1>1, <1>2, <1>3, <1>4, <1>5, <1>6 DEF AdminStep, CmdGateway

\* Every step of a managing process keeps secrets and nicknames unique.
LEMMA KeyNext ==
  ASSUME KeyInv, NEW a \in Admin, AdminStep(a)
  PROVE  KeyInv'
  <1>1. KeyTypes'
    BY KeyTypesNext DEF KeyInv
  <1>2. SecretsUnique'
    <2>1. /\ issued \in Nat
          /\ \A k \in Seen : k.secret \in Nat
      BY BoundAssumption DEF KeyInv, KeyTypes, Seen, Key, Secret
    <2>2. CASE Seen' \subseteq Seen /\ issued' = issued
      BY <2>2 DEF KeyInv, SecretsUnique
    <2>3. ASSUME NEW k \in Key, Seen' \subseteq Seen \cup {k}, k.secret = issued', issued' = issued + 1
          PROVE  SecretsUnique'
      BY <2>1, <2>3 DEF KeyInv, SecretsUnique
    <2> QED
      BY <2>2, <2>3, SeenNext DEF KeyInv
  <1>3. NamesUnique'
    <2> USE DEF KeyInv, NamesUnique, NamesDiffer
    <2>1. ASSUME NEW n \in Nick, CreateRead(a, n)
          PROVE  NamesUnique'
      <3> DEFINE k == [nickname |-> n, secret |-> issued + 1]
      <3>1. k.nickname = n
        OBVIOUS
      <3> HIDE DEF k
      <3>2. /\ held' = [held EXCEPT ![a] = ListForCreate \cup {k}]
            /\ \A j \in ListForCreate : j.nickname # n
            /\ keys' = keys
        BY <2>1 DEF CreateRead, k
      <3>3. NamesDiffer(ListForCreate \cup {k})
        BY <3>1, <3>2, CreateList
      <3> QED
        BY <3>2, <3>3 DEF KeyTypes
    <2>2. ASSUME NEW k \in keys, RevokeRead(a, k)
          PROVE  NamesUnique'
      BY <2>2 DEF RevokeRead, KeyTypes
    <2>3. CASE WriteOpen(a)
      BY <2>3 DEF WriteOpen
    <2>4. CASE WriteDone(a)
      BY <2>4 DEF WriteDone, KeyTypes
    <2>5. CASE Kill(a)
      BY <2>5 DEF Kill, KeyTypes
    <2> QED
      BY <2>1, <2>2, <2>3, <2>4, <2>5 DEF AdminStep, CmdGateway
  <1> QED
    BY <1>1, <1>2, <1>3 DEF KeyInv
-----------------------------------------------------------------------------
\* Every step of a managing process keeps the file right, if they take turns.
LEMMA TurnsNext ==
  ASSUME KeyInv, TurnsInv, NEW a \in Admin, AdminStep(a)
  PROVE  TurnsInv'
  <1> USE DEF Creating, Revoking, Writing
  <1> SUFFICES ASSUME ~overlap'
               PROVE  TurnsInv'
    BY DEF TurnsInv
  <1>1. ASSUME NEW n \in Nick, CreateRead(a, n)
        PROVE  TurnsInv'
    <2> DEFINE k == [nickname |-> n, secret |-> issued + 1]
    <2>1. ~overlap /\ \A b \in Admin : apc[b] = "idle"
      BY <1>1 DEF CreateRead, Begins
    <2>2. k \notin keys \cup revoked \cup lost
      <3>1. k.secret = issued + 1 /\ issued \in Nat
        BY BoundAssumption DEF KeyInv, KeyTypes
      <3>2. \A j \in keys \cup revoked \cup lost : j.secret <= issued
        BY DEF KeyInv, KeyTypes, SecretsUnique, Seen
      <3> HIDE DEF k
      <3> QED
        BY <3>1, <3>2
    <2> HIDE DEF k
    <2>3. /\ task' = [task EXCEPT ![a] = k]
          /\ held' = [held EXCEPT ![a] = ListForCreate \cup {k}]
          /\ apc' = [apc EXCEPT ![a] = "createOpen"]
          /\ lost' = IF torn THEN lost \cup keys ELSE lost
          /\ UNCHANGED <<keys, torn, created, revoked>>
      BY <1>1 DEF CreateRead, k
    <2>4. Live \subseteq keys /\ (~torn => keys = Live)
      BY <2>1 DEF TurnsInv
    <2>5. Live' = ListForCreate /\ (~torn => Live' = Live)
      BY <2>3, <2>4 DEF Live, ListForCreate
    <2>6. Live' \subseteq keys' /\ (~torn' => keys' = Live')
      BY <2>3, <2>4, <2>5, CreateList
    <2>7. held'[a] = Live' \cup {task'[a]} /\ task'[a] \notin revoked' \cup lost'
      BY <2>2, <2>3, <2>5 DEF KeyInv, KeyTypes
    <2>8. \A b \in Admin : apc'[b] = IF b = a THEN "createOpen" ELSE "idle"
      BY <2>1, <2>3 DEF KeyInv, KeyTypes
    <2> QED
      BY <2>6, <2>7, <2>8 DEF TurnsInv
  <1>2. ASSUME NEW k \in keys, RevokeRead(a, k)
        PROVE  TurnsInv'
    <2>1. ~overlap /\ \A b \in Admin : apc[b] = "idle"
      BY <1>2 DEF RevokeRead, Begins
    <2>2. /\ task' = [task EXCEPT ![a] = k]
          /\ held' = [held EXCEPT ![a] = {j \in keys : j.nickname # k.nickname}]
          /\ apc' = [apc EXCEPT ![a] = "revokeOpen"]
          /\ ~torn
          /\ UNCHANGED <<keys, torn, created, revoked, lost>>
      BY <1>2 DEF RevokeRead
    <2>3. keys = Live /\ Live' = Live
      BY <2>1, <2>2 DEF TurnsInv, Live
    <2>4. {j \in keys : j.nickname # k.nickname} = Live \ {k}
      BY <2>3 DEF KeyInv, NamesUnique, NamesDiffer
    <2>5. held'[a] = Live' \ {task'[a]} /\ task'[a] \in Live'
      BY <2>2, <2>3, <2>4 DEF KeyInv, KeyTypes
    <2>6. \A b \in Admin : apc'[b] = IF b = a THEN "revokeOpen" ELSE "idle"
      BY <2>1, <2>2 DEF KeyInv, KeyTypes
    <2> QED
      BY <2>2, <2>3, <2>5, <2>6 DEF TurnsInv
  <1>3. CASE WriteOpen(a)
    <2>1. Live' = Live /\ ~overlap
      BY <1>3 DEF WriteOpen, Live
    <2> QED
      BY <1>3, <2>1 DEF WriteOpen, TurnsInv, KeyInv, KeyTypes
  <1>4. CASE WriteDone(a)
    <2>1. /\ apc[a] \in Writing /\ ~overlap /\ torn
          /\ \A b \in Admin : apc[b] # "idle" => b = a
      BY <1>4 DEF WriteDone, TurnsInv
    <2>2. torn' = FALSE /\ keys' = held[a] /\ lost' = lost
      BY <1>4, <2>1 DEF WriteDone
    <2>3. keys' = Live'
      <3>1. CASE apc[a] = "createWrite"
        <4>1. created' = created \cup {task[a]} /\ revoked' = revoked
          BY <1>4, <3>1 DEF WriteDone
        <4>2. held[a] = Live \cup {task[a]} /\ task[a] \notin revoked \cup lost
          BY <2>1, <3>1 DEF TurnsInv
        <4> QED
          BY <2>2, <4>1, <4>2 DEF Live
      <3>2. CASE apc[a] = "revokeWrite"
        <4>1. revoked' = revoked \cup {task[a]} /\ created' = created
          BY <1>4, <3>2 DEF WriteDone
        <4>2. held[a] = Live \ {task[a]}
          BY <2>1, <3>2 DEF TurnsInv
        <4> QED
          BY <2>2, <4>1, <4>2 DEF Live
      <3> QED
        BY <2>1, <3>1, <3>2
    <2>4. \A b \in Admin : apc'[b] = "idle"
      BY <1>4, <2>1 DEF WriteDone, KeyInv, KeyTypes
    <2> QED
      BY <2>3, <2>4 DEF TurnsInv
  <1>5. CASE Kill(a)
    <2>1. Live' = Live /\ ~overlap
      BY <1>5 DEF Kill, Live
    <2>2. \A b \in Admin : apc'[b] = "idle"
      BY <1>5, <2>1 DEF Kill, TurnsInv, KeyInv, KeyTypes
    <2> QED
      BY <1>5, <2>1, <2>2 DEF Kill, TurnsInv
  <1> QED
    BY <1>1, <1>2, <1>3, <1>4, <1>5 DEF AdminStep, CmdGateway

\* The keys, their secrets and their nicknames, and what the processes that take
\* turns know of them.
THEOREM KeysInductive == Spec => [](KeyInv /\ TurnsInv)
  <1>1. Init => KeyInv /\ TurnsInv
    <2> SUFFICES ASSUME Init
                 PROVE  KeyInv /\ TurnsInv
      OBVIOUS
    <2>1. KeyTypes
      <3>1. held \in [Admin -> SUBSET Key] /\ task \in [Admin -> Key \cup {NoTask}]
        BY DEF Init
      <3>2. apc \in [Admin -> {"idle"} \cup Creating \cup Revoking]
        BY DEF Init
      <3>3. issued \in 0..MaxKeys
        BY BoundAssumption DEF Init
      <3> QED
        BY <3>1, <3>2, <3>3 DEF Init, KeyTypes
    <2>4. NamesUnique
      BY DEF Init, NamesUnique, NamesDiffer
    <2>2. Seen = {}
      BY DEF Seen, Init
    <2>3. TurnsInv
      BY DEF Init, TurnsInv, Live, Creating, Revoking, Writing
    <2> QED
      BY <2>1, <2>2, <2>3, <2>4 DEF KeyInv, SecretsUnique
  <1>2. KeyInv /\ TurnsInv /\ [Next]_vars => (KeyInv /\ TurnsInv)'
    <2> SUFFICES ASSUME KeyInv, TurnsInv, [Next]_vars
                 PROVE  (KeyInv /\ TurnsInv)'
      OBVIOUS
    <2>1. ASSUME NEW a \in Admin, AdminStep(a)
          PROVE  (KeyInv /\ TurnsInv)'
      BY <2>1, KeyNext, TurnsNext
    <2>2. CASE UNCHANGED Admins
      BY <2>2 DEF KeyInv, KeyTypes, SecretsUnique, Seen, NamesUnique, NamesDiffer, TurnsInv, Live
    <2> QED
      BY <2>1, <2>2, ConnsLeaveKeys
  <1> QED
    BY <1>1, <1>2, PTL DEF Spec

\* Managing processes that take turns leave exactly the keys that were created
\* and not revoked, or an unreadable file.
THEOREM KeysCorrect == Spec => []KeysExact
  <1>1. TurnsInv => KeysExact
    BY DEF TurnsInv, KeysExact, Live
  <1> QED
    BY <1>1, KeysInductive, PTL

-----------------------------------------------------------------------------
(* The connections. *)

\* The connections that have a permit.
Holders == {c \in Conn : cpc[c] \notin {"idle", "queued"}}

\* A connection waits once, and only before it has a permit; permits are with the
\* semaphore or with a connection.
ConnInv ==
    /\ cpc \in [Conn -> {"idle", "queued", "reading", "checking", "validating",
                         "served", "denied", "limited"}]
    /\ waiting \in Seq(Conn)
    /\ \A i \in 1..Len(waiting) : cpc[waiting[i]] = "queued"
    /\ \A i, j \in 1..Len(waiting) : waiting[i] = waiting[j] => i = j
    /\ permits \in Nat /\ IsFiniteSet(Holders)
    /\ Cardinality(Holders) + permits = Permits

\* A step that keeps the queue and who has a permit.
LEMMA SameHolders ==
  ASSUME ConnInv, NEW c \in Conn, c \in Holders,
         NEW label \in {"reading", "checking", "validating", "served", "denied", "limited"},
         Goto(c, label), UNCHANGED <<waiting, permits>>
  PROVE  ConnInv'
  <1>1. Holders' = Holders
    BY DEF Goto, Holders, ConnInv
  <1>2. \A i \in 1..Len(waiting) : waiting[i] \in Conn /\ waiting[i] # c
    BY DEF ConnInv, Holders
  <1> QED
    BY <1>1, <1>2 DEF ConnInv, Goto

\* Every step on a connection keeps the queue and the permits right.
LEMMA ConnNext ==
  ASSUME ConnInv, [Next]_vars
  PROVE  ConnInv'
  <1>1. ASSUME NEW c \in Conn, NEW k \in Secret \cup {NoKey}, Connect(c, k)
        PROVE  ConnInv'
    <2>1. Holders' = Holders
      BY <1>1 DEF Connect, Goto, Holders, ConnInv
    <2>2. /\ waiting' \in Seq(Conn) /\ Len(waiting') = Len(waiting) + 1
          /\ \A i \in 1..Len(waiting') :
               waiting'[i] = IF i = Len(waiting') THEN c ELSE waiting[i]
      BY <1>1 DEF Connect, ConnInv
    <2>3. Len(waiting) \in Nat /\ \A i \in 1..Len(waiting) : waiting[i] \in Conn /\ waiting[i] # c
      BY <1>1 DEF Connect, ConnInv
    <2>4. \A i, j \in 1..Len(waiting') : waiting'[i] = waiting'[j] => i = j
      BY <2>2, <2>3 DEF ConnInv
    <2>5. /\ \A i \in 1..Len(waiting') : cpc'[waiting'[i]] = "queued"
          /\ cpc' \in [Conn -> {"idle", "queued", "reading", "checking", "validating",
                                "served", "denied", "limited"}]
      BY <1>1, <2>2, <2>3 DEF Connect, Goto, ConnInv
    <2> QED
      BY <1>1, <2>1, <2>2, <2>4, <2>5 DEF Connect, ConnInv
  <1>2. ASSUME NEW c \in Conn, Acquire(c)
        PROVE  ConnInv'
    <2>1. Len(waiting) \in Nat /\ Len(waiting) >= 1 /\ waiting[1] = c
      BY <1>2 DEF Acquire, ConnInv
    <2>2. cpc[c] = "queued"
      BY <2>1 DEF ConnInv
    <2>3. Holders' = Holders \cup {c} /\ c \notin Holders
      BY <1>2, <2>2 DEF Acquire, Goto, Holders, ConnInv
    <2>4. /\ IsFiniteSet(Holders') /\ Cardinality(Holders') = Cardinality(Holders) + 1
          /\ Cardinality(Holders) \in Nat
      BY <2>3, FS_AddElement, FS_CardinalityType DEF ConnInv
    <2>5. permits' \in Nat /\ Cardinality(Holders') + permits' = Permits
      BY <1>2, <2>4, BoundAssumption DEF Acquire, ConnInv
    <2>6. /\ waiting' \in Seq(Conn) /\ Len(waiting') = Len(waiting) - 1
          /\ \A i \in 1..Len(waiting') : waiting'[i] = waiting[i + 1]
      BY <1>2, <2>1 DEF Acquire, ConnInv
    <2>7. \A i \in 1..Len(waiting') : /\ i + 1 \in 1..Len(waiting)
                                     /\ waiting'[i] \in Conn /\ waiting'[i] # c
      BY <2>1, <2>6 DEF ConnInv
    <2>8. \A i, j \in 1..Len(waiting') : waiting'[i] = waiting'[j] => i = j
      <3> SUFFICES ASSUME NEW i \in 1..Len(waiting'), NEW j \in 1..Len(waiting'),
                          waiting'[i] = waiting'[j]
                   PROVE  i = j
        OBVIOUS
      <3>1. waiting[i + 1] = waiting[j + 1] /\ i + 1 \in 1..Len(waiting) /\ j + 1 \in 1..Len(waiting)
        BY <2>6, <2>7
      <3>2. i + 1 = j + 1
        BY <3>1 DEF ConnInv
      <3> QED
        BY <2>1, <2>6, <3>2
    <2>9. /\ \A i \in 1..Len(waiting') : cpc'[waiting'[i]] = "queued"
          /\ cpc' \in [Conn -> {"idle", "queued", "reading", "checking", "validating",
                                "served", "denied", "limited"}]
      BY <1>2, <2>6, <2>7 DEF Acquire, Goto, ConnInv
    <2> QED
      BY <2>4, <2>5, <2>6, <2>8, <2>9 DEF ConnInv
  <1>3. ASSUME NEW c \in Conn, Request(c) \/ CheckRate(c) \/ Validate(c)
        PROVE  ConnInv'
    <2>1. c \in Holders /\ UNCHANGED <<waiting, permits>>
      BY <1>3 DEF Request, CheckRate, Validate, Holders
    <2>2. \E label \in {"reading", "checking", "validating", "served", "denied", "limited"} : Goto(c, label)
      BY <1>3 DEF Request, CheckRate, Validate, Admitted
    <2> QED
      BY <2>1, <2>2, SameHolders
  <1>4. ASSUME NEW c \in Conn, Close(c)
        PROVE  ConnInv'
    <2>1. Holders' = Holders \ {c} /\ c \in Holders
      BY <1>4 DEF Close, Goto, Holders, ConnInv
    <2>2. /\ IsFiniteSet(Holders') /\ Cardinality(Holders') = Cardinality(Holders) - 1
          /\ Cardinality(Holders) \in Nat
      BY <2>1, FS_RemoveElement, FS_CardinalityType DEF ConnInv
    <2>3. permits' \in Nat /\ Cardinality(Holders') + permits' = Permits
      BY <1>4, <2>2, BoundAssumption DEF Close, ConnInv
    <2>4. \A i \in 1..Len(waiting) : waiting[i] \in Conn /\ waiting[i] # c
      BY <2>1 DEF ConnInv, Holders
    <2> QED
      BY <1>4, <2>2, <2>3, <2>4 DEF Close, Goto, ConnInv
  <1>5. CASE UNCHANGED Conns
    <2>1. Holders' = Holders
      BY <1>5 DEF Holders
    <2> QED
      BY <1>5, <2>1 DEF ConnInv
  <1>6. ASSUME NEW a \in Admin, AdminStep(a)
        PROVE  UNCHANGED Conns
    BY <1>6 DEF AdminStep, CmdGateway, CreateRead, RevokeRead, WriteOpen, WriteDone, Kill
  <1> QED
    BY <1>1, <1>2, <1>3, <1>4, <1>5, <1>6 DEF Next, Serve, vars

\* No permit of the semaphore is lost or handed out twice: the ones that are out
\* are with as many connections, of which there are at most
\* MAX_CONCURRENT_CONNECTIONS; and a connection waits for one once.
THEOREM PermitsCorrect == Spec => []ConnInv
  <1>1. Init => ConnInv
    <2> SUFFICES ASSUME Init
                 PROVE  ConnInv
      OBVIOUS
    <2>1. Holders = {}
      BY DEF Init, Holders
    <2> QED
      BY <2>1, FS_EmptySet, BoundAssumption DEF Init, ConnInv
  <1>2. ConnInv /\ [Next]_vars => ConnInv'
    BY ConnNext
  <1> QED
    BY <1>1, <1>2, PTL DEF Spec

\* Every variable of the gateway keeps its type; the permits are never more than
\* there are.
THEOREM TypeCorrect == Spec => []TypeOK
  <1> DEFINE KeySent == api_key \in [Conn -> Secret \cup {NoKey}]
  <1>1. Init => KeySent
    BY DEF Init
  <1>2. KeySent /\ [Next]_vars => KeySent'
    BY DEF Next, AdminStep, CmdGateway, CreateRead, RevokeRead, WriteOpen, WriteDone, Kill,
           Serve, Acquire, Request, CheckRate, Validate, Close, Connect, vars
  <1>3. ConnInv => permits \in 0..Permits
    <2> SUFFICES ASSUME ConnInv
                 PROVE  permits \in 0..Permits
      OBVIOUS
    <2>1. Cardinality(Holders) \in Nat /\ Cardinality(Holders) + permits = Permits /\ permits \in Nat
      BY FS_CardinalityType DEF ConnInv
    <2> QED
      BY <2>1, BoundAssumption
  <1>4. KeyInv /\ ConnInv /\ KeySent => TypeOK
    BY <1>3 DEF KeyInv, KeyTypes, ConnInv, TypeOK, Creating, Revoking
  <1> QED
    BY <1>1, <1>2, <1>4, KeysInductive, PermitsCorrect, PTL DEF Spec

\* A key whose revocation has returned validates no request.
THEOREM RevocationCorrect == Spec => RevokedRefused
  <1>1. KeyInv /\ TurnsInv /\ ConnInv /\ [Next]_vars =>
          [\A c \in Conn : cpc[c] = "validating" /\ cpc'[c] = "served" =>
             overlap \/ \A k \in revoked : k.secret # api_key[c]]_vars
    <2> SUFFICES ASSUME KeyInv, TurnsInv, ConnInv, Next, ~overlap,
                        NEW c \in Conn, cpc[c] = "validating", cpc'[c] = "served",
                        NEW k \in revoked, k.secret = api_key[c]
                 PROVE  FALSE
      BY DEF vars
    <2>1. Valid(api_key[c])
      BY DEF Next, AdminStep, CmdGateway, CreateRead, RevokeRead, WriteOpen, WriteDone, Kill,
             Serve, Acquire, Request, CheckRate, Validate, Close, Connect, Goto, ConnInv
    <2>2. PICK j \in keys : j.secret = k.secret /\ ~torn
      BY <2>1 DEF Valid
    <2>3. j = k
      BY <2>2 DEF KeyInv, KeyTypes, SecretsUnique, Seen
    <2>4. j \notin revoked
      BY <2>2 DEF TurnsInv, Live
    <2> QED
      BY <2>3, <2>4
  <1> QED
    BY <1>1, KeysInductive, PermitsCorrect, PTL DEF Spec, RevokedRefused

-----------------------------------------------------------------------------
(* The limiters: counting units. *)

\* The units at finitely many ages are finitely many.
LEMMA UnitsFinite ==
  ASSUME NEW f \in [Past -> Nat], NEW A \in SUBSET Past
  PROVE  IsFiniteSet(Units(f, A)) /\ Cardinality(Units(f, A)) \in Nat
  <1> DEFINE g == [a \in A |-> {a} \X (1..f[a])]
             P == {{a} \X (1..f[a]) : a \in A}
  <1>1. IsFiniteSet(A)
    <2>1. Window \in Nat /\ 0 \in Int /\ Window - 1 \in Int
      BY LimitAssumption
    <2>2. IsFiniteSet(Past)
      BY <2>1, FS_Interval DEF Past
    <2> QED
      BY <2>2, FS_Subset
  <1>2. g \in Surjection(A, P)
    BY DEF Surjection
  <1>3. IsFiniteSet(P)
    BY <1>1, <1>2, FS_Surjection
  <1>4. ASSUME NEW a \in A
        PROVE  IsFiniteSet({a} \X (1..f[a]))
    <2>1. f[a] \in Nat /\ f[a] \in Int /\ 1 \in Int
      OBVIOUS
    <2>2. IsFiniteSet(1..f[a]) /\ IsFiniteSet({a})
      BY <2>1, FS_Interval, FS_Singleton
    <2> QED
      BY <2>2, FS_Product
  <1>5. \A T \in P : IsFiniteSet(T)
    BY <1>4
  <1>6. IsFiniteSet(UNION P)
    BY <1>3, <1>5, FS_UNION
  <1> QED
    BY <1>6, FS_CardinalityType DEF Units

\* What the pairs are.
LEMMA UnitsAre ==
  ASSUME NEW f \in [Past -> Nat], NEW A \in SUBSET Past
  PROVE  /\ \A b \in Units(f, A) : b = <<b[1], b[2]>> /\ b[1] \in A /\ b[2] \in 1..f[b[1]]
         /\ \A a \in A : \A u \in 1..f[a] : <<a, u>> \in Units(f, A)
  BY DEF Units

\* Fewer ages, fewer units.
LEMMA UnitsMono ==
  ASSUME NEW f \in [Past -> Nat], NEW A \in SUBSET Past, NEW B \in SUBSET A
  PROVE  Cardinality(Units(f, B)) <= Cardinality(Units(f, A))
  <1>1. Units(f, B) \in SUBSET Units(f, A)
    BY DEF Units
  <1> QED
    BY <1>1, UnitsFinite, FS_Subset

\* n more units now.
LEMMA UnitsAdd ==
  ASSUME NEW f \in [Past -> Nat], NEW A \in SUBSET Past, 0 \in A, NEW n \in Nat,
         NEW g, g = [f EXCEPT ![0] = f[0] + n]
  PROVE  g \in [Past -> Nat] /\ Cardinality(Units(g, A)) = Cardinality(Units(f, A)) + n
  <1> DEFINE new == {0} \X ((f[0] + 1)..(f[0] + n))
  <1>1. f[0] \in Nat /\ g[0] = f[0] + n /\ \A a \in Past : a # 0 => g[a] = f[a]
    OBVIOUS
  <1>2. g \in [Past -> Nat]
    OBVIOUS
  <1>3. IsFiniteSet(new) /\ Cardinality(new) = n
    <2> DEFINE I == (f[0] + 1)..(f[0] + n)
    <2>1. /\ f[0] + 1 \in Int /\ f[0] + n \in Int
          /\ (f[0] + 1 > f[0] + n <=> n = 0)
          /\ (f[0] + n) - (f[0] + 1) + 1 = n
      BY <1>1
    <2>2. IsFiniteSet(I) /\ Cardinality(I) = n
      BY <2>1, FS_Interval
    <2>3. IsFiniteSet({0}) /\ Cardinality({0}) = 1
      BY FS_Singleton
    <2> HIDE DEF I
    <2>4. IsFiniteSet({0} \X I) /\ Cardinality({0} \X I) = Cardinality({0}) * Cardinality(I)
      BY <2>2, <2>3, FS_Product, Zenon
    <2>5. 1 * n = n
      OBVIOUS
    <2>6. IsFiniteSet({0} \X I) /\ Cardinality({0} \X I) = n
      BY <2>2, <2>3, <2>4, <2>5, Zenon
    <2> QED
      BY <2>6 DEF I
  <1>4. Units(g, A) = Units(f, A) \cup new
    <2>1. \A a \in A : a # 0 => {a} \X (1..g[a]) = {a} \X (1..f[a])
      BY <1>1
    <2>2. {0} \X (1..g[0]) = ({0} \X (1..f[0])) \cup new
      BY <1>1
    <2> QED
      BY <2>1, <2>2 DEF Units
  <1>5. Units(f, A) \cap new = {}
    <2> SUFFICES ASSUME NEW b \in Units(f, A), b \in new
                 PROVE  FALSE
      OBVIOUS
    <2>1. b[1] \in A /\ b[2] \in 1..f[b[1]]
      BY UnitsAre
    <2>2. b[1] = 0 /\ b[2] \in (f[0] + 1)..(f[0] + n)
      OBVIOUS
    <2> QED
      BY <1>1, <2>1, <2>2
  <1> HIDE DEF new
  <1> DEFINE U == Units(f, A)
  <1>6. IsFiniteSet(U) /\ Cardinality(U) \in Nat
    BY UnitsFinite
  <1> HIDE DEF U
  <1>7. Cardinality(U \cup new) = Cardinality(U) + Cardinality(new) - Cardinality(U \cap new)
    BY <1>3, <1>6, FS_Union
  <1>8. Cardinality(U \cap new) = 0
    BY <1>5, FS_EmptySet DEF U
  <1>9. Cardinality(U \cup new) = Cardinality(U) + n
    BY <1>3, <1>6, <1>7, <1>8
  <1> QED
    BY <1>2, <1>4, <1>9 DEF U

\* A tick later.
Later(f) == [a \in Past |-> IF a = 0 THEN 0 ELSE f[a - 1]]

\* Nothing has been allowed yet in the new tick.
LEMMA LaterType ==
  ASSUME NEW f \in [Past -> Nat]
  PROVE  Later(f) \in [Past -> Nat] /\ (0 \in Past => Later(f)[0] = 0)
  <1>1. \A a \in Past : a # 0 => a - 1 \in Past
    BY LimitAssumption DEF Past
  <1> QED
    BY <1>1 DEF Later

\* The units at the ages B were at the ages A a tick ago.
LEMMA LaterFewer ==
  ASSUME NEW f \in [Past -> Nat], NEW A \in SUBSET Past, NEW B \in SUBSET Past,
         \A b \in B : b # 0 => b - 1 \in A
  PROVE  Cardinality(Units(Later(f), B)) <= Cardinality(Units(f, A))
  <1> DEFINE g == Later(f)
             S == Units(g, B)
             T == Units(f, A)
             h == [p \in S |-> <<p[1] - 1, p[2]>>]
  <1>1. g \in [Past -> Nat] /\ \A a \in Past : g[a] = IF a = 0 THEN 0 ELSE f[a - 1]
    BY LaterType DEF Later
  <1>2. \A p \in S : p = <<p[1], p[2]>> /\ p[1] \in B /\ p[2] \in 1..g[p[1]]
    BY <1>1, UnitsAre
  <1>3. \A p \in S : p[1] \in Int /\ p[1] # 0
    <2> SUFFICES ASSUME NEW p \in S
                 PROVE  p[1] \in Int /\ p[1] # 0
      OBVIOUS
    <2>1. p[1] \in Past /\ p[2] \in 1..g[p[1]]
      BY <1>2
    <2>2. p[1] = 0 => g[p[1]] = 0
      BY <1>1, <2>1
    <2> QED
      BY <2>1, <2>2 DEF Past
  <1>4. \A p \in S : h[p] \in T
    <2> SUFFICES ASSUME NEW p \in S
                 PROVE  <<p[1] - 1, p[2]>> \in T
      OBVIOUS
    <2>1. p[1] \in B /\ p[1] # 0 /\ p[2] \in 1..g[p[1]]
      BY <1>2, <1>3
    <2>2. p[1] - 1 \in A /\ p[2] \in 1..f[p[1] - 1]
      BY <1>1, <2>1
    <2> QED
      BY <2>2, UnitsAre
  <1>5. \A p, q \in S : h[p] = h[q] => p = q
    <2> SUFFICES ASSUME NEW p \in S, NEW q \in S, p[1] - 1 = q[1] - 1, p[2] = q[2]
                 PROVE  p = q
      OBVIOUS
    <2>1. p[1] = q[1]
      BY <1>3
    <2> QED
      BY <1>2, <2>1
  <1> HIDE DEF g
  <1>6. h \in Injection(S, T)
    BY <1>4, <1>5 DEF Injection, IsInjective
  <1>7. IsFiniteSet(T)
    BY UnitsFinite
  <1> QED
    BY <1>6, <1>7, FS_Injection DEF g

\* The units at the ages A are at the ages B a tick later.
LEMMA LaterMore ==
  ASSUME NEW f \in [Past -> Nat], NEW A \in SUBSET Past, NEW B \in SUBSET Past,
         \A a \in A : a + 1 \in B
  PROVE  Cardinality(Units(f, A)) <= Cardinality(Units(Later(f), B))
  <1> DEFINE g == Later(f)
             S == Units(f, A)
             T == Units(g, B)
             h == [p \in S |-> <<p[1] + 1, p[2]>>]
  <1>1. g \in [Past -> Nat] /\ \A a \in Past : g[a] = IF a = 0 THEN 0 ELSE f[a - 1]
    BY LaterType DEF Later
  <1>2. \A p \in S : p = <<p[1], p[2]>> /\ p[1] \in A /\ p[2] \in 1..f[p[1]]
    BY UnitsAre
  <1>3. \A p \in S : p[1] \in Nat
    BY <1>2 DEF Past
  <1>4. \A p \in S : h[p] \in T
    <2> SUFFICES ASSUME NEW p \in S
                 PROVE  <<p[1] + 1, p[2]>> \in T
      OBVIOUS
    <2>1. p[1] + 1 \in B /\ p[1] + 1 # 0 /\ (p[1] + 1) - 1 = p[1]
      BY <1>2, <1>3
    <2>2. p[2] \in 1..g[p[1] + 1]
      BY <1>1, <1>2, <2>1
    <2> QED
      BY <1>1, <2>1, <2>2, UnitsAre
  <1>5. \A p, q \in S : h[p] = h[q] => p = q
    <2> SUFFICES ASSUME NEW p \in S, NEW q \in S, p[1] + 1 = q[1] + 1, p[2] = q[2]
                 PROVE  p = q
      OBVIOUS
    <2>1. p[1] = q[1]
      BY <1>3
    <2> QED
      BY <1>2, <2>1
  <1>6. IsFiniteSet(T)
    BY <1>1, UnitsFinite
  <1> HIDE DEF g
  <1>7. h \in Injection(S, T)
    BY <1>4, <1>5 DEF Injection, IsInjective
  <1> QED
    BY <1>6, <1>7, FS_Injection DEF g

-----------------------------------------------------------------------------
(* The inductive invariant of the limiters. *)

\* The ages since the start of a window that ends in l ticks.
Since(l) == {a \in Past : a + l <= Window}

\* What was allowed to i at the ages A.
Count(i, A) == Cardinality(Units(recent[i], A))

\* What a bucket used of its limit (record goes past it).
Spent(i) == IF used[i] < Limit THEN used[i] ELSE Limit

\* No more was allowed than the buckets say: since the start of the window what
\* was spent, before it one limit more, and one more for every time the clock
\* was set back, by which windows overlap.
UpperInv(i) ==
    /\ left[i] = 0 => recent[i][0] = 0
    /\ i \in tracked =>
          /\ left[i] <= Window => /\ Count(i, Since(left[i])) <= Spent(i) + jumps * Limit
                                  /\ Count(i, Past) <= Spent(i) + jumps * Limit + Limit
          /\ left[i] > Window => /\ Count(i, {0}) <= jumps * Limit
                                 /\ Count(i, Past) <= Spent(i) + jumps * Limit
    /\ i \notin tracked => left[i] = 0 /\ used[i] = 0 /\ Count(i, Past) <= jumps * Limit + Limit

\* No less was allowed than the buckets say, except in a window that started
\* before the clock was set back, and which ends by the time it has caught up.
LowerInv(i) ==
    kind # "relay" /\ i \in tracked /\ left[i] > 0 =>
        \/ left[i] + steady <= Window + jumps * MaxBack
        \/ Spent(i) <= Count(i, Since(left[i]))

LimiterInv == LimiterTypeOK /\ \A i \in Id : UpperInv(i) /\ LowerInv(i)

\* The ranges of the parts of a bucket.
LEMMA BucketTypes ==
  ASSUME LimiterTypeOK, NEW i \in Id
  PROVE  /\ used[i] \in Nat /\ left[i] \in Nat /\ recent[i] \in [Past -> Nat]
         /\ jumps \in Nat /\ steady \in Nat /\ Limit \in Nat /\ Window \in Nat /\ Window >= 1
         /\ 0 \in Past /\ recent[i][0] \in Nat
         /\ jumps * Limit \in Nat /\ jumps * MaxBack \in Nat
         /\ Spent(i) \in Nat /\ Spent(i) <= Limit
  <1>1. /\ jumps \in Nat /\ steady \in Nat /\ Limit \in Nat /\ Window \in Nat /\ Window >= 1
        /\ MaxBack \in Nat /\ MaxJumps \in Nat
    BY LimitAssumption DEF LimiterTypeOK, Settled
  <1>2. jumps * Limit \in Nat /\ jumps * MaxBack \in Nat
    BY <1>1
  <1>3. 0 \in Past
    BY <1>1 DEF Past
  <1>4. used[i] \in Nat /\ left[i] \in Nat /\ recent[i] \in [Past -> Nat]
    BY <1>1, <1>2, LimitAssumption DEF LimiterTypeOK
  <1>5. recent[i][0] \in Nat
    BY <1>3, <1>4
  <1>6. Spent(i) \in Nat /\ Spent(i) <= Limit
    BY <1>1, <1>4 DEF Spent
  <1> QED
    BY <1>1, <1>2, <1>3, <1>4, <1>5, <1>6

\* Counts are numbers, and smaller for fewer ages.
LEMMA CountType ==
  ASSUME LimiterTypeOK, NEW i \in Id, NEW A \in SUBSET Past
  PROVE  Count(i, A) \in Nat /\ Count(i, A) <= Count(i, Past)
  <1>1. recent[i] \in [Past -> Nat]
    BY BucketTypes
  <1>2. Past \in SUBSET Past
    OBVIOUS
  <1> QED
    BY <1>1, <1>2, UnitsFinite, UnitsMono DEF Count

\* What the ages since the start of a window are.
LEMMA SinceIs ==
  /\ Since(0) = Past /\ Since(Window) = {0}
  /\ \A l \in Nat : /\ Since(l) \in SUBSET Past
                    /\ l <= Window => 0 \in Since(l)
  <1>1. Window \in Nat /\ Window >= 1
    BY LimitAssumption
  <1> QED
    BY <1>1 DEF Since, Past

\* The count now is that of the ages {0}.
LEMMA CountNow ==
  ASSUME LimiterTypeOK, NEW i \in Id, recent[i][0] = 0
  PROVE  Count(i, {0}) = 0
  <1>1. Units(recent[i], {0}) = {}
    <2>1. 1..recent[i][0] = {}
      OBVIOUS
    <2> QED
      BY <2>1 DEF Units
  <1> QED
    BY <1>1, FS_EmptySet DEF Count

\* The state of the bucket of i, and of the clock, does not change.
LEMMA BucketSame ==
  ASSUME LimiterTypeOK, NEW i \in Id, UpperInv(i), LowerInv(i),
         i \in tracked' <=> i \in tracked, used'[i] = used[i], left'[i] = left[i],
         recent'[i] = recent[i], jumps' = jumps, steady' = steady, kind' = kind
  PROVE  UpperInv(i)' /\ LowerInv(i)'
  BY DEF UpperInv, LowerInv, Count, Spent

\* A request that adds x to the bucket, of which n are allowed: all or none.
LEMMA ChargeInv ==
  ASSUME LimiterTypeOK, LimiterTypeOK', NEW i \in Id, UpperInv(i), LowerInv(i),
         NEW x \in Nat, NEW n \in Nat,
         (n = x /\ Used(i) + n <= Limit) \/ n = 0,
         kind # "relay" /\ n # x => Used(i) >= Limit,
         i \in tracked', used'[i] = Used(i) + x,
         left'[i] = IF Fresh(i) THEN Window ELSE left[i],
         recent'[i] = [recent[i] EXCEPT ![0] = recent[i][0] + n],
         jumps' = jumps, steady' = steady, kind' = kind
  PROVE  UpperInv(i)' /\ LowerInv(i)'
  <1> DEFINE e == jumps * Limit
             f == recent[i]
             g == recent'[i]
             C(A) == Cardinality(Units(f, A))
             D(A) == Cardinality(Units(g, A))
             s == IF Used(i) + x < Limit THEN Used(i) + x ELSE Limit
  <1>0. /\ used[i] \in Nat /\ left[i] \in Nat /\ f \in [Past -> Nat]
        /\ jumps \in Nat /\ steady \in Nat /\ Limit \in Nat /\ Window \in Nat /\ Window >= 1
        /\ 0 \in Past /\ e \in Nat /\ Spent(i) \in Nat /\ Spent(i) <= Limit
    BY BucketTypes
  <1>1. \A A \in SUBSET Past : 0 \in A => D(A) = C(A) + n
    BY <1>0, UnitsAdd
  <1>2. \A A \in SUBSET Past : C(A) \in Nat /\ C(A) <= C(Past)
    BY CountType DEF Count
  <1>3. Spent(i)' = s /\ Used(i) \in Nat /\ s \in Nat
    BY <1>0 DEF Spent, Used
  <1>4. /\ C(Past) \in Nat /\ D(Past) = C(Past) + n
        /\ \A l \in Nat : l <= Window => C(Since(l)) \in Nat /\ D(Since(l)) = C(Since(l)) + n
    <2>1. Past \in SUBSET Past
      OBVIOUS
    <2> QED
      BY <1>0, <1>1, <1>2, <2>1, SinceIs
  <1> HIDE DEF C, D
  <1>5. CASE ~Fresh(i)
    <2>1. /\ i \in tracked /\ left[i] # 0 /\ left[i] <= Window /\ left'[i] = left[i] /\ Used(i) = used[i]
      BY <1>0, <1>5 DEF Fresh, Used
    <2>2. n <= s - Spent(i) /\ Spent(i) <= s
      BY <1>0, <1>3, <2>1 DEF Spent
    <2>3. C(Since(left[i])) <= Spent(i) + e /\ C(Past) <= Spent(i) + e + Limit
      BY <2>1 DEF UpperInv, Count, C
    <2>4. D(Since(left[i])) <= s + e /\ D(Past) <= s + e + Limit
      <3> HIDE DEF e, s
      <3> QED
        BY <1>0, <1>3, <1>4, <2>1, <2>2, <2>3
    <2>5. UpperInv(i)'
      BY <1>0, <1>3, <2>1, <2>4 DEF UpperInv, Count, D
    <2>6. ASSUME kind # "relay", ~(left[i] + steady <= Window + jumps * MaxBack)
          PROVE  s <= D(Since(left[i]))
      <3>1. Spent(i) <= C(Since(left[i]))
        BY <1>0, <2>1, <2>6 DEF LowerInv, Count, C
      <3>2. s <= Spent(i) + n
        BY <1>0, <1>3, <2>1, <2>6 DEF Spent
      <3> HIDE DEF s
      <3> QED
        BY <1>0, <1>3, <1>4, <2>1, <3>1, <3>2
    <2>7. LowerInv(i)'
      BY <1>3, <2>1, <2>6 DEF LowerInv, Count, D
    <2> QED
      BY <2>5, <2>7
  <1>6. CASE Fresh(i)
    <2>1. left'[i] = Window /\ Used(i) = 0 /\ n <= s /\ Since(Window) = {0}
      BY <1>0, <1>3, <1>6, SinceIs DEF Used
    <2>2. C({0}) \in Nat /\ D({0}) = C({0}) + n
      <3>1. {0} \in SUBSET Past /\ 0 \in {0}
        BY <1>0
      <3> QED
        BY <1>1, <1>2, <3>1
    <2>3. C({0}) <= e
      <3>1. CASE left[i] = 0
        <4>1. Count(i, {0}) = 0
          BY <3>1, CountNow DEF UpperInv
        <4> QED
          BY <1>0, <4>1 DEF Count, C
      <3>2. CASE left[i] # 0
        <4>1. left[i] > Window /\ i \in tracked
          BY <1>6, <3>2 DEF Fresh, UpperInv
        <4> QED
          BY <4>1 DEF UpperInv, Count, C
      <3> QED
        BY <3>1, <3>2
    <2>4. C(Past) <= e + Limit
      <3>1. CASE i \notin tracked
        BY <3>1 DEF UpperInv, Count, C
      <3>2. CASE i \in tracked /\ left[i] > Window
        <4>1. C(Past) <= Spent(i) + e
          BY <3>2 DEF UpperInv, Count, C
        <4> HIDE DEF e
        <4> QED
          BY <1>0, <1>4, <4>1
      <3>3. CASE i \in tracked /\ left[i] = 0
        <4>1. C(Past) <= Spent(i) + e
          BY <1>0, <3>3, SinceIs DEF UpperInv, Count, C
        <4> HIDE DEF e
        <4> QED
          BY <1>0, <1>4, <4>1
      <3> QED
        BY <1>6, <3>1, <3>2, <3>3 DEF Fresh
    <2>5. D({0}) <= s + e /\ D(Past) <= s + e + Limit
      <3> HIDE DEF e, s
      <3> QED
        BY <1>0, <1>3, <1>4, <2>1, <2>2, <2>3, <2>4
    <2>6. UpperInv(i)'
      <3>1. Count(i, Since(left[i]))' = D({0}) /\ Count(i, Past)' = D(Past) /\ jumps' * Limit = e
        BY <2>1 DEF Count, D
      <3>2. left'[i] # 0 /\ ~(left'[i] > Window)
        BY <1>0, <2>1
      <3> HIDE DEF e, s
      <3> QED
        BY <1>3, <2>5, <3>1, <3>2 DEF UpperInv
    <2>7. kind # "relay" => s <= n
      BY <1>0, <1>3, <2>1
    <2>8. kind # "relay" => s <= D({0})
      <3> HIDE DEF s
      <3> QED
        BY <1>3, <2>2, <2>7
    <2>9. LowerInv(i)'
      BY <1>3, <2>1, <2>8 DEF LowerInv, Count, D
    <2> QED
      BY <2>6, <2>9
  <1> QED
    BY <1>5, <1>6

\* A tick: what was allowed since the start of the window still was, and a
\* window that ends takes what was allowed before it out of sight.
LEMMA TickBucket ==
  ASSUME LimiterTypeOK, LimiterTypeOK', NEW i \in Id, UpperInv(i), LowerInv(i),
         tracked' = tracked, used'[i] = used[i],
         left'[i] = IF left[i] = 0 THEN 0 ELSE left[i] - 1,
         recent'[i] = Later(recent[i]),
         jumps' = jumps, kind' = kind,
         steady' = IF steady = Settled THEN Settled ELSE steady + 1
  PROVE  UpperInv(i)' /\ LowerInv(i)'
  <1> DEFINE e == jumps * Limit
             b == jumps * MaxBack
             f == recent[i]
             l == left[i]
             C(A) == Cardinality(Units(f, A))
             D(A) == Cardinality(Units(Later(f), A))
  <1>0. /\ used[i] \in Nat /\ l \in Nat /\ f \in [Past -> Nat]
        /\ jumps \in Nat /\ steady \in Nat /\ Limit \in Nat /\ Window \in Nat /\ Window >= 1
        /\ 0 \in Past /\ e \in Nat /\ b \in Nat /\ Spent(i) \in Nat /\ Spent(i) <= Limit
    BY BucketTypes
  <1>1. Spent(i)' = Spent(i) /\ recent'[i][0] = 0
    BY <1>0, LaterType DEF Spent
  <1>2. Count(i, {0})' = 0
    <2>1. Units(recent'[i], {0}) = {}
      BY <1>1 DEF Units
    <2> QED
      BY <2>1, FS_EmptySet DEF Count
  <1>3. \A A \in SUBSET Past : C(A) \in Nat /\ D(A) \in Nat
    BY <1>0, UnitsFinite, LaterType
  <1>4. D(Past) <= C(Past)
    <2>1. \A a \in Past : a # 0 => a - 1 \in Past
      BY <1>0 DEF Past
    <2>2. Past \in SUBSET Past
      OBVIOUS
    <2> QED
      BY <1>0, <2>1, <2>2, LaterFewer
  <1>5. l > 0 => D(Since(l - 1)) <= C(Since(l))
    <2> SUFFICES ASSUME l > 0
                 PROVE  D(Since(l - 1)) <= C(Since(l))
      OBVIOUS
    <2>1. Since(l) \in SUBSET Past /\ Since(l - 1) \in SUBSET Past
      BY DEF Since
    <2>2. ASSUME NEW a \in Since(l - 1), a # 0
          PROVE  a - 1 \in Since(l)
      <3>1. a \in 0..(Window - 1) /\ a + (l - 1) <= Window
        BY DEF Since, Past
      <3> HIDE DEF l
      <3>2. a - 1 \in 0..(Window - 1) /\ (a - 1) + l <= Window
        BY <1>0, <2>2, <3>1
      <3> QED
        BY <3>2 DEF Since, Past
    <2> QED
      BY <1>0, <2>1, <2>2, LaterFewer
  <1>6. l > 1 => C(Since(l)) <= D(Since(l - 1))
    <2> SUFFICES ASSUME l > 1
                 PROVE  C(Since(l)) <= D(Since(l - 1))
      OBVIOUS
    <2>1. Since(l) \in SUBSET Past /\ Since(l - 1) \in SUBSET Past
      BY DEF Since
    <2>2. ASSUME NEW a \in Since(l)
          PROVE  a + 1 \in Since(l - 1)
      <3>1. a \in Nat /\ a + l <= Window
        BY DEF Since, Past
      <3> HIDE DEF l
      <3>2. a + 1 \in 0..(Window - 1) /\ (a + 1) + (l - 1) <= Window
        BY <1>0, <3>1
      <3> QED
        BY <3>2 DEF Since, Past
    <2> QED
      BY <1>0, <2>1, <2>2, LaterMore
  <1>7. /\ Count(i, Past)' = D(Past)
        /\ l = 0 => left'[i] = 0 /\ Since(left'[i]) = Past
        /\ l > 0 => left'[i] = l - 1 /\ Count(i, Since(left[i]))' = D(Since(l - 1))
    BY <1>0, SinceIs DEF Count
  <1>8. /\ C(Past) \in Nat /\ D(Past) \in Nat /\ C(Since(l)) \in Nat
        /\ l > 0 => D(Since(l - 1)) \in Nat
    <2>1. Past \in SUBSET Past /\ Since(l) \in SUBSET Past /\ Since(l - 1) \in SUBSET Past
      BY DEF Since
    <2> QED
      BY <1>3, <2>1
  <1> HIDE DEF C, D
  <1>9. CASE i \notin tracked
    <2>1. l = 0 /\ used[i] = 0 /\ C(Past) <= e + Limit
      BY <1>9 DEF UpperInv, Count, C
    <2>2. D(Past) <= e + Limit
      <3> HIDE DEF e
      <3> QED
        BY <1>0, <1>4, <1>8, <2>1
    <2> QED
      BY <1>0, <1>1, <1>7, <1>9, <2>1, <2>2 DEF UpperInv, LowerInv
  <1>10. CASE i \in tracked /\ l = 0
    <2>1. C(Past) <= Spent(i) + e
      BY <1>0, <1>10, SinceIs DEF UpperInv, Count, C
    <2>2. D(Past) <= Spent(i) + e /\ D(Past) <= Spent(i) + e + Limit
      <3> HIDE DEF e
      <3> QED
        BY <1>0, <1>4, <1>8, <2>1
    <2>3. Count(i, Since(left[i]))' = D(Past)
      BY <1>7, <1>10 DEF Count
    <2> QED
      BY <1>0, <1>1, <1>7, <1>10, <2>2, <2>3 DEF UpperInv, LowerInv
  <1>11. CASE i \in tracked /\ l > 0
    <2>1. left'[i] = l - 1 /\ l - 1 \in Nat
      BY <1>0, <1>7, <1>11
    <2>2. ASSUME l <= Window
          PROVE  /\ D(Since(l - 1)) <= Spent(i) + e
                 /\ D(Past) <= Spent(i) + e + Limit
      <3>1. C(Since(l)) <= Spent(i) + e /\ C(Past) <= Spent(i) + e + Limit
        BY <1>11, <2>2 DEF UpperInv, Count, C
      <3> HIDE DEF e
      <3> QED
        BY <1>0, <1>4, <1>5, <1>8, <1>11, <3>1
    <2>3. ASSUME l > Window
          PROVE  /\ D(Past) <= Spent(i) + e /\ D(Past) <= Spent(i) + e + Limit
                 /\ l - 1 <= Window => D(Since(l - 1)) <= Spent(i) + e
      <3>1. C(Past) <= Spent(i) + e
        BY <1>11, <2>3 DEF UpperInv, Count, C
      <3>2. l - 1 <= Window => D(Since(l - 1)) = 0
        <4> SUFFICES ASSUME l - 1 <= Window
                     PROVE  D(Since(l - 1)) = 0
          OBVIOUS
        <4>1. Since(l - 1) = {0}
          BY <1>0, <2>3 DEF Since, Past
        <4> QED
          BY <1>2, <4>1 DEF D, Count
      <3> HIDE DEF e
      <3> QED
        BY <1>0, <1>4, <1>8, <3>1, <3>2
    <2>4. UpperInv(i)'
      <3>1. CASE l <= Window
        BY <1>0, <1>1, <1>7, <1>11, <2>1, <2>2, <3>1 DEF UpperInv
      <3>2. CASE l > Window
        BY <1>0, <1>1, <1>2, <1>7, <1>11, <2>1, <2>3, <3>2 DEF UpperInv
      <3> QED
        BY <1>0, <3>1, <3>2
    <2>5. LowerInv(i)'
      <3> SUFFICES ASSUME kind # "relay", l > 1, ~(l - 1 + steady' <= Window + b)
                   PROVE  Spent(i) <= D(Since(l - 1))
        BY <1>0, <1>1, <1>7, <1>11, <2>1 DEF LowerInv
      <3>1. ~(l + steady <= Window + b)
        <4>1. CASE steady = Settled
          <5>1. Settled >= Window + b /\ Settled \in Nat
            <6>1. jumps \in Nat /\ MaxJumps \in Nat /\ jumps <= MaxJumps /\ MaxBack \in Nat
              BY <1>0, LimitAssumption DEF LimiterTypeOK
            <6>2. jumps * MaxBack <= MaxJumps * MaxBack /\ MaxJumps * MaxBack \in Nat
              BY <6>1
            <6> QED
              BY <1>0, <6>2 DEF Settled
          <5> HIDE DEF b
          <5> QED
            BY <1>0, <4>1, <5>1
        <4>2. CASE steady # Settled
          <5> HIDE DEF b
          <5> QED
            BY <1>0, <4>2
        <4> QED
          BY <4>1, <4>2
      <3>2. Spent(i) <= C(Since(l))
        BY <1>0, <1>11, <3>1 DEF LowerInv, Count, C
      <3> QED
        BY <1>0, <1>6, <1>8, <3>2
    <2> QED
      BY <2>4, <2>5
  <1> QED
    BY <1>0, <1>9, <1>10, <1>11

\* The clock is set back by k: every window ends later, or is running again.
LEMMA BackBucket ==
  ASSUME LimiterTypeOK, LimiterTypeOK', NEW i \in Id, UpperInv(i), LowerInv(i),
         NEW k \in 1..MaxBack, NEW again \in 0..k,
         tracked' = tracked, used'[i] = used[i], recent'[i] = recent[i],
         left'[i] = IF i \notin tracked THEN 0
                    ELSE IF left[i] = 0 THEN again ELSE left[i] + k,
         jumps' = jumps + 1, kind' = kind, steady' = 0
  PROVE  UpperInv(i)' /\ LowerInv(i)'
  <1> DEFINE e == jumps * Limit
             b == jumps * MaxBack
             f == recent[i]
             l == left[i]
             m == left'[i]
             C(A) == Cardinality(Units(f, A))
  <1>0. /\ used[i] \in Nat /\ l \in Nat /\ f \in [Past -> Nat]
        /\ jumps \in Nat /\ steady \in Nat /\ Limit \in Nat /\ Window \in Nat /\ Window >= 1
        /\ 0 \in Past /\ e \in Nat /\ b \in Nat /\ Spent(i) \in Nat /\ Spent(i) <= Limit
        /\ MaxBack \in Nat /\ k \in Nat /\ k <= MaxBack /\ again \in Nat /\ again <= k
        /\ l <= Window + b
    BY BucketTypes, LimitAssumption DEF LimiterTypeOK
  <1>1. jumps' * Limit = e + Limit /\ jumps' * MaxBack = b + MaxBack
    BY <1>0
  <1>2. Spent(i)' = Spent(i) /\ \A A : Count(i, A)' = C(A)
    BY DEF Spent, Count
  <1>3. \A A, B \in SUBSET Past : A \subseteq B => C(A) \in Nat /\ C(A) <= C(B)
    BY <1>0, UnitsFinite, UnitsMono
  <1>4. i \in tracked => m \in Nat /\ Since(l) \in SUBSET Past /\ Since(m) \in SUBSET Past /\ l <= m
    BY <1>0 DEF Since
  <1>5. Past \in SUBSET Past /\ {0} \in SUBSET Past /\ C(Past) \in Nat /\ C({0}) \in Nat /\ C({0}) <= C(Past)
    BY <1>0, <1>3
  <1> HIDE DEF C
  <1>6. CASE i \notin tracked
    <2>1. l = 0 /\ m = 0 /\ used[i] = 0 /\ C(Past) <= e + Limit
      BY <1>6 DEF UpperInv, Count, C
    <2>2. C(Past) <= (e + Limit) + Limit
      <3> HIDE DEF e
      <3> QED
        BY <1>0, <1>5, <2>1
    <2> QED
      BY <1>0, <1>1, <1>2, <1>6, <2>1, <2>2 DEF UpperInv, LowerInv
  <1>7. CASE i \in tracked
    <2>1. m \in Nat /\ l <= m /\ (l = 0 => m = again) /\ (l # 0 => m = l + k)
      BY <1>0, <1>7
    <2>2. /\ Since(m) \in SUBSET Past /\ Since(l) \in SUBSET Past /\ Since(m) \subseteq Since(l)
          /\ C(Since(m)) \in Nat /\ C(Since(l)) \in Nat /\ C(Since(m)) <= C(Since(l))
      <3>1. Since(m) \in SUBSET Past /\ Since(l) \in SUBSET Past /\ Since(m) \subseteq Since(l)
        <4>1. l \in Nat /\ m \in Nat /\ l <= m /\ Window \in Nat
          BY <1>0, <2>1
        <4>2. \A a \in Past : a \in Nat
          BY DEF Past
        <4> HIDE DEF l, m
        <4>3. \A a \in Past : a + m <= Window => a + l <= Window
          BY <4>1, <4>2
        <4> QED
          BY <4>3 DEF Since
      <3> QED
        BY <1>3, <3>1
    <2>3. C(Past) <= Spent(i) + e + Limit
      <3>1. CASE l <= Window
        BY <1>7, <3>1 DEF UpperInv, Count, C
      <3>2. CASE l > Window
        <4>1. C(Past) <= Spent(i) + e
          BY <1>7, <3>2 DEF UpperInv, Count, C
        <4> HIDE DEF e
        <4> QED
          BY <1>0, <1>5, <4>1
      <3> QED
        BY <1>0, <3>1, <3>2
    <2>4. m <= Window => C(Since(m)) <= Spent(i) + e
      <3> SUFFICES ASSUME m <= Window
                   PROVE  C(Since(m)) <= Spent(i) + e
        OBVIOUS
      <3>1. l <= Window
        BY <1>0, <2>1
      <3>2. C(Since(l)) <= Spent(i) + e
        BY <1>7, <3>1 DEF UpperInv, Count, C
      <3> HIDE DEF e
      <3> QED
        BY <1>0, <2>2, <3>2
    <2>5. m > Window => C({0}) <= e + Limit
      <3> SUFFICES ASSUME m > Window
                   PROVE  C({0}) <= e + Limit
        OBVIOUS
      <3>1. CASE l <= Window
        <4>1. C(Since(l)) <= Spent(i) + e
          BY <1>7, <3>1 DEF UpperInv, Count, C
        <4>2. {0} \subseteq Since(l)
          BY <1>0, <3>1, SinceIs
        <4>3. C({0}) <= C(Since(l))
          BY <1>3, <1>5, <2>2, <4>2
        <4> HIDE DEF e
        <4> QED
          BY <1>0, <1>5, <2>2, <4>1, <4>3
      <3>2. CASE l > Window
        <4>1. C({0}) <= e
          BY <1>7, <3>2 DEF UpperInv, Count, C
        <4> HIDE DEF e
        <4> QED
          BY <1>0, <1>5, <4>1
      <3> QED
        BY <1>0, <3>1, <3>2
    <2>6. recent[i][0] = 0 \/ m # 0
      BY <1>0, <2>1 DEF UpperInv
    <2>7. /\ m <= Window => /\ C(Since(m)) <= Spent(i) + (e + Limit)
                            /\ C(Past) <= Spent(i) + (e + Limit) + Limit
          /\ m > Window => C(Past) <= Spent(i) + (e + Limit)
      <3> HIDE DEF e
      <3> QED
        BY <1>0, <1>5, <2>2, <2>3, <2>4
    <2>8. UpperInv(i)'
      BY <1>1, <1>2, <1>7, <2>5, <2>6, <2>7 DEF UpperInv
    <2>9. m + 0 <= Window + (b + MaxBack)
      <3> HIDE DEF b
      <3> QED
        BY <1>0, <2>1
    <2> QED
      BY <1>1, <2>8, <2>9 DEF LowerInv
  <1> QED
    BY <1>6, <1>7


\* prune_expired forgets a bucket whose window has elapsed.
LEMMA PruneBucket ==
  ASSUME LimiterTypeOK, NEW i \in Id, UpperInv(i),
         i \in tracked, left[i] = 0, i \notin tracked', used'[i] = 0,
         left' = left, recent' = recent, jumps' = jumps
  PROVE  UpperInv(i)' /\ LowerInv(i)'
  <1> DEFINE e == jumps * Limit
  <1>1. /\ Limit \in Nat /\ Window \in Nat /\ e \in Nat /\ Spent(i) \in Nat /\ Spent(i) <= Limit
    BY BucketTypes
  <1>2. Count(i, Past) \in Nat
    <2>1. Past \in SUBSET Past
      OBVIOUS
    <2> QED
      BY <2>1, CountType
  <1>3. Count(i, Past) <= Spent(i) + e
    BY <1>1, SinceIs DEF UpperInv
  <1>4. Count(i, Past) <= e + Limit
    <2> HIDE DEF e
    <2> QED
      BY <1>1, <1>2, <1>3
  <1>5. Count(i, Past)' = Count(i, Past)
    BY DEF Count
  <1> QED
    BY <1>4, <1>5 DEF UpperInv, LowerInv

\* A request of one client, whichever of the limiters answers it.
LEMMA ChargeStep ==
  ASSUME LimiterInv, NEW i \in Id, NEW x \in Nat, NEW n \in Nat,
         (n = x /\ Used(i) + n <= Limit) \/ n = 0,
         kind # "relay" /\ n # x => Used(i) >= Limit,
         Used(i) + x <= MaxUsed, Charge(i, x), kind' = kind, UNCHANGED clock,
         recent' = [recent EXCEPT ![i] = [recent[i] EXCEPT ![0] = recent[i][0] + n]]
  PROVE  LimiterInv'
  <1> USE DEF clock
  <1>1. LimiterTypeOK
    BY DEF LimiterInv
  <1>2. /\ used[i] \in Nat /\ left[i] \in Nat /\ recent[i] \in [Past -> Nat]
        /\ jumps \in Nat /\ steady \in Nat /\ Limit \in Nat /\ Window \in Nat
        /\ 0 \in Past /\ recent[i][0] \in Nat /\ jumps * MaxBack \in Nat
    BY <1>1, BucketTypes
  <1>3. LimiterTypeOK'
    <2>1. tracked' \subseteq Id /\ kind' \in Kinds /\ jumps' \in 0..MaxJumps /\ steady' \in 0..Settled
      BY <1>1 DEF LimiterTypeOK, Charge
    <2>2. used' \in [Id -> 0..MaxUsed]
      <3>1. Used(i) \in Nat /\ Used(i) + x \in 0..MaxUsed
        BY <1>2, LimitAssumption DEF Used
      <3> QED
        BY <1>1, <3>1 DEF LimiterTypeOK, Charge
    <2>3. left' \in [Id -> 0..(Window + jumps * MaxBack)]
      <3> DEFINE b == jumps * MaxBack
      <3>1. Window \in 0..(Window + b) /\ left \in [Id -> 0..(Window + b)]
        <4>1. b \in Nat
          BY <1>2
        <4> HIDE DEF b
        <4>2. Window \in 0..(Window + b)
          BY <1>2, <4>1
        <4> QED
          BY <1>1, <4>2 DEF LimiterTypeOK, b
      <3> HIDE DEF b
      <3>2. left' \in [Id -> 0..(Window + b)]
        BY <3>1 DEF Charge
      <3> QED
        BY <3>2 DEF b
    <2>4. recent' \in [Id -> [Past -> Nat]]
      BY <1>1, <1>2 DEF LimiterTypeOK
    <2> QED
      BY <2>1, <2>2, <2>3, <2>4 DEF LimiterTypeOK
  <1>4. ASSUME NEW j \in Id
        PROVE  UpperInv(j)' /\ LowerInv(j)'
    <2>1. UpperInv(j) /\ LowerInv(j)
      BY DEF LimiterInv
    <2>2. CASE j = i
      <3>1. /\ i \in tracked' /\ used'[i] = Used(i) + x
            /\ left'[i] = IF Fresh(i) THEN Window ELSE left[i]
            /\ recent'[i] = [recent[i] EXCEPT ![0] = recent[i][0] + n]
        BY <1>1 DEF LimiterTypeOK, Charge
      <3>2. jumps' = jumps /\ steady' = steady
        OBVIOUS
      <3>3. UpperInv(i) /\ LowerInv(i)
        BY <2>1, <2>2
      <3>4. UpperInv(i)' /\ LowerInv(i)'
        BY <1>1, <1>3, <3>1, <3>2, <3>3, ChargeInv
      <3> QED
        BY <2>2, <3>4
    <2>3. CASE j # i
      <3>1. /\ j \in tracked' <=> j \in tracked
            /\ used'[j] = used[j] /\ left'[j] = left[j] /\ recent'[j] = recent[j]
        BY <1>1, <2>3 DEF LimiterTypeOK, Charge
      <3>2. jumps' = jumps /\ steady' = steady
        OBVIOUS
      <3> QED
        BY <1>1, <2>1, <3>1, <3>2, BucketSame
    <2> QED
      BY <2>2, <2>3
  <1> QED
    BY <1>3, <1>4 DEF LimiterInv

\* A refused request leaves the history as it is.
LEMMA NoneAllowed ==
  ASSUME LimiterTypeOK, NEW i \in Id
  PROVE  recent = [recent EXCEPT ![i] = [recent[i] EXCEPT ![0] = recent[i][0] + 0]]
  <1>1. recent \in [Id -> [Past -> Nat]] /\ recent[i] \in [Past -> Nat] /\ recent[i][0] \in Nat
    BY BucketTypes DEF LimiterTypeOK
  <1>2. recent[i][0] + 0 = recent[i][0]
    BY <1>1
  <1>3. [recent[i] EXCEPT ![0] = recent[i][0]] = recent[i]
    BY <1>1
  <1> QED
    BY <1>1, <1>2, <1>3

\* The windows count down.
LEMMA TickStep ==
  ASSUME LimiterInv, Tick
  PROVE  LimiterInv'
  <1>1. LimiterTypeOK
    BY DEF LimiterInv
  <1>2. \A i \in Id : /\ left'[i] = IF left[i] = 0 THEN 0 ELSE left[i] - 1
                      /\ recent'[i] = Later(recent[i])
                      /\ used'[i] = used[i]
    BY DEF Tick, Later
  <1>3. LimiterTypeOK'
    <2>1. recent' \in [Id -> [Past -> Nat]]
      <3>1. \A i \in Id : Later(recent[i]) \in [Past -> Nat]
        BY <1>1, LaterType DEF LimiterTypeOK
      <3>2. recent' = [i \in Id |-> Later(recent[i])]
        BY DEF Tick, Later
      <3> QED
        BY <3>1, <3>2
    <2>2. left' \in [Id -> 0..(Window + jumps * MaxBack)]
      <3> DEFINE T == Window + jumps * MaxBack
      <3>1. left \in [Id -> 0..T] /\ T \in Int
        <4>1. Window \in Nat /\ jumps \in Nat /\ MaxBack \in Nat
          BY <1>1, LimitAssumption DEF LimiterTypeOK
        <4>2. jumps * MaxBack \in Nat
          BY <4>1
        <4> QED
          BY <1>1, <4>1, <4>2 DEF LimiterTypeOK
      <3> HIDE DEF T
      <3>2. ASSUME NEW i \in Id
            PROVE  left'[i] \in 0..T
        <4>1. left[i] \in 0..T
          BY <3>1
        <4> QED
          BY <1>2, <3>1, <4>1
      <3>3. left' \in [Id -> 0..T]
        BY <3>2 DEF Tick
      <3> QED
        BY <3>3 DEF T
    <2>3. steady' \in 0..Settled
      <3>1. steady \in 0..Settled
        BY <1>1 DEF LimiterTypeOK
      <3>2. Settled \in Nat
        <4>1. Window \in Nat /\ MaxJumps \in Nat /\ MaxBack \in Nat
          BY LimitAssumption
        <4>2. MaxJumps * MaxBack \in Nat
          BY <4>1
        <4> QED
          BY <4>1, <4>2 DEF Settled
      <3> QED
        BY <3>1, <3>2 DEF Tick
    <2> QED
      BY <1>1, <2>1, <2>2, <2>3 DEF LimiterTypeOK, Tick
  <1>4. ASSUME NEW i \in Id
        PROVE  UpperInv(i)' /\ LowerInv(i)'
    <2>1. UpperInv(i) /\ LowerInv(i)
      BY DEF LimiterInv
    <2>2. /\ tracked' = tracked /\ jumps' = jumps /\ kind' = kind
          /\ steady' = IF steady = Settled THEN Settled ELSE steady + 1
      BY DEF Tick
    <2>3. /\ left'[i] = IF left[i] = 0 THEN 0 ELSE left[i] - 1
          /\ recent'[i] = Later(recent[i]) /\ used'[i] = used[i]
      BY <1>2
    <2> QED
      BY <1>1, <1>3, <2>1, <2>2, <2>3, TickBucket
  <1> QED
    BY <1>3, <1>4 DEF LimiterInv

\* The wall clock is set back.
LEMMA BackStep ==
  ASSUME LimiterInv, NEW k \in 1..MaxBack, SetBack(k)
  PROVE  LimiterInv'
  <1>1. LimiterTypeOK
    BY DEF LimiterInv
  <1>2. PICK again \in [Id -> 0..k] :
          left' = [i \in Id |-> IF i \notin tracked THEN 0
                               ELSE IF left[i] = 0 THEN again[i] ELSE left[i] + k]
    BY DEF SetBack
  <1>3. LimiterTypeOK'
    <2> DEFINE b == jumps * MaxBack
    <2>1. /\ jumps \in Nat /\ jumps < MaxJumps /\ MaxJumps \in Nat /\ MaxBack \in Nat /\ Window \in Nat
          /\ k \in Nat /\ k <= MaxBack
      BY <1>1, LimitAssumption DEF LimiterTypeOK, SetBack
    <2>2. b \in Nat /\ jumps' * MaxBack = b + MaxBack
      BY <2>1 DEF SetBack
    <2>3. left \in [Id -> 0..(Window + b)]
      BY <1>1 DEF LimiterTypeOK
    <2> HIDE DEF b
    <2>4. left' \in [Id -> 0..(Window + (b + MaxBack))]
      <3> SUFFICES ASSUME NEW i \in Id
                   PROVE  left'[i] \in 0..(Window + (b + MaxBack))
        BY <1>2
      <3>1. left[i] \in Nat /\ left[i] <= Window + b /\ again[i] \in Nat /\ again[i] <= k
        BY <2>1, <2>2, <2>3
      <3> QED
        BY <1>2, <2>1, <2>2, <3>1
    <2>5. left' \in [Id -> 0..(Window + jumps' * MaxBack)]
      BY <2>2, <2>4
    <2>6. jumps' \in 0..MaxJumps /\ steady' \in 0..Settled
      <3>1. MaxJumps * MaxBack \in Nat
        BY <2>1
      <3>2. Settled \in Nat
        BY <2>1, <3>1 DEF Settled
      <3> QED
        BY <2>1, <3>2 DEF SetBack
    <2> QED
      BY <1>1, <2>5, <2>6 DEF LimiterTypeOK, SetBack
  <1>4. ASSUME NEW i \in Id
        PROVE  UpperInv(i)' /\ LowerInv(i)'
    <2>1. UpperInv(i) /\ LowerInv(i)
      BY DEF LimiterInv
    <2>2. /\ tracked' = tracked /\ used'[i] = used[i] /\ recent'[i] = recent[i]
          /\ jumps' = jumps + 1 /\ kind' = kind /\ steady' = 0
      BY DEF SetBack
    <2>3. again[i] \in 0..k
      OBVIOUS
    <2>4. left'[i] = IF i \notin tracked THEN 0
                     ELSE IF left[i] = 0 THEN again[i] ELSE left[i] + k
      BY <1>2
    <2> QED
      BY <1>1, <1>3, <2>1, <2>2, <2>3, <2>4, BackBucket
  <1> QED
    BY <1>3, <1>4 DEF LimiterInv

\* prune_expired keeps the other buckets.
LEMMA PruneStep ==
  ASSUME LimiterInv, Prune
  PROVE  LimiterInv'
  <1>1. LimiterTypeOK
    BY DEF LimiterInv
  <1>2. LimiterTypeOK'
    <2>1. used' \in [Id -> 0..MaxUsed]
      BY <1>1, LimitAssumption DEF LimiterTypeOK, Prune
    <2> QED
      BY <1>1, <2>1 DEF LimiterTypeOK, Prune, clock
  <1>3. ASSUME NEW i \in Id
        PROVE  UpperInv(i)' /\ LowerInv(i)'
    <2>1. UpperInv(i) /\ LowerInv(i)
      BY DEF LimiterInv
    <2>2. left' = left /\ recent' = recent /\ jumps' = jumps /\ steady' = steady /\ kind' = kind
      BY DEF Prune, clock
    <2>3. CASE i \in tracked /\ left[i] = 0
      <3>1. i \notin tracked' /\ used'[i] = 0
        BY <2>3 DEF Prune
      <3> QED
        BY <1>1, <2>1, <2>2, <2>3, <3>1, PruneBucket
    <2>4. CASE ~(i \in tracked /\ left[i] = 0)
      <3>1. (i \in tracked' <=> i \in tracked) /\ used'[i] = used[i]
        BY <2>4 DEF Prune
      <3>2. left'[i] = left[i] /\ recent'[i] = recent[i]
        BY <2>2
      <3> QED
        BY <1>1, <2>1, <2>2, <3>1, <3>2, BucketSame
    <2> QED
      BY <2>3, <2>4
  <1> QED
    BY <1>2, <1>3 DEF LimiterInv

\* What a bucket counts is a number within the bound.
LEMMA UsedType ==
  ASSUME LimiterTypeOK, NEW i \in Id
  PROVE  /\ Used(i) \in Nat /\ Used(i) <= MaxUsed /\ MaxUsed \in Nat /\ Limit \in Nat
         /\ Limit < MaxUsed /\ Costs \subseteq Nat
  <1>1. used[i] \in 0..MaxUsed /\ MaxUsed \in Nat /\ Limit \in Nat /\ Limit < MaxUsed /\ Bytes \subseteq Nat
    BY LimitAssumption DEF LimiterTypeOK
  <1>2. Used(i) \in Nat /\ Used(i) <= MaxUsed
    BY <1>1 DEF Used
  <1>3. Costs \subseteq Nat
    BY <1>1 DEF Costs
  <1> QED
    BY <1>1, <1>2, <1>3

\* The invariant holds at first.
LEMMA LimiterStart ==
  ASSUME LimiterInit
  PROVE  LimiterInv
  <1>1. LimiterTypeOK
    <2>1. /\ Window \in Nat /\ Window >= 1 /\ MaxJumps \in Nat /\ MaxBack \in Nat /\ MaxUsed \in Nat
          /\ MaxJumps * MaxBack \in Nat /\ 0 * MaxBack = 0
      BY LimitAssumption
    <2>2. Settled \in Nat
      BY <2>1 DEF Settled
    <2>3. Window + jumps * MaxBack = Window
      BY <2>1 DEF LimiterInit
    <2> QED
      BY <2>1, <2>2, <2>3 DEF LimiterInit, LimiterTypeOK
  <1>2. ASSUME NEW i \in Id
        PROVE  UpperInv(i) /\ LowerInv(i)
    <2>1. /\ tracked = {} /\ left[i] = 0 /\ used[i] = 0 /\ recent[i] = [a \in Past |-> 0]
      BY DEF LimiterInit
    <2>2. Units(recent[i], Past) = {}
      <3>1. \A a \in Past : recent[i][a] = 0 /\ 1..recent[i][a] = {}
        BY <2>1
      <3> QED
        BY <3>1 DEF Units
    <2>3. Count(i, Past) = 0
      BY <2>2, FS_EmptySet DEF Count
    <2>4. recent[i][0] = 0 /\ jumps * Limit \in Nat /\ Limit \in Nat
      BY <1>1, <2>1, BucketTypes
    <2>5. 0 <= jumps * Limit + Limit
      BY <2>4
    <2> QED
      BY <2>1, <2>3, <2>4, <2>5 DEF UpperInv, LowerInv
  <1> QED
    BY <1>1, <1>2 DEF LimiterInv

\* Every step keeps the invariant.
LEMMA LimiterStep ==
  ASSUME LimiterInv, [LimiterNext]_limiterVars
  PROVE  LimiterInv'
  <1>0. LimiterTypeOK
    BY DEF LimiterInv
  <1>1. ASSUME NEW i \in Id, NEW n \in Costs, Allow(i, n)
        PROVE  LimiterInv'
    <2>1. /\ Used(i) \in Nat /\ Used(i) <= MaxUsed /\ MaxUsed \in Nat /\ Limit \in Nat
          /\ Limit < MaxUsed /\ n \in Nat
      BY <1>0, UsedType
    <2>2. CASE Admits(i, n) /\ Allowed(i, n)
      <3>1. Used(i) + n <= Limit /\ Used(i) + n <= MaxUsed
        BY <2>1, <2>2 DEF Admits
      <3>2. /\ Charge(i, n) /\ kind' = kind /\ UNCHANGED clock
            /\ recent' = [recent EXCEPT ![i] = [recent[i] EXCEPT ![0] = recent[i][0] + n]]
        BY <2>2 DEF Allowed
      <3> QED
        BY <2>1, <3>1, <3>2, ChargeStep
    <2>3. CASE ~Admits(i, n) /\ Refused(i, 0)
      <3>1. Used(i) + 0 <= MaxUsed /\ 0 \in Nat
        BY <2>1
      <3>2. /\ Charge(i, 0) /\ kind' = kind /\ UNCHANGED clock
            /\ recent' = [recent EXCEPT ![i] = [recent[i] EXCEPT ![0] = recent[i][0] + 0]]
        BY <1>0, <2>3, NoneAllowed DEF Refused
      <3> QED
        BY <3>1, <3>2, ChargeStep
    <2> QED
      BY <1>1, <2>2, <2>3 DEF Allow
  <1>2. ASSUME NEW i \in Id, NEW n \in Costs, Record(i, n)
        PROVE  LimiterInv'
    <2>1. n \in Nat /\ 0 \in Nat
      BY <1>0, UsedType
    <2>2. /\ Charge(i, n) /\ kind' = kind /\ UNCHANGED clock
          /\ recent' = [recent EXCEPT ![i] = [recent[i] EXCEPT ![0] = recent[i][0] + 0]]
      BY <1>0, <1>2, NoneAllowed DEF Record
    <2>3. kind = "relay" /\ Used(i) + n <= MaxUsed
      BY <1>2 DEF Record
    <2> QED
      BY <2>1, <2>2, <2>3, ChargeStep
  <1>3. ASSUME NEW i \in Id, CheckRateLimit(i)
        PROVE  LimiterInv'
    <2>1. /\ Used(i) \in Nat /\ Used(i) <= MaxUsed /\ MaxUsed \in Nat /\ Limit \in Nat
          /\ Limit < MaxUsed
      BY <1>0, UsedType
    <2>2. CASE Admits(i, 1) /\ Allowed(i, 1)
      <3>1. Used(i) + 1 <= Limit /\ Used(i) + 1 <= MaxUsed /\ 1 \in Nat
        BY <2>1, <2>2 DEF Admits
      <3>2. /\ Charge(i, 1) /\ kind' = kind /\ UNCHANGED clock
            /\ recent' = [recent EXCEPT ![i] = [recent[i] EXCEPT ![0] = recent[i][0] + 1]]
        BY <2>2 DEF Allowed
      <3> QED
        BY <3>1, <3>2, ChargeStep
    <2>3. CASE ~Admits(i, 1) /\ Refused(i, IF Used(i) + 1 > MaxUsed THEN 0 ELSE 1)
      <3> DEFINE x == IF Used(i) + 1 > MaxUsed THEN 0 ELSE 1
      <3>1. x \in Nat /\ Used(i) + x <= MaxUsed /\ 0 \in Nat /\ Used(i) >= Limit
        BY <2>1, <2>3 DEF Admits
      <3>2. /\ Charge(i, x) /\ kind' = kind /\ UNCHANGED clock
            /\ recent' = [recent EXCEPT ![i] = [recent[i] EXCEPT ![0] = recent[i][0] + 0]]
        BY <1>0, <2>3, NoneAllowed DEF Refused
      <3> HIDE DEF x
      <3> QED
        BY <3>1, <3>2, ChargeStep
    <2> QED
      BY <1>3, <2>2, <2>3 DEF CheckRateLimit
  <1>4. ASSUME UNCHANGED limiterVars
        PROVE  LimiterInv'
    <2>1. /\ kind' = kind /\ tracked' = tracked /\ used' = used /\ left' = left
          /\ jumps' = jumps /\ steady' = steady /\ recent' = recent
      BY <1>4 DEF limiterVars, buckets, clock
    <2> QED
      BY <2>1 DEF LimiterInv, LimiterTypeOK, UpperInv, LowerInv, Count, Spent
  <1> QED
    BY <1>1, <1>2, <1>3, <1>4, PruneStep, TickStep, BackStep DEF LimiterNext

\* The inductive invariant of the limiters: what a bucket says was used is what
\* was allowed since its window started, as far as the clock can be trusted.
THEOREM BucketsInductive == LimiterSpec => []LimiterInv
  BY LimiterStart, LimiterStep, PTL DEF LimiterSpec

\* No more than two limits' worth, and one more for every time the clock was set
\* back, is let through in the time of a window, whatever the limiter, its limit
\* and its window.
THEOREM WindowsCorrect == LimiterSpec => []TwoWindowBound
  <1>1. LimiterInv => TwoWindowBound
    <2> SUFFICES ASSUME LimiterInv, NEW i \in Id
                 PROVE  LastWindow(i) <= (2 + jumps) * Limit
      BY DEF TwoWindowBound
    <2> DEFINE e == jumps * Limit
               c == Count(i, Past)
    <2>1. LimiterTypeOK /\ UpperInv(i)
      BY DEF LimiterInv
    <2>2. /\ Limit \in Nat /\ Window \in Nat /\ jumps \in Nat /\ e \in Nat /\ left[i] \in Nat
          /\ Spent(i) \in Nat /\ Spent(i) <= Limit
      BY <2>1, BucketTypes
    <2>3. c \in Nat
      <3>1. Past \in SUBSET Past
        OBVIOUS
      <3> QED
        BY <2>1, <3>1, CountType
    <2>4. c <= Spent(i) + e + Limit \/ c <= Spent(i) + e \/ c <= e + Limit
      BY <2>1, <2>2 DEF UpperInv
    <2>5. (2 + jumps) * Limit = e + Limit + Limit
      BY <2>2
    <2>6. c <= e + Limit + Limit
      <3> HIDE DEF e, c
      <3> QED
        BY <2>2, <2>3, <2>4
    <2> QED
      BY <2>5, <2>6 DEF LastWindow, Count
  <1> QED
    BY <1>1, BucketsInductive, PTL

\* A client is refused because of its own requests only, and for no longer than
\* the clock needs to catch up.
THEOREM OwnUseCorrect == LimiterSpec => []LimitedByOwnUse
  <1>1. LimiterInv => LimitedByOwnUse
    <2> SUFFICES ASSUME LimiterInv, kind # "relay", NEW i \in Id, ~Admits(i, 1), steady = Settled
                 PROVE  LastWindow(i) >= Limit
      <3>1. LimiterInv => steady \in Nat /\ Settled \in Nat /\ steady <= Settled
        <4>1. Window \in Nat /\ MaxJumps \in Nat /\ MaxBack \in Nat
          BY LimitAssumption
        <4>2. MaxJumps * MaxBack \in Nat
          BY <4>1
        <4>3. Settled \in Nat
          BY <4>1, <4>2 DEF Settled
        <4> QED
          BY <4>3 DEF LimiterInv, LimiterTypeOK
      <3> QED
        BY <3>1 DEF LimitedByOwnUse
    <2> DEFINE b == jumps * MaxBack
    <2>1. LimiterTypeOK /\ LowerInv(i)
      BY DEF LimiterInv
    <2>2. /\ Limit \in Nat /\ Window \in Nat /\ jumps \in Nat /\ b \in Nat /\ left[i] \in Nat
          /\ used[i] \in Nat /\ Spent(i) \in Nat
      BY <2>1, BucketTypes
    <2>3. CASE Limit = 0
      <3>1. LastWindow(i) \in Nat
        <4>1. Past \in SUBSET Past
          OBVIOUS
        <4> QED
          BY <2>1, <4>1, CountType DEF LastWindow, Count
      <3> QED
        BY <2>3, <3>1
    <2>4. CASE Limit # 0
      <3>1. ~Fresh(i) /\ used[i] >= Limit
        BY <2>2, <2>4 DEF Admits, Used
      <3>2. i \in tracked /\ left[i] > 0 /\ Spent(i) = Limit
        BY <2>2, <3>1 DEF Fresh, Spent
      <3>3. Settled \in Nat /\ Settled >= Window + b
        <4>1. jumps \in Nat /\ MaxJumps \in Nat /\ jumps <= MaxJumps /\ MaxBack \in Nat
          BY <2>1, LimitAssumption DEF LimiterTypeOK
        <4>2. jumps * MaxBack <= MaxJumps * MaxBack /\ MaxJumps * MaxBack \in Nat
          BY <4>1
        <4> QED
          BY <2>2, <4>2 DEF Settled
      <3>4. ~(left[i] + steady <= Window + b)
        <4> HIDE DEF b
        <4> QED
          BY <2>2, <3>2, <3>3
      <3>5. Limit <= Count(i, Since(left[i]))
        BY <2>1, <3>2, <3>4 DEF LowerInv
      <3>6. /\ Count(i, Since(left[i])) \in Nat /\ Count(i, Past) \in Nat
            /\ Count(i, Since(left[i])) <= Count(i, Past)
        <4>1. Since(left[i]) \in SUBSET Past /\ Past \in SUBSET Past
          BY DEF Since
        <4> QED
          BY <2>1, <4>1, CountType
      <3> QED
        BY <2>2, <3>5, <3>6 DEF LastWindow, Count
    <2> QED
      BY <2>3, <2>4
  <1> QED
    BY <1>1, BucketsInductive, PTL

\* remaining and allow agree about the next request, and prune_expired changes
\* neither.
THEOREM AnswersCorrect == LimiterSpec => AnswersAgree
  <1>1. LimiterInv => RemainingExact
    <2> SUFFICES ASSUME LimiterInv, NEW i \in Id, NEW n \in Costs \ {0}
                 PROVE  n <= Remaining(i) <=> Admits(i, n)
      BY DEF RemainingExact
    <2>1. LimiterTypeOK
      BY DEF LimiterInv
    <2>2. n \in Nat /\ n # 0 /\ Limit \in Nat
      BY <2>1, UsedType
    <2>3. used[i] \in Nat
      BY <2>1, BucketTypes
    <2> QED
      BY <2>2, <2>3 DEF Remaining, Admits, Used
  <1>2. ASSUME LimiterInv, Prune
        PROVE  \A i \in Id : Remaining(i)' = Remaining(i) /\ (Fresh(i) \/ left'[i] = left[i])
    <2> SUFFICES ASSUME NEW i \in Id
                 PROVE  Remaining(i)' = Remaining(i) /\ (Fresh(i) \/ left'[i] = left[i])
      OBVIOUS
    <2>1. left' = left
      BY <1>2 DEF Prune
    <2>2. CASE i \in tracked /\ left[i] = 0
      <3>1. i \notin tracked'
        BY <1>2, <2>2 DEF Prune
      <3> QED
        BY <2>1, <2>2, <3>1 DEF Remaining, Fresh
    <2>3. CASE ~(i \in tracked /\ left[i] = 0)
      <3>1. (i \in tracked' <=> i \in tracked) /\ used'[i] = used[i]
        BY <1>2, <2>3 DEF Prune
      <3> QED
        BY <2>1, <3>1 DEF Remaining, Fresh
    <2> QED
      BY <2>2, <2>3
  <1>3. LimiterInv => (Prune => \A i \in Id : Remaining(i)' = Remaining(i)
                                              /\ (Fresh(i) \/ left'[i] = left[i]))
    BY <1>2
  <1> QED
    BY <1>1, <1>3, BucketsInductive, PTL DEF AnswersAgree, PruneInvisible
=============================================================================
