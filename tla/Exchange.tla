------------------------------ MODULE Exchange ------------------------------
(***************************************************************************)
(* What two nodes exchange when one dials the other: src/node/server.rs    *)
(* (connect_to_peer, handle_messages), src/node/announce.rs,               *)
(* src/scraper/replicate.rs and src/proto/frame.rs, with the Tier 2 table  *)
(* of announcements (src/storage/mod.rs, src/storage/records.rs).          *)
(*                                                                         *)
(* The dialling node announces the first records of its store and then     *)
(* pushes the first few; it reads no answer and ignores the acks.  The     *)
(* other node reads frames, a header and then a body, inside a select!     *)
(* with a timer that drops the read under way together with the bytes it   *)
(* had consumed, any number of them.  The next read takes what is left of  *)
(* the frame for a header.  Text never passes as one (its length field is  *)
(* too large), but the last bytes of the header of a push of 64 KiB or     *)
(* more may, with a length of their own; and dropped reads can also take   *)
(* the rest of a frame to its end.                                         *)
(*                                                                         *)
(* Store.tla has the transactions of Tier 3 in detail; here an insert, a   *)
(* delete and a sweep of the records of one node are one step each.        *)
(***************************************************************************)
EXTENDS Naturals, Sequences, FiniteSets, SequencesExt

CONSTANTS
    Node,           \* the two nodes, each with its own key and store
    Dialers,        \* those that have the other one as a bootstrap peer
    CliRecs,        \* records inserted and announced by the CLI while no node ran
    Addressed,      \* records whose id is the hash of their content
    Rec,            \* records, numbered in the order of their ids
    SourceOf,       \* source_hash of each record
    CreatedAt,      \* created_at of each record
    ExpiresAt,      \* expires_at of each record; 0 is "never"
    Base,           \* size of the announcement of each record without its sig
    SigSize,        \* size of a signature
    MaxAnnSize,     \* MAX_ANNOUNCEMENT_SIZE
    AnnounceLimit, PushLimit,   \* how many records are announced and pushed
    Day,            \* 86400 seconds, in ticks
    MaxTime, MaxRequests,   \* bounds of the clock, and of the dials and local requests
    NoNode          \* no node

ASSUME RecAssumption ==
    /\ Rec \subseteq Nat /\ IsFiniteSet(Rec)
    /\ CreatedAt \in [Rec -> Nat] /\ ExpiresAt \in [Rec -> Nat] /\ Base \in [Rec -> Nat]
    /\ DOMAIN SourceOf = Rec
ASSUME BoundAssumption ==
    /\ {SigSize, MaxAnnSize, AnnounceLimit, PushLimit, Day} \subseteq Nat
    /\ {MaxTime, MaxRequests} \subseteq Nat
ASSUME NodeAssumption ==
    /\ Dialers \subseteq Node /\ CliRecs \subseteq Rec /\ Addressed \subseteq Rec
    /\ Cardinality(Node) = 2 /\ NoNode \notin Node

\* handle_announce_record and the CLI announce under this address, whatever the
\* node listens on.
Local == "127.0.0.1:7744"

VARIABLES
    now,
    held,       \* held[n]: records in the store of n
    signer,     \* signer[n][r]: the node whose signature the copy carries
    anns,       \* anns[n]: announcements in the store of n, one per record and holder
    sweep,      \* sweep[n]: keys collected by a sweep of n, or {} between sweeps
    dialer,     \* the node that dialled, NoNode without a connection
    stage,      \* progress of connect_to_peer
    out,        \* messages connect_to_peer has yet to send
    wire,       \* frames on their way, the first one perhaps consumed in part
    reader,     \* what read_frame waits for: a header, a body, or the bytes
                \* that stray bytes taken for a header announce
    interrupted,   \* history: the timer has dropped a read in mid-frame
    sent, handled,    \* history: messages written and messages handled, in order
    pushed,     \* history: records pushed over this connection
    missed,     \* history: sources the acceptor refused or removed meanwhile
    makers,     \* history: makers[r]: nodes that made r, or got it unsigned
    requests

Clock    == <<now>>
Tables   == <<held, signer, anns, sweep>>
Link     == <<dialer, stage, out, wire, reader, interrupted, sent, handled, pushed>>
History  == <<missed, makers>>
vars     == <<Clock, Tables, Link, History, requests>>

Msg == [type : {"announce", "push"}, record : Rec, sig : Node \cup {NoNode}]
\* The next byte of a frame is its first one, or lies in its header or body.
Frame == [from : {"start", "header", "body"}, msg : Msg]
Key == Rec \X (Node \cup {Local})
Ann == [key : Key, expires_at : Nat, sig : Node \cup {NoNode}]

Connected == dialer # NoNode
acceptor  == CHOOSE n \in Node : n # dialer

TypeOK ==
    /\ now \in 0..MaxTime
    /\ held \in [Node -> SUBSET Rec]
    /\ signer \in [Node -> [Rec -> Node \cup {NoNode}]]
    /\ anns \in [Node -> SUBSET Ann]
    /\ sweep \in [Node -> SUBSET Key]
    /\ dialer \in Node \cup {NoNode}
    /\ stage \in {"none", "announcing", "pushing"}
    /\ out \in Seq(Msg) /\ wire \in Seq(Frame)
    /\ reader \in {"header", "body", "stray"} /\ interrupted \in BOOLEAN
    /\ sent \in Seq(Msg) /\ handled \in Seq(Msg) /\ pushed \subseteq Rec
    /\ missed \subseteq {SourceOf[r] : r \in Rec}
    /\ makers \in [Rec -> SUBSET Node]
    /\ requests \in 0..MaxRequests

OneVersion(S) == \A r, q \in S : SourceOf[r] = SourceOf[q] => r = q

\* The expiry of an announcement made by a command or a request: a permanent
\* record is announced for a day.
AnnouncedUntil(r) == IF ExpiresAt[r] = 0 THEN now + Day ELSE ExpiresAt[r]

\* A node comes up with what earlier runs left: records its own store signed,
\* and records that the CLI inserted and announced, without a key, while no
\* node ran.
Init ==
    /\ now = 0
    /\ held \in {h \in [Node -> SUBSET Rec] : \A n \in Node : OneVersion(h[n])}
    /\ signer = [n \in Node |-> [r \in Rec |-> IF r \in held[n] \ CliRecs THEN n ELSE NoNode]]
    /\ anns = [n \in Node |->
                 {[key |-> <<r, Local>>, expires_at |-> AnnouncedUntil(r), sig |-> NoNode] :
                     r \in held[n] \cap CliRecs}]
    /\ sweep = [n \in Node |-> {}]
    /\ dialer = NoNode /\ stage = "none"
    /\ out = <<>> /\ wire = <<>> /\ reader = "header" /\ interrupted = FALSE
    /\ sent = <<>> /\ handled = <<>> /\ pushed = {}
    /\ missed = {}
    /\ makers = [r \in Rec |-> {n \in Node : signer[n][r] = n}]
    /\ requests = 0
-----------------------------------------------------------------------------
(* The store of one node. *)

SameSource(n, r) == {q \in held[n] : SourceOf[q] = SourceOf[r]}

\* Plausible bug: a source that is known is never replaced.
SkippedKnown(n, r) == SameSource(n, r) # {}

\* records::insert_record: of two records of a source the newer one stays, the
\* one that is there if they are equally old.
Skipped(n, r) == \E q \in SameSource(n, r) : CreatedAt[q] >= CreatedAt[r]

\* Plausible bug: the store signs whatever it inserts.
SignatureOwn(n, sig) == n

\* Store::insert_record and insert_announcement sign what has no signature.
Signature(n, sig) == IF sig = NoNode THEN n ELSE sig

\* Store::insert_record of r, which carries the signature sig.
InsertRecord(n, r, sig) ==
    IF Skipped(n, r) THEN UNCHANGED <<held, signer, makers>>
    ELSE /\ held' = [held EXCEPT ![n] = (@ \ SameSource(n, r)) \cup {r}]
         /\ signer' = [signer EXCEPT ![n] =
                         [q \in Rec |-> IF q = r THEN Signature(n, sig)
                                        ELSE IF q \in SameSource(n, r) THEN NoNode ELSE @[q]]]
         /\ makers' = [makers EXCEPT ![r] = IF sig = NoNode THEN @ \cup {n} ELSE @]

\* Announcement::validate_size.
Fits(r, sig) == Base[r] + (IF sig = NoNode THEN 0 ELSE SigSize) <= MaxAnnSize

\* Store::insert_announcement signs first and measures then; the entry of the
\* same record and holder is overwritten, whatever its expiry.
InsertAnnouncement(n, k, expires, sig) ==
    anns' = IF Fits(k[1], Signature(n, sig))
            THEN [anns EXCEPT ![n] = {a \in @ : a.key # k} \cup
                    {[key |-> k, expires_at |-> expires, sig |-> Signature(n, sig)]}]
            ELSE anns
-----------------------------------------------------------------------------
(* Requests to one node. *)

\* The store of n loses records: the acceptor's promises about them end.
Missing(n, S) == missed' = IF n = acceptor /\ Connected THEN missed \cup S ELSE missed

\* Insert through the API or a scraper of a running node.
Insert(n, r) ==
    /\ requests < MaxRequests
    /\ requests' = requests + 1
    /\ InsertRecord(n, r, NoNode)
    /\ UNCHANGED <<Clock, anns, sweep, Link, missed>>

Delete(n, r) ==
    /\ requests < MaxRequests
    /\ r \in held[n]
    /\ requests' = requests + 1
    /\ held' = [held EXCEPT ![n] = @ \ {r}]
    /\ signer' = [signer EXCEPT ![n][r] = NoNode]
    /\ Missing(n, {SourceOf[r]})
    /\ UNCHANGED <<Clock, anns, sweep, Link, makers>>

\* handle_announce_record, for a record whose id verifies.
AnnounceLocal(n, r) ==
    /\ requests < MaxRequests
    /\ r \in held[n] \cap Addressed
    /\ requests' = requests + 1
    /\ InsertAnnouncement(n, <<r, Local>>, AnnouncedUntil(r), NoNode)
    /\ UNCHANGED <<Clock, held, signer, sweep, Link, History>>

\* Plausible bug: 0 means "never" for announcements as well.
StaleSome(n) == {a.key : a \in {b \in anns[n] : b.expires_at > 0 /\ b.expires_at < now}}

\* delete_expired_announcements, unlike delete_expired_records, makes no
\* exception for 0: a permanent record that a peer announced is stale at once.
Stale(n) == {a.key : a \in {b \in anns[n] : b.expires_at < now}}

\* A sweep removes the expired records, then collects the stale announcements...
SweepCollect(n) ==
    LET gone == {r \in held[n] : ExpiresAt[r] > 0 /\ ExpiresAt[r] < now} IN
    /\ sweep[n] = {}
    /\ gone # {} \/ Stale(n) # {}
    /\ held' = [held EXCEPT ![n] = @ \ gone]
    /\ signer' = [signer EXCEPT ![n] = [r \in Rec |-> IF r \in gone THEN NoNode ELSE @[r]]]
    /\ sweep' = [sweep EXCEPT ![n] = Stale(n)]
    /\ Missing(n, {SourceOf[r] : r \in gone})
    /\ UNCHANGED <<Clock, anns, Link, makers, requests>>

\* ...and removes them by their keys, also one that was announced again since.
SweepDelete(n) ==
    /\ sweep[n] # {}
    /\ anns' = [anns EXCEPT ![n] = {a \in @ : a.key \notin sweep[n]}]
    /\ sweep' = [sweep EXCEPT ![n] = {}]
    /\ UNCHANGED <<Clock, held, signer, Link, History, requests>>

Tick ==
    /\ now < MaxTime
    /\ now' = now + 1
    /\ UNCHANGED <<Tables, Link, History, requests>>
-----------------------------------------------------------------------------
(* The dialling side: connect_to_peer after the HandshakeAck. *)

\* list_records(None, limit) goes through the table in the order of the ids.
Listed(n, limit) ==
    {r \in held[n] : Cardinality({q \in held[n] : q < r}) < limit}

Messages(n, type, limit) ==
    [i \in 1..Cardinality(Listed(n, limit)) |->
        LET r == CHOOSE r \in Listed(n, limit) : Cardinality({q \in held[n] : q < r}) = i - 1
        IN  [type |-> type, record |-> r, sig |-> signer[n][r]]]

\* The announcements carry the signature of the record.
Dial(d) ==
    /\ ~Connected
    /\ d \in Dialers
    /\ requests < MaxRequests
    /\ requests' = requests + 1
    /\ dialer' = d
    /\ stage' = "announcing"
    /\ out' = Messages(d, "announce", AnnounceLimit)
    /\ UNCHANGED <<Clock, Tables, wire, reader, interrupted, sent, handled, pushed, History>>

\* send_announce and push_record write a frame.
Send ==
    /\ Connected
    /\ out # <<>>
    /\ wire' = Append(wire, [from |-> "start", msg |-> Head(out)])
    /\ sent' = Append(sent, Head(out))
    /\ out' = Tail(out)
    /\ UNCHANGED <<Clock, Tables, dialer, stage, reader, interrupted, handled, pushed>>
    /\ UNCHANGED <<History, requests>>

\* After the announcements the records to push are listed again.  When they are
\* sent the message loop of the dialling side starts, which ignores acks.
ListPushes ==
    /\ stage = "announcing"
    /\ out = <<>>
    /\ out' = Messages(dialer, "push", PushLimit)
    /\ pushed' = Listed(dialer, PushLimit)
    /\ stage' = "pushing"
    /\ UNCHANGED <<Clock, Tables, dialer, wire, reader, interrupted, sent, handled>>
    /\ UNCHANGED <<History, requests>>

Hangup ==
    /\ dialer' = NoNode
    /\ stage' = "none"
    /\ out' = <<>> /\ wire' = <<>> /\ reader' = "header" /\ interrupted' = FALSE
    /\ sent' = <<>> /\ handled' = <<>> /\ pushed' = {} /\ missed' = {}

\* Either node stops, the network fails, or the reader finds a frame longer than
\* MAX_PAYLOAD_SIZE (a record of nearly MAX_RECORD_SIZE makes such a push).
Disconnect ==
    /\ Connected
    /\ Hangup
    /\ UNCHANGED <<Clock, Tables, makers, requests>>
-----------------------------------------------------------------------------
(* The accepting side: read_frame and handle_messages_inner. *)

Unread == <<Clock, Tables, makers, requests>>
Kept   == <<missed, dialer, stage, out, sent, pushed>>

\* The first frame with the next byte in that part of it.
Cut(from) == <<[Head(wire) EXCEPT !.from = from]>> \o Tail(wire)

\* read_frame has read the six bytes of a header.
ReadHeader ==
    /\ Connected /\ reader = "header" /\ wire # <<>>
    /\ Head(wire).from = "start"
    /\ reader' = "body"
    /\ UNCHANGED <<Unread, Kept, wire, interrupted, handled>>

\* It has read six bytes that are no header: an error, which ends the loop and
\* closes the stream; only the rest of the header of a push passes as one.
ReadStray ==
    /\ Connected /\ reader = "header" /\ wire # <<>>
    /\ Head(wire).from # "start"
    /\ \/ Hangup
       \/ /\ Head(wire).from = "header" /\ Head(wire).msg.type = "push"
          /\ reader' = "stray"
          /\ wire' = Cut("body")
          /\ UNCHANGED <<Kept, interrupted, handled>>
    /\ UNCHANGED Unread

\* The bytes that follow are read in its place: to the end of the frame and
\* further, or as far as the length goes.  Then no message can be decoded, or
\* the type is one that is ignored and a header is read from there on.
ReadStrayBody ==
    /\ Connected /\ reader = "stray" /\ wire # <<>>
    /\ \/ Hangup
       \/ /\ reader' \in {"stray", "header"}
          /\ wire' = Tail(wire)
          /\ UNCHANGED <<Kept, interrupted, handled>>
       \/ /\ reader' = "header"
          /\ wire' \in {Cut("header"), Cut("body")}
          /\ Head(wire).from = "body" => wire' = Cut("body")
          /\ UNCHANGED <<Kept, interrupted, handled>>
    /\ UNCHANGED Unread

\* Some of the six bytes of a header are there, but not all of them.
DropHeader ==
    /\ reader = "header" /\ wire # <<>>
    /\ wire' = CASE Head(wire).from = "start"  -> Cut("header")
                 [] Head(wire).from = "header" -> Cut("body")
                 [] Head(wire).from = "body"   -> Tail(wire)

DropBody ==
    \/ reader = "stray" /\ wire' = wire
    \/ reader \in {"body", "stray"} /\ wire # <<>> /\ wire' = Cut("body")

\* Plausible bug: the timer covers the header only, not the body.
TimerFiresEarly ==
    /\ Connected
    /\ DropHeader
    /\ reader' = "header" /\ interrupted' = TRUE
    /\ UNCHANGED <<Unread, Kept, handled>>

\* The 500 ms timer of the select! fires: read_frame is dropped, and what it
\* had consumed with it.
TimerFires ==
    /\ Connected
    /\ DropHeader \/ DropBody
    /\ reader' = "header" /\ interrupted' = TRUE
    /\ UNCHANGED <<Unread, Kept, handled>>

\* Plausible bug: every frame is handled by a task of its own.
ReadBodySpawned(type) ==
    /\ Connected /\ reader = "body" /\ wire # <<>>
    /\ Head(wire).msg.type = type
    /\ \E i \in DOMAIN wire :
         /\ wire' = RemoveAt(wire, i)
         /\ reader' = IF i = 1 THEN "header" ELSE reader
         /\ handled' = Append(handled, wire[i].msg)
    /\ UNCHANGED <<Clock, sweep, dialer, stage, out, sent, interrupted, pushed, requests>>

\* The body is read; what follows is the handler of the message.
ReadBody(type) ==
    /\ Connected /\ reader = "body" /\ wire # <<>>
    /\ Head(wire).msg.type = type
    /\ wire' = Tail(wire)
    /\ reader' = "header"
    /\ handled' = Append(handled, Head(wire).msg)
    /\ UNCHANGED <<Clock, sweep, dialer, stage, out, sent, interrupted, pushed, requests>>

\* handle_announce: the answer says whether it was stored; nobody reads it.
HandleAnnounce ==
    /\ ReadBody("announce")
    /\ LET m == Head(wire).msg
       IN  InsertAnnouncement(acceptor, <<m.record, dialer>>, ExpiresAt[m.record], m.sig)
    /\ UNCHANGED <<held, signer, History>>

\* handle_replicate_push: the record is inserted, or refused (the quota).
HandlePush ==
    /\ ReadBody("push")
    /\ LET m == Head(wire).msg IN
         \/ /\ InsertRecord(acceptor, m.record, m.sig)
            /\ UNCHANGED missed
         \/ /\ Missing(acceptor, {SourceOf[m.record]})
            /\ UNCHANGED <<held, signer, makers>>
    /\ UNCHANGED anns

Read == ReadHeader \/ HandleAnnounce \/ HandlePush \/ ReadStray \/ ReadStrayBody

Next ==
    \/ \E n \in Node, r \in Rec : Insert(n, r) \/ Delete(n, r) \/ AnnounceLocal(n, r)
    \/ \E n \in Node : SweepCollect(n) \/ SweepDelete(n) \/ Dial(n)
    \/ Tick \/ Send \/ ListPushes \/ Disconnect
    \/ Read \/ TimerFires

Spec == Init /\ [][Next]_vars

\* The runtime runs the two tasks of the connection and the sweepers.  A read
\* of the accepting side ends or is dropped: of the rest of a frame six bytes
\* may be left, which are read, or fewer, which only a dropped read takes.
FairSpec ==
    /\ Spec
    /\ WF_vars(Send \/ ListPushes)
    /\ WF_vars(Read \/ TimerFires)
    /\ \A n \in Node : WF_vars(SweepCollect(n) \/ SweepDelete(n))
-----------------------------------------------------------------------------
(* Properties. *)

\* Whatever reads the timer interrupts, the accepting side handles messages
\* that were written, each at most once and in the order they were written,
\* whatever stray bytes it takes for a header; and it handles all of them as
\* long as no read was interrupted in mid-frame.
HandledInOrder ==
    /\ \E place \in [DOMAIN handled -> DOMAIN sent] :
         /\ \A i \in DOMAIN handled : handled[i] = sent[place[i]]
         /\ \A i, j \in DOMAIN handled : i < j => place[i] < place[j]
    /\ ~interrupted => IsPrefix(handled, sent)

Drained == stage = "pushing" /\ out = <<>> /\ wire = <<>> /\ reader = "header"

\* The acceptor holds the record or one of its source that is no older, unless
\* it refused or removed that source since the session began.
Covered(r) ==
    \/ SourceOf[r] \in missed
    \/ \E q \in SameSource(acceptor, r) : CreatedAt[q] >= CreatedAt[r]

\* The acceptor has the announcement of the record, if that has not expired and
\* fits into MAX_ANNOUNCEMENT_SIZE together with a signature.
Known(r) ==
    ExpiresAt[r] >= now /\ Base[r] + SigSize <= MaxAnnSize =>
        \E a \in anns[acceptor] : a.key = <<r, dialer>>

\* What a handled message brought stays, whatever edits and sweeps ran since.
\* A session through which no read was interrupted delivers everything: all
\* records listed to be pushed and all announcements.
Delivered ==
    /\ \A i \in DOMAIN handled :
         LET m == handled[i] IN IF m.type = "push" THEN Covered(m.record) ELSE Known(m.record)
    /\ Drained /\ ~interrupted => handled = sent /\ \A r \in pushed : Covered(r)

\* A copy carries the signature of a node that made the record, or that was
\* the first running node to get it unsigned, however often it was pushed on.
SignedByMaker ==
    \A n \in Node : \A r \in held[n] : signer[n][r] \in makers[r] \cup {NoNode}

\* The connection is closed in the end, or everything written has been read and
\* the reader waits for a header; it was all handled, or a read was interrupted.
SessionDrains == Connected ~> ~Connected \/ (Drained /\ (handled = sent \/ interrupted))

\* The sweeper gets to every stale announcement, those of permanent records
\* among them, which every connection brings back.
StaleSwept ==
    \A n \in Node : (\E a \in anns[n] : a.expires_at < now) ~> (\A a \in anns[n] : a.expires_at >= now)
=============================================================================
