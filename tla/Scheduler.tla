----------------------------- MODULE Scheduler -----------------------------
(***************************************************************************)
(* The scraper scheduler: src/scraper/scheduler.rs with the outcomes of    *)
(* run_job in src/scraper/job.rs.  One task sleeps 60 seconds, reloads the *)
(* configuration, and runs the due jobs one after the other; the user      *)
(* edits config.toml meanwhile.  What a run stores is Store!DirectInsert.  *)
(*                                                                         *)
(* A tick is 60 seconds.  Times are kept as the age of last_run at the     *)
(* pass's `now`, cut off at the longest interval, so the clock needs no    *)
(* bound.                                                                  *)
(***************************************************************************)
EXTENDS Naturals, Sequences, FiniteSets

CONSTANTS
    Configs,     \* the job lists config.toml may hold: sequences of ScrapeJob
    Name,        \* job names
    MaxInterval, \* the longest interval_secs, in ticks
    MaxEdits,    \* bound of the edits of config.toml
    CanPanic     \* whether inserting a record may panic (Store!IndexTx)

ScrapeJob ==
    [name : Name, source : {"url", "feed", "api", "keyword"},
     refresh : {"once", "interval", "on-change"}, interval_secs : 0..MaxInterval]

JobState ==
    [name : Name, source : {"url", "feed", "api", "keyword"},
     refresh : {"once", "interval", "on-change"}, interval_secs : 0..MaxInterval,
     elapsed : 0..MaxInterval,   \* now - last_run
     run_count : 0..1,           \* cut off at 1: only 0 matters
     completed : BOOLEAN]

Names(s) == {s[k].name : k \in DOMAIN s}

\* Nothing keeps two jobs from having one name: neither `scraper add` nor the
\* settings of the desktop UI look at the names that are there.
ASSUME ConfigAssumption == \A cfg \in Configs : cfg \in Seq(ScrapeJob)
ASSUME BoundAssumption  ==
    MaxInterval \in Nat /\ MaxEdits \in Nat /\ CanPanic \in BOOLEAN

VARIABLES
    config,      \* the jobs in config.toml
    readable,    \* whether load_config succeeds
    edits,
    job_states,  \* the scheduler's list
    phase,       \* "sleep", "pass", "running" or "dead"
    at,          \* the job of the pass that is looked at
    gap,         \* ticks since the `now` of the last pass, cut off at MaxInterval
    finished     \* history: names of which a job ran successfully since it
                 \* was added

vars == <<config, readable, edits, job_states, phase, at, gap, finished>>

TypeOK ==
    /\ config \in Configs
    /\ readable \in BOOLEAN
    /\ edits \in 0..MaxEdits
    /\ job_states \in Seq(JobState)
    /\ phase \in {"sleep", "pass", "running", "dead"}
    /\ at \in 1..(Len(job_states) + 1)
    /\ gap \in 0..MaxInterval
    /\ finished \subseteq Name

\* A job the scheduler has not seen before; last_run = 0 is long ago.
NewState(j) ==
    [name |-> j.name, source |-> j.source, refresh |-> j.refresh,
     interval_secs |-> j.interval_secs, elapsed |-> MaxInterval,
     run_count |-> 0, completed |-> FALSE]

NewStates(cfg) == [k \in DOMAIN cfg |-> NewState(cfg[k])]

Init ==
    /\ config \in Configs
    /\ readable = TRUE
    /\ edits = 0
    /\ job_states = NewStates(config)
    /\ phase = "sleep"
    /\ at = 1
    /\ gap = 0
    /\ finished = {}

AtMost(n) == IF n > MaxInterval THEN MaxInterval ELSE n
-----------------------------------------------------------------------------
(* Reloading the configuration. *)

FirstOf(k) == \A i \in 1..(k - 1) : config[i].name # config[k].name

\* The first job of that name.
ConfigOf(n) == config[CHOOSE k \in DOMAIN config : config[k].name = n /\ FirstOf(k)]

\* The elements of s at the positions K, in their order.
Subsequence(s, K) ==
    [i \in 1..Cardinality(K) |->
        s[CHOOSE k \in K : Cardinality({q \in K : q < k}) = i - 1]]

\* Jobs are appended if the list, as it grows, has none of their name; those
\* that the configuration names no more are dropped.
SyncNames(states) ==
    LET unknown == {k \in DOMAIN config : config[k].name \notin Names(states) /\ FirstOf(k)}
        all     == states \o NewStates(Subsequence(config, unknown))
    IN  Subsequence(all, {k \in DOMAIN all : all[k].name \in Names(config)})

\* Plausible bug: a job whose interval is edited keeps the old one.
UpdateNotInterval(s) == [s EXCEPT !.refresh = ConfigOf(s.name).refresh]

\* Every job gets the parameters of the first of its name (not source).
Update(s) ==
    [s EXCEPT !.interval_secs = ConfigOf(s.name).interval_secs,
              !.refresh       = ConfigOf(s.name).refresh]

\* sync_job_states.
Synced ==
    LET states == SyncNames(job_states)
    IN  [k \in DOMAIN states |-> Update(states[k])]

\* The pass reads the clock after the reload.
Aged(states) == [k \in DOMAIN states |-> [states[k] EXCEPT !.elapsed = AtMost(@ + gap)]]

\* The sleep ends; a configuration that cannot be loaded is ignored.
Wake ==
    /\ phase = "sleep"
    /\ gap > 0
    /\ LET states == IF readable THEN Synced ELSE job_states IN
       /\ job_states' = Aged(states)
       /\ finished' = finished \cap Names(states)
    /\ phase' = "pass"
    /\ at' = 1
    /\ gap' = 0
    /\ UNCHANGED <<config, readable, edits>>
-----------------------------------------------------------------------------
(* The pass. *)

Current == job_states[at]

\* Plausible bug: completed jobs are not skipped.
ShouldRunAgain(j) == j.refresh = "once" \/ j.elapsed >= j.interval_secs

ShouldRun(j) ==
    /\ ~j.completed
    /\ \/ j.refresh = "once" /\ j.run_count = 0
       \/ j.refresh \in {"interval", "on-change"} /\ j.elapsed >= j.interval_secs

Start ==
    /\ phase = "pass"
    /\ at <= Len(job_states)
    /\ ShouldRun(Current)
    /\ phase' = "running"
    /\ UNCHANGED <<config, readable, edits, job_states, at, gap, finished>>

Skip ==
    /\ phase = "pass"
    /\ at <= Len(job_states)
    /\ ~ShouldRun(Current)
    /\ at' = at + 1
    /\ UNCHANGED <<config, readable, edits, job_states, phase, gap, finished>>

EndPass ==
    /\ phase = "pass"
    /\ at > Len(job_states)
    /\ phase' = "sleep"
    /\ at' = 1
    /\ UNCHANGED <<config, readable, edits, job_states, gap, finished>>

\* run_job returns Ok.
RunOk ==
    /\ phase = "running"
    /\ job_states' = [job_states EXCEPT ![at].elapsed = 0,
                                        ![at].run_count = 1,
                                        ![at].completed = @ \/ Current.refresh = "once"]
    /\ finished' = finished \cup {Current.name}
    /\ phase' = "pass"
    /\ at' = at + 1
    /\ UNCHANGED <<config, readable, edits, gap>>

\* Plausible bug: a failed run is tried again at once.
RunErrRetry ==
    /\ phase = "running"
    /\ job_states' = [job_states EXCEPT ![at].elapsed = 0]
    /\ phase' = "pass"
    /\ UNCHANGED <<config, readable, edits, at, gap, finished>>

\* run_job returns Err: the fetch failed, or the insert of one of the items.
RunErr ==
    /\ phase = "running"
    /\ job_states' = [job_states EXCEPT ![at].elapsed = 0]
    /\ phase' = "pass"
    /\ at' = at + 1
    /\ UNCHANGED <<config, readable, edits, gap, finished>>

\* The insert panics and the scheduler's task with it.
RunPanic ==
    /\ CanPanic
    /\ phase = "running"
    /\ phase' = "dead"
    /\ UNCHANGED <<config, readable, edits, job_states, at, gap, finished>>
-----------------------------------------------------------------------------
(* The environment. *)

\* config.toml is edited, or saved with a mistake.
Edit ==
    /\ edits < MaxEdits
    /\ edits' = edits + 1
    /\ \/ config' \in Configs /\ readable' = TRUE
       \/ readable' = FALSE /\ UNCHANGED config
    /\ UNCHANGED <<job_states, phase, at, gap, finished>>

Tick ==
    /\ gap' = AtMost(gap + 1)
    /\ UNCHANGED <<config, readable, edits, job_states, phase, at, finished>>

Next ==
    \/ Wake \/ Start \/ Skip \/ EndPass
    \/ RunOk \/ RunErr \/ RunPanic
    \/ Edit \/ Tick

Spec == Init /\ [][Next]_vars

\* reqwest::get, used for feeds and APIs, has no timeout.
MayHang(j) == j.source \in {"feed", "api"}

\* fetch_url has a read timeout and a size limit: the run of a url or keyword
\* job ends.
RunEnds == phase = "running" /\ ~MayHang(Current) /\ (RunOk \/ RunErr)

FairSpec ==
    /\ Spec
    /\ WF_vars(Tick) /\ WF_vars(Wake) /\ WF_vars(Start \/ Skip \/ EndPass)
    /\ WF_vars(RunEnds)
-----------------------------------------------------------------------------
(* Properties. *)

\* The name n stands more than once on the list s.
Twice(s, n) == \E k, l \in DOMAIN s : k # l /\ s[k].name = n /\ s[l].name = n

\* After a reload the scheduler's list has the names of the configuration, each
\* with the refresh and interval of the first job of that name, whatever edits
\* and unreadable versions came before.  No reload lists a name twice; only
\* names that stood twice in the configuration when the scheduler started do,
\* as long as they stay in it.
JobsFollowConfig ==
    [][phase = "sleep" /\ phase' = "pass" /\ readable =>
         /\ Names(job_states') = Names(config)
         /\ \A n \in Name : Twice(job_states', n) => Twice(job_states, n)
         /\ \A k \in DOMAIN job_states' :
                LET s == job_states'[k] IN
                /\ s.refresh = ConfigOf(s.name).refresh
                /\ s.interval_secs = ConfigOf(s.name).interval_secs]_vars

\* Jobs with refresh = "once" are disabled after their run: however the
\* configuration was edited meanwhile, a job that ran successfully since it was
\* added does not start while it is a "once" job.  Of a name that is listed
\* twice each entry has its run.
OnceStaysDone ==
    phase = "running" /\ Current.refresh = "once" /\ Current.name \in finished
        => Twice(job_states, Current.name)

\* The scheduler's state of the job n says that it is completed.
Completed(n) == \E k \in DOMAIN job_states : job_states[k].name = n /\ job_states[k].completed

\* The task has panicked, or waits for a feed or an API that does not answer.
Stalled == phase = "dead" \/ (phase = "running" /\ MayHang(Current))

\* Jobs with refresh = "interval" keep running, although other jobs fail and
\* the configuration is edited or unreadable for a time, except in two cases:
\* the task is stalled for good, or the job ran when it was a "once" job and
\* so counts as completed.
IntervalJobsRun ==
    \A n \in Name :
        <>[](/\ readable /\ n \in Names(config) /\ ConfigOf(n).refresh = "interval"
             /\ ~Completed(n))
            => []<>(phase = "running" /\ Current.name = n) \/ <>[]Stalled
=============================================================================
