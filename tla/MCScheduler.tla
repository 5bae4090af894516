---------------------------- MODULE MCScheduler ----------------------------
(***************************************************************************)
(* Small instances of Scheduler: configurations of up to two jobs.         *)
(***************************************************************************)
EXTENDS Scheduler

CONSTANTS j, k   \* job names

Job(name, source, refresh, interval) ==
    [name |-> name, source |-> source, refresh |-> refresh, interval_secs |-> interval]

\* Jobs come and go, in either order, and their refresh and interval change;
\* one configuration has two jobs of one name.
AnyEdit == { <<Job(j, "url", "once", 1), Job(k, "feed", "interval", 2)>>,
             <<Job(k, "feed", "interval", 1), Job(j, "url", "on-change", 1)>>,
             <<Job(j, "url", "interval", 2), Job(k, "keyword", "once", 2)>>,
             <<Job(k, "api", "on-change", 2)>>,
             <<Job(j, "url", "once", 1), Job(j, "feed", "interval", 1)>>,
             <<>> }
=============================================================================
