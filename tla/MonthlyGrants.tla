---------------------------- MODULE MonthlyGrants ----------------------------
(***************************************************************************)
(* The monthly grant (src/services/scheduler.py): every process that       *)
(* main.py starts keeps a scheduler of its own, with its jobs in memory.   *)
(* At 00:00 on the 1st each runs monthly_grant_job, which lists the        *)
(* tenants with a monthly grant and gives each, one after the other and on *)
(* a connection of its own, what WalletService.grant_monthly posts.  The   *)
(* database's errors, restarts and the scheduler's own rules (no          *)
(* catching up, one instance of a job) decide who is granted what.         *)
(* A posting is one step, as WalletLedger has it.                          *)
(***************************************************************************)
EXTENDS Naturals

CONSTANTS
    Processes,
    Planned,       \* the tenants with monthly_grant > 0
    LastMonth      \* bound of the calendar

ASSUME LastMonthAssumption == LastMonth \in Nat

VARIABLES
    month,      \* the calendar
    up,         \* the processes between start_scheduler and stop_scheduler
    job,        \* [Processes -> its run of monthly_grant_job]
    posted      \* [Processes -> [Planned -> [months -> grants it posted]]]

grantVars == <<month, up, job, posted>>

Months == 0..LastMonth

(* The rows still to come, and the tenants counted in success and failed.  *)
JobState ==
    [pc : {"idle", "list", "grant"},
     left : SUBSET Planned, success : SUBSET Planned, failed : SUBSET Planned]

NoRun == [pc |-> "idle", left |-> {}, success |-> {}, failed |-> {}]

GrantsTypeOK ==
    /\ month \in Months
    /\ up \subseteq Processes
    /\ job \in [Processes -> JobState]
    /\ posted \in [Processes -> [Planned -> [Months -> Nat]]]

GrantsInit ==
    /\ month = 0
    /\ up = Processes
    /\ job = [p \in Processes |-> NoRun]
    /\ posted = [p \in Processes |-> [t \in Planned |-> [m \in Months |-> 0]]]

BecomeJob(p, state) == job' = [job EXCEPT ![p] = state]

-----------------------------------------------------------------------------
(* 00:00 on the 1st.  Of the processes that are up, those whose last run   *)
(* is over (max_instances is 1) start another, unless the loop was too     *)
(* busy to wake up in time (misfire_grace_time is a second).               *)
Tick ==
    /\ month < LastMonth
    /\ month' = month + 1
    /\ \E fired \in SUBSET {p \in up : job[p].pc = "idle"} :
           job' = [p \in Processes |-> IF p \in fired THEN [NoRun EXCEPT !.pc = "list"]
                                       ELSE job[p]]
    /\ UNCHANGED <<up, posted>>

(* The listing is outside the loop's try: its failure is the job's end.    *)
ListTenants(p) ==
    /\ job[p].pc = "list"
    /\ \/ BecomeJob(p, [job[p] EXCEPT !.pc = "grant", !.left = Planned])
       \/ BecomeJob(p, NoRun)
    /\ UNCHANGED <<month, up, posted>>

Post(p, t) == posted' = [posted EXCEPT ![p][t][month] = @ + 1]

(* Mutation: the try is around the loop, not in it.                        *)
GrantOrGiveUp(p, t) ==
    /\ job[p].pc = "grant" /\ t \in job[p].left
    /\ \/ /\ Post(p, t)
          /\ BecomeJob(p, [job[p] EXCEPT !.left = @ \ {t}, !.success = @ \cup {t}])
       \/ /\ BecomeJob(p, [job[p] EXCEPT !.pc = "idle", !.failed = @ \cup {t}])
          /\ UNCHANGED posted
    /\ UNCHANGED <<month, up>>

(* The next row's grant.  An error is counted and the loop goes on; it may *)
(* also be that of an answer lost after the commit.                        *)
Grant(p, t) ==
    /\ job[p].pc = "grant" /\ t \in job[p].left
    /\ \/ /\ Post(p, t)
          /\ BecomeJob(p, [job[p] EXCEPT !.left = @ \ {t}, !.success = @ \cup {t}])
       \/ /\ Post(p, t) \/ UNCHANGED posted
          /\ BecomeJob(p, [job[p] EXCEPT !.left = @ \ {t}, !.failed = @ \cup {t}])
    /\ UNCHANGED <<month, up>>

(* Mutation: a run that is over stays registered.                          *)
FinishForGood(p) ==
    /\ job[p].pc = "grant" /\ job[p].left = {}
    /\ BecomeJob(p, [job[p] EXCEPT !.pc = "finished"])
    /\ UNCHANGED <<month, up, posted>>

Finish(p) ==
    /\ job[p].pc = "grant" /\ job[p].left = {}
    /\ BecomeJob(p, [job[p] EXCEPT !.pc = "idle"])
    /\ UNCHANGED <<month, up, posted>>

-----------------------------------------------------------------------------
(* Mutation: a scheduler that catches up with the run it may have missed.  *)
StartAndCatchUp(p) ==
    /\ p \notin up
    /\ up' = up \cup {p}
    /\ BecomeJob(p, [NoRun EXCEPT !.pc = IF month > 0 THEN "list" ELSE "idle"])
    /\ UNCHANGED <<month, posted>>

(* start_scheduler: the first run is that of the next 1st.                 *)
Start(p) ==
    /\ p \notin up
    /\ up' = up \cup {p}
    /\ UNCHANGED <<month, job, posted>>

(* stop_scheduler cancels what runs, as does a crash; a transaction that   *)
(* was open rolls back.                                                    *)
Stop(p) ==
    /\ p \in up
    /\ up' = up \ {p}
    /\ BecomeJob(p, NoRun)
    /\ UNCHANGED <<month, posted>>

Proceed(p) == ListTenants(p) \/ Finish(p) \/ \E t \in Planned : Grant(p, t)

GrantsNext ==
    \/ Tick
    \/ \E p \in Processes : Proceed(p) \/ Start(p) \/ Stop(p)

(* A job that runs goes on: nothing obliges a month to pass.               *)
Fairness == \A p \in Processes : WF_grantVars(Proceed(p))

GrantsSpec == GrantsInit /\ [][GrantsNext]_grantVars
FairGrantsSpec == GrantsSpec /\ Fairness

-----------------------------------------------------------------------------
(* However often a process restarts, and however long a run takes, it posts *)
(* a tenant no more than one grant in a month.  (Several processes post one *)
(* each.)                                                                  *)
OncePerProcess ==
    \A p \in Processes, t \in Planned, m \in Months : posted[p][t][m] <= 1

(* Nobody's failure holds the others up: a tenant that a run has listed is  *)
(* tried in it, unless the process goes down.                              *)
EveryListedTenantIsTried ==
    \A p \in Processes, t \in Planned :
        t \in job[p].left ~> t \in job[p].success \cup job[p].failed \/ p \notin up
=============================================================================
