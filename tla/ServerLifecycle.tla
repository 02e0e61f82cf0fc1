--------------------------- MODULE ServerLifecycle ---------------------------
(***************************************************************************)
(* One server process (cmd/cooker/main.go, server/server.go): the          *)
(* configuration is validated, New acquires resources step by step and     *)
(* undoes them when a step fails, RunContext serves until the signal and   *)
(* drains what is running, Close releases the resources.                   *)
(***************************************************************************)
EXTENDS Integers, Sequences, FiniteSets, SequencesExt

CONSTANT Configs   \* the configurations to start from, sets of features

Feature == {"production", "db", "redis", "jobqueue", "scheduler", "weighted", "auditdb",
            "replicas", "auth"}

ASSUME LifecycleAssumption == Configs \subseteq SUBSET Feature

VARIABLES
    cfg,       \* the features that are on
    phase,     \* of main
    step,      \* index of the next step of New, or of RunContext's shutdown
    held,      \* resources acquired and not released
    undo,      \* New's cleanups
    busy,      \* workers whose goroutines are running
    hurried    \* a drain timed out, or RunContext returned without draining

lifeVars == <<cfg, phase, step, held, undo, busy, hurried>>

\* What each worker uses.
Uses(w) == CASE w = "runs"          -> {"store", "hub"}
             [] w = "pool"          -> {"store", "hub", "jobDB"}
             [] w = "schedule"      -> {"jobDB"}
             [] w = "jobSweeper"    -> {"jobDB"}
             [] OTHER               -> {"store"}
Worker == {"runs", "pool", "schedule", "health", "canarySweeper", "auditSweeper", "jobSweeper"}
Resource == {"store", "notifierDB", "redisClient", "hub", "ticketGC", "tracer", "audit", "idemGC",
             "sshPool", "jobDB", "templatesDB", "limiters"}

On(f) == f \in cfg

\* Config.Validate: production refuses more than development does.  The rules on
\* the values of single settings (keys, URLs, ports, origins) are left out.
Validate ==
    On("production") =>
        /\ On("db") /\ On("auth") /\ ~On("auditdb")
        /\ On("replicas") => On("redis")
        /\ On("scheduler") => On("jobqueue")

-----------------------------------------------------------------------------
(* New *)

\* The steps in order: what a step is for, whether the configuration has it,
\* what it acquires, which worker it starts, whether it can fail.
S(get, when, worker, fails) == [get |-> get, when |-> when, worker |-> worker, fails |-> fails]

NewMiddleware == S("none", TRUE, "none", On("auth"))
OpenStore == S("store", TRUE, "none", TRUE)
SetupAuth == S("none", TRUE, "none", TRUE)
BootNotifier == S("notifierDB", On("db"), "none", TRUE)
OpenRedis == S("redisClient", On("redis"), "none", TRUE)
MakeHub == S("hub", TRUE, "none", On("redis"))
MakeTickets == S("ticketGC", ~On("redis"), "none", FALSE)
SetupTracing == S("tracer", TRUE, "none", TRUE)
NewAuditSink == S("audit", TRUE, "none", TRUE)
SelectBackends == S("none", TRUE, "none", TRUE)
NewSource == S("none", TRUE, "none", TRUE)
MakeIdempotency == S("idemGC", TRUE, "none", FALSE)
InstallLicense == S("none", TRUE, "none", FALSE)
NewInventory == S("none", TRUE, "none", TRUE)
RegisterSSHTarget == S("sshPool", TRUE, "none", FALSE)
CheckSSHHosts == S("none", TRUE, "none", On("production"))
BootJobQueue == S("jobDB", On("jobqueue"), "none", TRUE)
BootScheduler == S("none", On("scheduler"), "none", ~On("jobqueue"))
BootTemplates == S("templatesDB", On("db") /\ ~On("jobqueue"), "none", TRUE)
StartHealth == S("none", TRUE, "health", FALSE)
StartCanarySweeper == S("none", On("weighted"), "canarySweeper", FALSE)
StartAuditSweeper == S("none", On("auditdb"), "auditSweeper", FALSE)
StartJobSweeper == S("none", On("jobqueue"), "jobSweeper", FALSE)
MakeRouter == S("limiters", TRUE, "none", FALSE)

BootSteps ==
    <<NewMiddleware, OpenStore, SetupAuth, BootNotifier, OpenRedis, MakeHub, MakeTickets,
      SetupTracing, NewAuditSink, SelectBackends, NewSource, MakeIdempotency, InstallLicense,
      NewInventory, RegisterSSHTarget, CheckSSHHosts, BootJobQueue, BootScheduler, BootTemplates,
      StartHealth, StartCanarySweeper, StartAuditSweeper, StartJobSweeper, MakeRouter>>

\* The cleanup a step registers.  The ticket sweeper and the rate limiters have
\* none; no step can fail once a worker has one.
Undone(s) == IF s.get \in {"none", "ticketGC", "limiters"} THEN <<>> ELSE <<s.get>>

\* bootScheduler refuses to run without the queue.
MustFail(s) == s = BootScheduler /\ ~On("jobqueue")

BootStep ==
    LET s == BootSteps[step] IN
    /\ phase = "booting" /\ step <= Len(BootSteps)
    /\ s.when => ~MustFail(s)
    /\ step' = step + 1
    /\ held' = IF s.when /\ s.get # "none" THEN held \cup {s.get} ELSE held
    /\ undo' = IF s.when THEN undo \o Undone(s) ELSE undo
    /\ busy' = IF s.when /\ s.worker # "none" THEN busy \cup {s.worker} ELSE busy
    /\ UNCHANGED <<cfg, phase, hurried>>

\* A step fails: New runs its cleanups, and main exits.
BootFails ==
    LET s == BootSteps[step] IN
    /\ phase = "booting" /\ step <= Len(BootSteps)
    /\ s.when /\ s.fails
    /\ phase' = "undoing"
    /\ UNCHANGED <<cfg, step, held, undo, busy, hurried>>

\* cleanup: last in, first out.
Cleanup ==
    /\ phase = "undoing" /\ undo # <<>>
    /\ undo' = Front(undo)
    /\ held' = held \ {Last(undo)}
    /\ UNCHANGED <<cfg, phase, step, busy, hurried>>

\* New returns the error and main exits.
BootFailed ==
    /\ phase = "undoing" /\ undo = <<>>
    /\ phase' = "aborted"
    /\ UNCHANGED <<cfg, step, held, undo, busy, hurried>>

-----------------------------------------------------------------------------
(* RunContext and Close *)

\* RunContext starts the job pool and the scheduler and serves.
Serve ==
    /\ phase = "booting" /\ step > Len(BootSteps)
    /\ phase' = "serving" /\ step' = 1
    /\ busy' = busy \cup (IF On("jobqueue") THEN {"pool"} ELSE {})
                    \cup (IF On("scheduler") THEN {"schedule"} ELSE {})
    /\ UNCHANGED <<cfg, held, undo, hurried>>

\* A request starts a run in this process (RunCoordinator.Spawn).
StartRun ==
    /\ phase = "serving"
    /\ busy' = busy \cup {"runs"}
    /\ UNCHANGED <<cfg, phase, step, held, undo, hurried>>

\* The runs are over, a worker's loop ends after its context did.
WorkerEnds(w) ==
    /\ w \in busy
    /\ w = "runs" \/ (phase = "draining" /\ w \in {"pool", "schedule"})
    /\ busy' = busy \ {w}
    /\ UNCHANGED <<cfg, phase, step, held, undo, hurried>>

\* The listener fails: RunContext returns at once.
ServeFails ==
    /\ phase = "serving"
    /\ phase' = "closing" /\ step' = 1 /\ hurried' = TRUE
    /\ UNCHANGED <<cfg, held, undo, busy>>

\* The signal: the HTTP server is shut down, or its drain fails and RunContext
\* returns.
Signal ==
    /\ phase = "serving"
    /\ step' = 1
    /\ \/ phase' = "draining" /\ UNCHANGED hurried
       \/ phase' = "closing" /\ hurried' = TRUE
    /\ UNCHANGED <<cfg, held, undo, busy>>

\* Mutant: the scheduler and the runs are not waited for.
DrainOrderShort == <<"pool", "health", "auditSweeper">>

\* The workers RunContext waits for, in its order.
DrainOrder == <<"runs", "pool", "schedule", "health", "auditSweeper">>

\* One wait: the worker has ended (the health checker and the audit sweeper are
\* cancelled first), or the timer fires.
Drain ==
    LET w == DrainOrder[step] IN
    /\ phase = "draining" /\ step <= Len(DrainOrder)
    /\ step' = step + 1
    /\ \/ /\ w \notin busy \/ w \in {"health", "auditSweeper"}
          /\ busy' = busy \ {w} /\ UNCHANGED hurried
       \/ w \in busy /\ hurried' = TRUE /\ UNCHANGED busy
    /\ UNCHANGED <<cfg, phase, held, undo>>

Drained ==
    /\ phase = "draining" /\ step > Len(DrainOrder)
    /\ phase' = "closing" /\ step' = 1
    /\ UNCHANGED <<cfg, held, undo, busy, hurried>>

\* Server.Close, in its order.
CloseOrder == <<"limiters", "tracer", "audit", "hub", "redisClient", "jobDB", "templatesDB", "store">>

CloseStep ==
    /\ phase = "closing" /\ step <= Len(CloseOrder)
    /\ step' = step + 1
    /\ held' = held \ {CloseOrder[step]}
    /\ busy' = IF step = 1 THEN busy \ {"health", "auditSweeper"} ELSE busy
    /\ UNCHANGED <<cfg, phase, undo, hurried>>

Exit ==
    /\ phase = "closing" /\ step > Len(CloseOrder)
    /\ phase' = "exited"
    /\ UNCHANGED <<cfg, step, held, undo, busy, hurried>>

-----------------------------------------------------------------------------
LifeTypeOK ==
    /\ cfg \in Configs
    /\ phase \in {"booting", "undoing", "serving", "draining", "closing", "exited", "aborted"}
    /\ step \in 1..(Len(BootSteps) + 1)
    /\ held \subseteq Resource /\ busy \subseteq Worker
    /\ Range(undo) \subseteq Resource \cup Worker
    /\ hurried \in BOOLEAN

\* main: an invalid configuration never reaches New.
LifeInit ==
    /\ cfg \in Configs /\ Validate
    /\ phase = "booting" /\ step = 1
    /\ held = {} /\ undo = <<>> /\ busy = {}
    /\ hurried = FALSE

LifeNext ==
    \/ BootStep \/ BootFails \/ Cleanup \/ BootFailed \/ Serve \/ StartRun
    \/ ServeFails \/ Signal \/ Drain \/ Drained \/ CloseStep \/ Exit
    \/ \E w \in Worker : WorkerEnds(w)

LifeSpec == LifeInit /\ [][LifeNext]_lifeVars

\* New and RunContext proceed, waits end by the worker or by the timer, and the
\* signal comes.
LifeFairness ==
    /\ WF_lifeVars(BootStep \/ BootFails \/ Cleanup \/ BootFailed \/ Serve)
    /\ WF_lifeVars(ServeFails \/ Signal)
    /\ WF_lifeVars(Drain \/ Drained \/ CloseStep \/ Exit)

-----------------------------------------------------------------------------
\* However far New got, a failed boot releases what it acquired, except the
\* goroutine that sweeps the tickets, and leaves no worker behind.
BootFailureReleases == phase = "aborted" => held \subseteq {"ticketGC"} /\ busy = {}

\* A worker never finds its store, queue or hub closed under it, at boot or at
\* shutdown, unless a wait was given up.  The two sweepers that nobody stops at
\* shutdown are excepted then.
WorkersOutliveNothing ==
    \A w \in busy : ~hurried /\ (phase \in {"closing", "exited"} => w \notin {"canarySweeper", "jobSweeper"})
        => Uses(w) \subseteq held

\* The scheduler serves only with a job queue: production refuses the
\* configuration, development fails the boot.
SchedulerHasQueue == phase = "serving" /\ "schedule" \in busy => "jobDB" \in held

\* The process comes to an end once it is told to, whatever hangs.
ProcessExits == (phase \in {"undoing", "draining", "closing"}) ~> (phase \in {"exited", "aborted"})

\* What a process holds and what runs in it fit together at boot, after a failed
\* boot and during shutdown.
LifeInv == LifeTypeOK /\ BootFailureReleases /\ WorkersOutliveNothing /\ SchedulerHasQueue

=============================================================================
