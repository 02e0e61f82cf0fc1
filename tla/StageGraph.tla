----------------------------- MODULE StageGraph -----------------------------
(***************************************************************************)
(* Executor.Execute on one run (service/executor.go, service/stages.go):   *)
(* the dagrunner walks the levels of the pipeline's graph, one goroutine   *)
(* per stage behind a semaphore, each stage behind its edge conditions,    *)
(* its output references, its retry policy and its timeout; a drain        *)
(* goroutine persists the progress; approval stages wait for their gate.   *)
(***************************************************************************)
EXTENDS StageApprovals, Sequences

CONSTANTS
    Stage,
    Pipelines,     \* the pipelines Execute may be given
    MaxParallel,   \* COOKER_DAG_MAX_PARALLEL
    ChanCap,       \* capacity of the updates channel
    Batch,         \* progressDrainBatchSize
    MaxAttemptsCap,\* the clamp of policyFromStage
    MaxExecFaults  \* bound on lost progress writes, panics and timeouts

Condition == {"success", "failure", "always"}
Kind == {"build", "push", "deploy", "cloud", "gitops", "test", "custom", "approval", "review"}
SingleAttempt == {"approval", "custom", "test"}
Edge == [src : Stage, dst : Stage, cond : Condition]

ASSUME GraphAssumption ==
    /\ \A p \in Pipelines : /\ p.edges \subseteq Edge
                            /\ p.kind \in [Stage -> Kind]
                            /\ p.refs \in [Stage -> SUBSET Stage]
                            /\ p.retries \in [Stage -> Nat]
                            /\ p.conditions \in BOOLEAN
    /\ IsFiniteSet(Stage)
    /\ MaxParallel \in Nat \ {0} /\ ChanCap \in Nat \ {0} /\ Batch \in Nat \ {0}
    /\ MaxAttemptsCap \in Nat \ {0} /\ MaxExecFaults \in Nat

VARIABLES
    pipe,        \* the pipeline
    walk,        \* phase of Execute
    done,        \* the stages of the finished levels
    node,        \* program point of each stage's goroutine
    tries,       \* attempts of retry.Do so far
    st,          \* stageRun.Status in memory
    db,          \* the statuses the run row holds
    outs,        \* stages with outputs
    serr,        \* class of the error the stage ended with
    chan,        \* runner.updates
    unflushed,   \* drained updates since the last write
    ctx,         \* "live", "cancelled" or "deadline"
    levelErr, firstErr,
    preCancelled, result, execFaults

execVars == <<pipe, walk, done, node, tries, st, db, outs, serr, chan, unflushed, ctx,
              levelErr, firstErr, preCancelled, result, execFaults>>

ErrClass == {"none", "error", "cancel"}
Terminal == {"success", "failed", "skipped"}
InTask == {"entered", "attempt", "awaiting", "backoff", "ending"}
NodePoint == InTask \cup {"idle", "waiting", "ended"}

ExecTypeOK ==
    /\ pipe \in Pipelines
    /\ walk \in {"start", "level", "drain", "finalize", "over"}
    /\ done \subseteq Stage
    /\ node \in [Stage -> NodePoint]
    /\ tries \in [Stage -> 0..MaxAttemptsCap]
    /\ st \in [Stage -> Terminal \cup {"pending", "running"}]
    /\ db \in [Stage -> Terminal \cup {"pending", "running"}]
    /\ outs \subseteq Stage
    /\ serr \in [Stage -> ErrClass]
    /\ chan \in Seq(Stage \X (Terminal \cup {"running"})) /\ Len(chan) <= ChanCap
    /\ unflushed \in 0..Batch
    /\ ctx \in {"live", "cancelled", "deadline"}
    /\ levelErr \in ErrClass /\ firstErr \in ErrClass
    /\ preCancelled \in BOOLEAN
    /\ result \in {"pending", "running", "success", "failed", "cancelled"}
    /\ execFaults \in 0..MaxExecFaults

-----------------------------------------------------------------------------
(* The graph *)

Sources(s) == {e.src : e \in {e \in pipe.edges : e.dst = s}}

\* TopologicalSort: the next level, the stages whose in-degree has dropped to 0.
Ready(finished) == {s \in Stage \ finished : Sources(s) \subseteq finished}

\* The stages of the first n levels.
Levels(n) ==
    LET upTo[i \in Nat] == IF i = 0 THEN {} ELSE upTo[i - 1] \cup Ready(upTo[i - 1])
    IN  upTo[n]

\* ancestorsOf: what the dependency edges reach backwards.
ancestorsOf(s) ==
    LET step(X) == X \cup UNION {Sources(x) : x \in X}
        reach[i \in Nat] == IF i = 0 THEN Sources(s) ELSE step(reach[i - 1])
    IN  reach[Cardinality(Stage)]

\* ValidatePipelineDAG: references point at ancestors, and no cycle.
ValidPipeline ==
    /\ \A s \in Stage : pipe.refs[s] \subseteq ancestorsOf(s) \ {s}
    /\ Levels(Cardinality(Stage)) = Stage

\* EdgeAllows
EdgeAllows(upstream, cond) ==
    CASE cond = "success" -> upstream = "success"
      [] cond = "failure" -> upstream = "failed"
      [] cond = "always"  -> upstream \in Terminal

\* StageShouldRun: every incoming edge allows it.
StageShouldRun(s) ==
    \A e \in pipe.edges : e.dst = s => EdgeAllows(st[e.src], e.cond)

\* policyFromStage: attempts of a stage, clamped.
MaxAttempts(s) ==
    IF pipe.kind[s] \in SingleAttempt THEN 1
    ELSE IF 1 + pipe.retries[s] > MaxAttemptsCap THEN MaxAttemptsCap
    ELSE 1 + pipe.retries[s]

\* collectStageOutputs reads ancestors only.
collectStageOutputs(s) == {r \in ancestorsOf(s) \cap outs : st[r] = "success"}

\* interpolateStageConfig: every referenced output is there.
interpolateStageConfig(s) == pipe.refs[s] \subseteq collectStageOutputs(s)

-----------------------------------------------------------------------------
ExecInit ==
    /\ pipe \in Pipelines
    /\ walk = "start"
    /\ done = {}
    /\ node = [s \in Stage |-> "idle"]
    /\ tries = [s \in Stage |-> 0]
    /\ st = [s \in Stage |-> "pending"]
    /\ db = [s \in Stage |-> "pending"]
    /\ outs = {}
    /\ serr = [s \in Stage |-> "none"]
    /\ chan = <<>>
    /\ unflushed = 0
    /\ ctx = "live"
    /\ levelErr = "none" /\ firstErr = "none"
    /\ preCancelled \in BOOLEAN
    /\ result = "pending"
    /\ execFaults = 0

ExecFault == execFaults < MaxExecFaults /\ execFaults' = execFaults + 1

CtxError == IF ctx = "cancelled" THEN "cancel" ELSE "error"

StartLevel(finished) ==
    node' = [s \in Stage |-> IF s \in Ready(finished) THEN "waiting" ELSE node[s]]

\* Execute: a review-only or invalid pipeline is finalized at once, otherwise
\* the goroutines of the first level are started.
Execute ==
    /\ walk = "start"
    /\ IF ValidPipeline /\ \A s \in Stage : pipe.kind[s] # "review"
         THEN /\ walk' = IF ctx = "live" THEN "level" ELSE "drain"
              /\ result' = "running"
              /\ IF ctx = "live" THEN StartLevel({}) ELSE UNCHANGED node
              /\ firstErr' = IF ctx = "live" THEN "none" ELSE CtxError
         ELSE /\ walk' = "finalize"
              /\ firstErr' = "error"
              /\ UNCHANGED <<result, node>>
    /\ UNCHANGED <<pipe, done, tries, st, db, outs, serr, chan, unflushed, ctx, levelErr,
                   preCancelled, execFaults, gateVars>>

InFlight == {s \in Stage : node[s] \in InTask}

Emit(s, status) == Len(chan) < ChanCap /\ chan' = Append(chan, <<s, status>>)

\* fail: the first error of the level is kept.
Fail(class) == levelErr' = IF levelErr = "none" THEN class ELSE levelErr

\* The goroutine gets a slot of the semaphore and reports "running".
Enter(s) ==
    /\ node[s] = "waiting" /\ Cardinality(InFlight) < MaxParallel
    /\ node' = [node EXCEPT ![s] = "entered"]
    /\ Emit(s, "running")
    /\ UNCHANGED <<pipe, walk, done, tries, st, db, outs, serr, unflushed, ctx, levelErr,
                   firstErr, preCancelled, result, execFaults, gateVars>>

\* The context ends while the goroutine waits for a slot: the stage is
\* reported failed, its row stays pending.
GiveUp(s) ==
    /\ node[s] = "waiting" /\ ctx # "live"
    /\ node' = [node EXCEPT ![s] = "ended"]
    /\ Emit(s, "failed")
    /\ Fail(CtxError)
    /\ UNCHANGED <<pipe, walk, done, tries, st, db, outs, serr, unflushed, ctx, firstErr,
                   preCancelled, result, execFaults, gateVars>>

Gated(s) == pipe.conditions /\ ~StageShouldRun(s)

\* The edge conditions keep the stage from running.
Skip(s) ==
    /\ node[s] = "entered" /\ Gated(s)
    /\ st' = [st EXCEPT ![s] = "skipped"]
    /\ node' = [node EXCEPT ![s] = "ending"]
    /\ UNCHANGED <<pipe, walk, done, tries, db, outs, serr, chan, unflushed, ctx, levelErr,
                   firstErr, preCancelled, result, execFaults, gateVars>>

\* The stage starts; retry.Do makes its first attempt unless the context is
\* over already or a reference cannot be resolved.
StartStage(s) ==
    /\ node[s] = "entered" /\ ~Gated(s)
    /\ IF interpolateStageConfig(s) /\ ctx = "live"
         THEN /\ st' = [st EXCEPT ![s] = "running"]
              /\ node' = [node EXCEPT ![s] = "attempt"]
              /\ tries' = [tries EXCEPT ![s] = 1]
              /\ UNCHANGED serr
         ELSE /\ st' = [st EXCEPT ![s] = "failed"]
              /\ node' = [node EXCEPT ![s] = "ending"]
              /\ serr' = [serr EXCEPT ![s] = IF interpolateStageConfig(s) THEN CtxError ELSE "error"]
              /\ UNCHANGED tries
    /\ UNCHANGED <<pipe, walk, done, db, outs, chan, unflushed, ctx, levelErr, firstErr,
                   preCancelled, result, execFaults, gateVars>>

EndStage(s, status, class) ==
    /\ st' = [st EXCEPT ![s] = status]
    /\ serr' = [serr EXCEPT ![s] = class]
    /\ node' = [node EXCEPT ![s] = "ending"]

\* The adapter of the stage returns without an error.
Returns(s, kind) ==
    /\ node[s] = "attempt" /\ pipe.kind[s] = kind
    /\ EndStage(s, "success", "none")
    /\ UNCHANGED <<pipe, walk, done, tries, db, chan, unflushed, ctx, levelErr, firstErr,
                   preCancelled, result, execFaults, gateVars>>

\* What a stage leaves for the references of later ones.
applyStageOutputs(s) == outs' = outs \cup {s}

executeBuild(s) == Returns(s, "build") /\ applyStageOutputs(s)

executePush(s) == Returns(s, "push") /\ applyStageOutputs(s)

\* By manifest, chart, docker run or Compose ...
executeDeploy(s) == Returns(s, "deploy") /\ applyStageOutputs(s)

\* ... or to a cloud target, which leaves no outputs.
executeCloudDeploy(s) == Returns(s, "cloud") /\ UNCHANGED outs

executeGitOpsCommit(s) == Returns(s, "gitops") /\ applyStageOutputs(s)

\* A container that exits with 0.
executeTest(s) == Returns(s, "test") /\ UNCHANGED outs

executeCustom(s) == Returns(s, "custom") /\ UNCHANGED outs

AttemptSucceeds(s) ==
    \/ executeBuild(s) \/ executePush(s) \/ executeDeploy(s) \/ executeCloudDeploy(s)
    \/ executeGitOpsCommit(s) \/ executeTest(s) \/ executeCustom(s)

\* Mutant: an error is retried without counting.
AttemptFailsForever(s) ==
    /\ node[s] = "attempt" /\ pipe.kind[s] # "approval"
    /\ node' = [node EXCEPT ![s] = "backoff"]
    /\ tries' = [tries EXCEPT ![s] = @ - 1]
    /\ UNCHANGED <<pipe, walk, done, st, serr, db, outs, chan, unflushed, ctx, levelErr,
                   firstErr, preCancelled, result, execFaults, gateVars>>

\* The adapter fails: a context error, or the last attempt, ends the stage.
AttemptFails(s) ==
    /\ node[s] = "attempt" /\ pipe.kind[s] # "approval"
    /\ IF ctx # "live" \/ tries[s] = MaxAttempts(s)
         THEN \E class \in {"error", IF ctx = "live" THEN "error" ELSE CtxError} :
                 EndStage(s, "failed", class)
         ELSE /\ node' = [node EXCEPT ![s] = "backoff"]
              /\ UNCHANGED <<st, serr>>
    /\ UNCHANGED <<pipe, walk, done, tries, db, outs, chan, unflushed, ctx, levelErr, firstErr,
                   preCancelled, result, execFaults, gateVars>>

\* The pause between two attempts ends, by its timer or by the context.
BackoffEnds(s) ==
    /\ node[s] = "backoff"
    /\ IF ctx = "live"
         THEN /\ node' = [node EXCEPT ![s] = "attempt"]
              /\ tries' = [tries EXCEPT ![s] = @ + 1]
              /\ UNCHANGED <<st, serr>>
         ELSE EndStage(s, "failed", CtxError) /\ UNCHANGED tries
    /\ UNCHANGED <<pipe, walk, done, db, outs, chan, unflushed, ctx, levelErr, firstErr,
                   preCancelled, result, execFaults, gateVars>>

\* executeApproval opens the gate.
AwaitApproval(s) ==
    /\ node[s] = "attempt" /\ pipe.kind[s] = "approval"
    /\ node' = [node EXCEPT ![s] = "awaiting"]
    /\ Await
    /\ UNCHANGED <<gateStore, votes, click, tally, gateFaults>>
    /\ UNCHANGED <<pipe, walk, done, tries, st, db, outs, serr, chan, unflushed, ctx, levelErr,
                   firstErr, preCancelled, result, execFaults>>

\* executeApproval polls the gate: approved, rejected, or the context ends.
PollGate(s) ==
    /\ node[s] = "awaiting"
    /\ \/ gate = "approved" /\ EndStage(s, "success", "none")
       \/ gate = "rejected" /\ EndStage(s, "failed", "error")
       \/ ctx # "live" /\ EndStage(s, "failed", CtxError)
    /\ UNCHANGED <<pipe, walk, done, tries, db, outs, chan, unflushed, ctx, levelErr, firstErr,
                   preCancelled, result, execFaults, gateVars>>

\* The stage's own timeout: whatever it was doing returns the context error.
StageTimeout(s) ==
    /\ node[s] \in {"attempt", "awaiting", "backoff"}
    /\ EndStage(s, "failed", "error")
    /\ UNCHANGED <<pipe, walk, done, tries, db, outs, chan, unflushed, ctx, levelErr, firstErr,
                   preCancelled, result, execFaults, gateVars>>

\* The adapter panics: recover reports the node failed, its row keeps running.
Panic(s) ==
    /\ node[s] = "attempt" /\ pipe.kind[s] # "approval"
    /\ ExecFault
    /\ node' = [node EXCEPT ![s] = "ending"]
    /\ serr' = [serr EXCEPT ![s] = "error"]
    /\ UNCHANGED <<pipe, walk, done, tries, st, db, outs, chan, unflushed, ctx, levelErr, firstErr,
                   preCancelled, result, gateVars>>

\* The goroutine reports its outcome and releases its slot.
Leave(s) ==
    /\ node[s] = "ending"
    /\ node' = [node EXCEPT ![s] = "ended"]
    /\ Emit(s, IF st[s] \in Terminal THEN st[s] ELSE "failed")
    /\ IF serr[s] = "none" THEN UNCHANGED levelErr ELSE Fail(serr[s])
    /\ UNCHANGED <<pipe, walk, done, tries, st, db, outs, serr, unflushed, ctx, firstErr,
                   preCancelled, result, execFaults, gateVars>>

\* wg.Wait returns: the level's error is recorded (or, in the legacy mode,
\* ends the run), and the next level starts unless the context is over.
NextLevel ==
    LET level == Ready(done)
        first == IF firstErr = "none" THEN levelErr ELSE firstErr
        abort == levelErr # "none" /\ ~pipe.conditions IN
    /\ walk = "level" /\ \A s \in level : node[s] = "ended"
    /\ done' = done \cup level
    /\ levelErr' = "none"
    /\ IF abort \/ done' = Stage
         THEN walk' = "drain" /\ firstErr' = first /\ UNCHANGED node
         ELSE IF ctx # "live"
         THEN walk' = "drain" /\ firstErr' = (IF first = "none" THEN CtxError ELSE first)
                              /\ UNCHANGED node
         ELSE StartLevel(done') /\ firstErr' = first /\ UNCHANGED walk
    /\ UNCHANGED <<pipe, tries, st, db, outs, serr, chan, unflushed, ctx, preCancelled, result,
                   execFaults, gateVars>>

-----------------------------------------------------------------------------
(* The drain goroutine *)

\* persistProgress: the run row takes the statuses of this moment, or the
\* write is lost, as it is when the context is over.
Flush ==
    /\ unflushed' = 0
    /\ \/ ctx = "live" /\ db' = st /\ UNCHANGED execFaults
       \/ ctx # "live" /\ UNCHANGED <<db, execFaults>>
       \/ ctx = "live" /\ ExecFault /\ UNCHANGED db

\* Terminal updates are written at once.
Eager(status) == status \in {"failed", "success", "skipped"}

DrainUpdate ==
    /\ chan # <<>>
    /\ chan' = Tail(chan)
    /\ IF Eager(Head(chan)[2]) \/ unflushed + 1 >= Batch
         THEN Flush
         ELSE unflushed' = unflushed + 1 /\ UNCHANGED <<db, execFaults>>
    /\ UNCHANGED <<pipe, walk, done, node, tries, st, outs, serr, ctx, levelErr, firstErr,
                   preCancelled, result, gateVars>>

DrainTick ==
    /\ unflushed > 0
    /\ Flush
    /\ UNCHANGED <<pipe, walk, done, node, tries, st, outs, serr, chan, ctx, levelErr, firstErr,
                   preCancelled, result, gateVars>>

\* The channel is closed and empty, and Execute joins.  Every goroutine's last
\* update is terminal, so the last write has been made.
DrainClose ==
    /\ walk = "drain" /\ chan = <<>> /\ unflushed = 0
    /\ walk' = "finalize"
    /\ UNCHANGED <<pipe, done, node, tries, st, db, outs, serr, chan, unflushed, ctx, levelErr,
                   firstErr, preCancelled, result, execFaults, gateVars>>

\* Mutant: a context error wins over the failure that came first.
FinalizeByCtx ==
    /\ walk = "finalize"
    /\ walk' = "over"
    /\ result' = IF preCancelled THEN "cancelled"
                 ELSE IF firstErr = "none" \/ ctx # "live" THEN "success" ELSE "failed"
    /\ UNCHANGED <<pipe, done, node, tries, st, db, outs, serr, chan, unflushed, ctx, levelErr,
                   firstErr, preCancelled, execFaults, gateVars>>

\* finalize
Finalize ==
    /\ walk = "finalize"
    /\ walk' = "over"
    /\ result' = IF preCancelled THEN "cancelled"
                 ELSE CASE firstErr = "none"   -> "success"
                        [] firstErr = "cancel" -> "cancelled"
                        [] firstErr = "error"  -> "failed"
    /\ UNCHANGED <<pipe, done, node, tries, st, db, outs, serr, chan, unflushed, ctx, levelErr,
                   firstErr, preCancelled, execFaults, gateVars>>

\* The operator cancels the run, or its deadline passes.
EndContext(how) ==
    /\ walk \in {"start", "level"} /\ ctx = "live"
    /\ ctx' = how
    /\ UNCHANGED <<pipe, walk, done, node, tries, st, db, outs, serr, chan, unflushed, levelErr,
                   firstErr, preCancelled, result, execFaults, gateVars>>

-----------------------------------------------------------------------------
NodeStep(s) ==
    \/ Enter(s) \/ GiveUp(s) \/ Skip(s) \/ StartStage(s) \/ AttemptSucceeds(s)
    \/ AttemptFails(s) \/ BackoffEnds(s) \/ AwaitApproval(s) \/ PollGate(s) \/ StageTimeout(s)
    \/ Leave(s)

DrainStep == DrainUpdate \/ DrainTick \/ DrainClose

ExecNext ==
    \/ Execute \/ NextLevel \/ DrainStep \/ Finalize
    \/ \E s \in Stage : NodeStep(s) \/ Panic(s)
    \/ \E how \in {"cancelled", "deadline"} : EndContext(how)
    \/ GateNext /\ UNCHANGED execVars

ExecSpec == GateInit /\ ExecInit /\ [][ExecNext]_<<execVars, gateVars>>

\* Goroutines run, calls return, timers and stage timeouts fire.
ExecFairness ==
    /\ WF_execVars(Execute \/ NextLevel \/ Finalize)
    /\ WF_execVars(DrainStep)
    /\ \A s \in Stage : WF_execVars(NodeStep(s))

-----------------------------------------------------------------------------
\* Joins: what has started was allowed by every incoming edge, and what was
\* skipped was not, judged by the statuses the upstream stages have now.  It
\* holds because the level barrier makes upstream statuses final.
JoinRespected ==
    pipe.conditions =>
        /\ \A s \in Stage : st[s] \in {"running", "success", "failed"} => StageShouldRun(s)
        /\ \A s \in Stage : st[s] = "skipped" => ~StageShouldRun(s)

\* No goroutine of an ancestor is in its task while a stage is in its own: the
\* statuses and outputs a stage reads without a lock are never being written.
AncestorsSettled ==
    \A s \in InFlight : \A a \in ancestorsOf(s) : node[a] = "ended"

\* No stage depends on itself, directly or not, every reference points at a stage
\* it depends on, and none is for review only.
Executable ==
    \A s \in Stage : /\ s \notin ancestorsOf(s)
                      /\ pipe.refs[s] \subseteq ancestorsOf(s)
                      /\ pipe.kind[s] # "review"

\* A pipeline is executed exactly when it is executable: Kahn's counting
\* (ValidatePipelineDAG) walks no pipeline with a cycle and refuses none without.
\* A run that was refused comes to finalize as it was created.
CyclesRefused ==
    /\ walk \in {"level", "drain"} => Executable
    /\ walk = "finalize" /\ result = "pending" => ~Executable

\* Every reported outcome that the drain goroutine has taken from the channel
\* is in the run row, as long as no write was lost: a crash forgets at most the
\* stages still being reported.
ProgressPersisted ==
    execFaults = 0 /\ ctx = "live" =>
        \A s \in Stage : node[s] = "ended" /\ (\A i \in DOMAIN chan : chan[i][1] # s)
            => db[s] = st[s]

\* The result tells the truth: a successful run has only successful and skipped
\* stages, a cancelled run was cancelled, a stage that ended in an error keeps
\* the run from success, and a run that failed had a stage that failed of its own,
\* a pipeline that is not executable, or a deadline.
ResultHonest ==
    walk = "over" =>
        /\ result = "success" => \A s \in Stage : st[s] \in {"success", "skipped"}
        /\ result = "cancelled" => preCancelled \/ ctx = "cancelled"
        /\ (\E s \in Stage : serr[s] # "none") => result # "success"
        /\ result = "failed" => \/ \E s \in Stage : serr[s] = "error"
                                \/ ~Executable
                                \/ ctx = "deadline"

\* Execute returns, whatever the stages do: a gate nobody clicks, an adapter
\* that fails every time and a full channel included.
ExecuteEnds == (walk # "start") ~> (walk = "over")

\* The executor's promise: stages run after all they depend on, as their edges
\* allow; exactly the pipelines without a cycle are executed; and both the run row and the
\* result tell what happened.
ExecuteInv ==
    ExecTypeOK /\ JoinRespected /\ AncestorsSettled /\ CyclesRefused /\ ProgressPersisted /\ ResultHonest

=============================================================================
