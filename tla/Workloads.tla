------------------------------ MODULE Workloads ------------------------------
(***************************************************************************)
(* The deployers behind a deploy stage (deploy/deployer): client-go        *)
(* applies the documents of a manifest one by one, docker run replaces a   *)
(* container, docker compose brings a stack up under a mutex.  Several     *)
(* deploys of one name overlap; each may be cancelled, and a step that     *)
(* fails ends its deploy with the earlier steps done.                      *)
(* Also the Fargate size both the preview and the ECS adapter compute.     *)
(***************************************************************************)
EXTENDS Integers, FiniteSets, Sequences, FiniteSetsExt

CONSTANTS
    Deploy,             \* calls of Deploy
    Docs,               \* documents of the manifest, blank ones left out
    maxManifestDocs,    \* cap on documents
    Nobody, NoWork,
    Demands             \* sizes asked for: half vCPU-units and half MiB

ASSUME WorkloadsAssumption ==
    /\ Docs \in Nat /\ maxManifestDocs \in Nat /\ Nobody \notin Deploy
    /\ Demands \subseteq [cpu : Nat, memory : Nat]

VARIABLES
    backend,            \* "clientgo", "dockerrun" or "compose"
    at,                 \* program point of each deploy
    nextDoc,            \* nextDoc[d]: documents it has gone through
    patched,            \* patched[d]: documents that it applied
    object,             \* object[i]: who applied document i last
    reach,              \* the cluster configuration: "untried", "ok", "broken"
    container,          \* whose container holds the name
    composeMu,          \* who holds the mutex of the Compose deployer
    stack,              \* deploys that touched the stack
    cancelled,          \* deploys whose context ended
    ask                 \* the size asked for

workVars == <<backend, at, nextDoc, patched, object, reach, container, composeMu, stack, cancelled, ask>>

WorkTypeOK ==
    /\ at \in [Deploy -> {"idle", "applying", "removed", "locking", "locked", "ok", "failed"}]
    /\ nextDoc \in [Deploy -> 0..Docs] /\ patched \in [Deploy -> SUBSET (1..Docs)]
    /\ composeMu \in Deploy \cup {Nobody} /\ container \in Deploy \cup {NoWork}
    /\ stack \subseteq Deploy /\ cancelled \subseteq Deploy

WorkInit ==
    /\ backend \in {"clientgo", "dockerrun", "compose"}
    /\ at = [d \in Deploy |-> "idle"] /\ nextDoc = [d \in Deploy |-> 0]
    /\ patched = [d \in Deploy |-> {}] /\ object = [i \in 1..Docs |-> NoWork]
    /\ reach = "untried" /\ container = NoWork /\ composeMu = Nobody
    /\ stack = {} /\ cancelled = {} /\ ask \in Demands

Step(d, point) == at' = [at EXCEPT ![d] = point] /\ UNCHANGED <<backend, cancelled>>

CancelDeploy(d) ==
    /\ at[d] \in {"applying", "removed", "locking", "locked"} /\ d \notin cancelled
    /\ cancelled' = cancelled \cup {d}
    /\ UNCHANGED <<backend, at, nextDoc, patched, object, reach, container, composeMu, stack, ask>>

-----------------------------------------------------------------------------
(* client-go *)

\* ensureClients: tried once, for better or worse.
ensureClients == reach' \in IF reach = "untried" THEN {"ok", "broken"} ELSE {reach}

\* splitManifest refuses a manifest of too many documents.
splitManifest == Docs <= maxManifestDocs

ClientGoStart(d) ==
    /\ backend = "clientgo" /\ at[d] = "idle"
    /\ ensureClients
    /\ Step(d, IF reach' = "ok" /\ splitManifest THEN "applying" ELSE "failed")
    /\ UNCHANGED <<nextDoc, patched, object, container, composeMu, stack, ask>>

\* Server-side apply of the next document.
ClientGoApply(d) ==
    /\ backend = "clientgo" /\ at[d] = "applying" /\ nextDoc[d] < Docs /\ d \notin cancelled
    /\ nextDoc' = [nextDoc EXCEPT ![d] = @ + 1]
    /\ patched' = [patched EXCEPT ![d] = @ \cup {nextDoc[d] + 1}]
    /\ object' = [object EXCEPT ![nextDoc[d] + 1] = d]
    /\ UNCHANGED <<backend, at, reach, container, composeMu, stack, cancelled, ask>>

\* A document that cannot be decoded, mapped or applied, AlreadyExists
\* included, ends the deploy.
ClientGoRefused(d) ==
    /\ backend = "clientgo" /\ at[d] = "applying" /\ nextDoc[d] < Docs
    /\ Step(d, "failed")
    /\ UNCHANGED <<nextDoc, patched, object, reach, container, composeMu, stack, ask>>

ClientGoDone(d) ==
    /\ backend = "clientgo" /\ at[d] = "applying" /\ nextDoc[d] = Docs
    /\ Step(d, "ok")
    /\ UNCHANGED <<nextDoc, patched, object, reach, container, composeMu, stack, ask>>

-----------------------------------------------------------------------------
(* docker run *)

\* docker rm -f, best effort.
DockerRemove(d) ==
    /\ backend = "dockerrun" /\ at[d] = "idle"
    /\ container' \in {NoWork, container} /\ Step(d, "removed")
    /\ UNCHANGED <<nextDoc, patched, object, reach, composeMu, stack, ask>>

\* docker run: the name must be free.
DockerRun(d) ==
    /\ backend = "dockerrun" /\ at[d] = "removed" /\ container = NoWork /\ d \notin cancelled
    /\ container' = d /\ Step(d, "ok")
    /\ UNCHANGED <<nextDoc, patched, object, reach, composeMu, stack, ask>>

DockerRunFails(d) ==
    /\ backend = "dockerrun" /\ at[d] = "removed"
    /\ Step(d, "failed")
    /\ UNCHANGED <<nextDoc, patched, object, reach, container, composeMu, stack, ask>>

-----------------------------------------------------------------------------
(* docker compose *)

ComposeStart(d) ==
    /\ backend = "compose" /\ at[d] = "idle"
    /\ Step(d, "locking")
    /\ UNCHANGED <<nextDoc, patched, object, reach, container, composeMu, stack, ask>>

ComposeLock(d) ==
    /\ backend = "compose" /\ at[d] = "locking" /\ composeMu = Nobody
    /\ composeMu' = d /\ Step(d, "locked")
    /\ UNCHANGED <<nextDoc, patched, object, reach, container, stack, ask>>

\* Mutant: the context is not looked at again under the mutex.
ComposeMayRunStale(d) == TRUE

\* ctx.Err under the mutex.
ComposeMayRun(d) == d \notin cancelled

\* docker compose up, then the mutex is released.
ComposeUp(d) ==
    /\ backend = "compose" /\ at[d] = "locked"
    /\ composeMu' = Nobody
    /\ IF ComposeMayRun(d)
         THEN stack' = stack \cup {d} /\ \E end \in {"ok", "failed"} : Step(d, end)
         ELSE Step(d, "failed") /\ UNCHANGED stack
    /\ UNCHANGED <<nextDoc, patched, object, reach, container, ask>>

WorkNext ==
    \E d \in Deploy :
        \/ CancelDeploy(d) \/ ClientGoStart(d) \/ ClientGoApply(d) \/ ClientGoRefused(d) \/ ClientGoDone(d)
        \/ DockerRemove(d) \/ DockerRun(d) \/ DockerRunFails(d)
        \/ ComposeStart(d) \/ ComposeLock(d) \/ ComposeUp(d)

WorkSpec == WorkInit /\ [][WorkNext]_workVars

-----------------------------------------------------------------------------
(* Fargate sizes *)

\* The table of TaskSize.
sizes ==
    << [cpu |-> 256,   min |-> 512,   max |-> 2048,   step |-> 512],
       [cpu |-> 512,   min |-> 1024,  max |-> 4096,   step |-> 1024],
       [cpu |-> 1024,  min |-> 2048,  max |-> 8192,   step |-> 1024],
       [cpu |-> 2048,  min |-> 4096,  max |-> 16384,  step |-> 1024],
       [cpu |-> 4096,  min |-> 8192,  max |-> 30720,  step |-> 1024],
       [cpu |-> 8192,  min |-> 16384, max |-> 61440,  step |-> 4096],
       [cpu |-> 16384, min |-> 32768, max |-> 122880, step |-> 8192] >>

Ceil(n, m) == (n + m - 1) \div m

Larger(a, b) == IF a > b THEN a ELSE b

\* The loop over m, and the exception for 256 units.
RoundMemory(row, memory) ==
    LET m == row.min + row.step * Larger(0, Ceil(memory - row.min, row.step))
    IN  IF row.cpu = 256 /\ m = 1536 THEN 2048 ELSE m

\* TaskSize of what is asked for, in half units; zero asks for nothing.
TaskSize ==
    LET cpu == IF ask.cpu = 0 THEN 256 ELSE Ceil(ask.cpu, 2)
        memory == IF ask.memory = 0 THEN 512 ELSE Ceil(ask.memory, 2)
        fits == {i \in DOMAIN sizes : sizes[i].cpu >= cpu /\ sizes[i].max >= memory}
        row == sizes[Min(fits)]
    IN  IF ask.cpu > 2 * 16384 \/ ask.memory > 2 * 122880 \/ fits = {} THEN "refused"
        ELSE [cpu |-> row.cpu, memory |-> RoundMemory(row, memory)]

\* What AWS offers: the pairs of CPU units and MiB of a Linux Fargate task.
FargateTasks ==
         [cpu : {256}, memory : {512, 1024, 2048}]
    \cup {[cpu |-> 512, memory |-> 1024 * k] : k \in 1..4}
    \cup {[cpu |-> 1024, memory |-> 1024 * k] : k \in 2..8}
    \cup {[cpu |-> 2048, memory |-> 1024 * k] : k \in 4..16}
    \cup {[cpu |-> 4096, memory |-> 1024 * k] : k \in 8..30}
    \cup {[cpu |-> 8192, memory |-> 4096 * k] : k \in 4..15}
    \cup {[cpu |-> 16384, memory |-> 8192 * k] : k \in 4..15}

Covers(p) == 2 * p.cpu >= ask.cpu /\ 2 * p.memory >= ask.memory

-----------------------------------------------------------------------------
\* A client-go deploy that reports success has applied every document of its
\* manifest; none is skipped silently.
SuccessAppliesAll == \A d \in Deploy : backend = "clientgo" /\ at[d] = "ok" => patched[d] = 1..Docs

\* A deploy cancelled while it waits for the mutex never touches the stack.
CancelledLeavesStack ==
    [][\A d \in Deploy : d \in cancelled /\ at[d] \in {"locking", "locked"} => d \notin stack']_workVars

\* TaskSize selects the smallest task AWS offers that covers the demand: the
\* least CPU, and for it the least memory; it refuses only when there is none.
TaskSizeSmallest ==
    LET good == {p \in FargateTasks : Covers(p)}
    IN  IF good = {} THEN TaskSize = "refused"
        ELSE /\ TaskSize \in good
             /\ \A p \in good :
                  \/ p.cpu > TaskSize.cpu
                  \/ p.cpu = TaskSize.cpu /\ p.memory >= TaskSize.memory

\* A deploy that succeeds applied all of its manifest, a task is given the
\* smallest size that covers the demand, and a deploy that was cancelled while it
\* waited leaves the stack alone.  (The demand is part of the initial state.)
WorkCorrect == TaskSizeSmallest /\ [](WorkTypeOK /\ SuccessAppliesAll) /\ CancelledLeavesStack

=============================================================================
