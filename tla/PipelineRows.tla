---------------------------- MODULE PipelineRows ----------------------------
(***************************************************************************)
(* The definition of a pipeline from the editor to the runs that execute   *)
(* it: the editor's store (frontend/src/stores/pipelineStore.ts and the    *)
(* page around it), the handlers of handler/pipeline.go, the versioned row *)
(* (store/postgres/pipeline.go, store/memory/pipeline.go), the stamp that  *)
(* a run gets and the run diff that compares two stamps.                   *)
(*                                                                         *)
(* UpdatePipeline reads the row, then writes it under the version it read; *)
(* the version that the editor sends along is not used.  Ids are never     *)
(* reused, so one pipeline is modelled from its creation to its deletion.  *)
(***************************************************************************)
EXTENDS Naturals, FiniteSets

CONSTANTS
    PipelineEditor,     \* open editor pages
    Definition,         \* stages, edges, variables and deadline of a pipeline
    NoDefinition,
    MaxSaves            \* bound: saves of all editors

ASSUME PipelineRowsAssumption == MaxSaves \in Nat /\ NoDefinition \notin Definition /\ IsFiniteSet(PipelineEditor)

VARIABLES
    rowStore,           \* "postgres" or "memory"
    queued,             \* runs go through the job queue, else inline
    row,                \* [state, def, version]: the pipeline's row
    page,               \* page[e]: usePipelineStore and the busy flag
    put,                \* put[e]: the PUT /pipelines/:id of the page
    saves,              \* saves sent so far
    started,            \* started[e]: the run that the page started
    stored              \* stored[v]: the definition last stored as version v

rowsVars == <<rowStore, queued, row, page, put, saves, started, stored>>

Versions == 0 .. MaxSaves + 1
NoPut == [at |-> "none", def |-> NoDefinition, version |-> 0, run |-> FALSE]
ClosedPage == [at |-> "closed", def |-> NoDefinition, version |-> 0, dirty |-> FALSE]
NotStarted == [at |-> "none", version |-> 0, def |-> NoDefinition]

RowsTypeOK ==
    /\ rowStore \in {"postgres", "memory"} /\ queued \in BOOLEAN
    /\ row \in [state : {"none", "live", "deleted"}, def : Definition \cup {NoDefinition}, version : Versions]
    /\ page \in [PipelineEditor -> [at : {"closed", "idle", "saving", "starting"},
                                    def : Definition \cup {NoDefinition}, version : Versions, dirty : BOOLEAN]]
    /\ put \in [PipelineEditor -> [at : {"none", "sent", "read", "saved", "refused"},
                                   def : Definition \cup {NoDefinition}, version : Versions, run : BOOLEAN]]
    /\ saves \in 0 .. MaxSaves
    /\ started \in [PipelineEditor -> [at : {"none", "pending", "executed", "failed"}, version : Versions,
                                       def : Definition \cup {NoDefinition}]]
    /\ stored \in [Versions -> Definition \cup {NoDefinition}]

RowsInit ==
    /\ rowStore \in {"postgres", "memory"} /\ queued \in BOOLEAN
    /\ row = [state |-> "none", def |-> NoDefinition, version |-> 0]
    /\ page = [e \in PipelineEditor |-> ClosedPage]
    /\ put = [e \in PipelineEditor |-> NoPut]
    /\ saves = 0
    /\ started = [e \in PipelineEditor |-> NotStarted]
    /\ stored = [v \in Versions |-> NoDefinition]

-----------------------------------------------------------------------------
\* The handler sets version 0, which the memory store keeps; PostgreSQL's INSERT
\* leaves the column to its default, 1.
FirstVersion == IF rowStore = "postgres" THEN 1 ELSE 0

\* createPipeline, from a JSON body or an imported YAML document.
createPipeline(d) ==
    /\ row.state = "none"
    /\ row' = [state |-> "live", def |-> d, version |-> FirstVersion]
    /\ stored' = [stored EXCEPT ![FirstVersion] = d]
    /\ UNCHANGED <<rowStore, queued, page, put, saves, started>>

DeletePipeline ==
    /\ row.state = "live"
    /\ row' = [row EXCEPT !.state = "deleted"]
    /\ UNCHANGED <<rowStore, queued, page, put, saves, started, stored>>

\* loadPipeline fills the editor's store.
loadPipeline(e) ==
    /\ page[e].at = "closed" /\ row.state = "live"
    /\ page' = [page EXCEPT ![e] = [at |-> "idle", def |-> row.def, version |-> row.version, dirty |-> FALSE]]
    /\ UNCHANGED <<rowStore, queued, row, put, saves, started, stored>>

\* A click on the canvas (add, remove, connect, configure, move a stage ...)
\* changes the copy in the editor's store, also while a save is under way.
EditCanvas(e, d) ==
    /\ page[e].at # "closed" /\ saves < MaxSaves /\ page[e].def # d
    /\ page' = [page EXCEPT ![e].def = d, ![e].dirty = TRUE]
    /\ UNCHANGED <<rowStore, queued, row, put, saves, started, stored>>

\* handleSave, or the save that handleRun starts with.
savePipeline(e, thenRun) ==
    /\ page[e].at = "idle" /\ page[e].dirty /\ saves < MaxSaves
    /\ thenRun => started[e] = NotStarted
    /\ page' = [page EXCEPT ![e].at = "saving"]
    /\ put' = [put EXCEPT ![e] = [at |-> "sent", def |-> page[e].def, version |-> 0, run |-> thenRun]]
    /\ saves' = saves + 1
    /\ UNCHANGED <<rowStore, queued, row, started, stored>>

\* UpdatePipeline reads the row ...
UpdatePipelineGet(e) ==
    /\ put[e].at = "sent"
    /\ put' = [put EXCEPT ![e].at = IF row.state = "live" THEN "read" ELSE "refused", ![e].version = row.version]
    /\ UNCHANGED <<rowStore, queued, row, page, saves, started, stored>>

\* Mutant: the memory store does not compare the versions.
MatchesInPostgres(v) == row.state = "live" /\ (rowStore = "memory" \/ row.version = v)

\* The row is there and still has the version that was read.
Matches(v) == row.state = "live" /\ row.version = v

\* The version that a successful Update leaves in the caller's copy.
Acknowledged(v) == v + 1

\* The version of the row afterwards: the memory store keeps the caller's copy.
Stored(v) == IF rowStore = "postgres" THEN row.version + 1 ELSE v + 1

\* ... and writes it where the version still matches, or answers 409 or 404.
UpdatePipelinePut(e) ==
    LET p == put[e] IN
    /\ p.at = "read"
    /\ IF Matches(p.version)
       THEN /\ row' = [state |-> "live", def |-> p.def, version |-> Stored(p.version)]
            /\ stored' = [stored EXCEPT ![Stored(p.version)] = p.def]
            /\ put' = [put EXCEPT ![e].at = "saved", ![e].version = Acknowledged(p.version)]
       ELSE /\ put' = [put EXCEPT ![e].at = "refused"]
            /\ UNCHANGED <<row, stored>>
    /\ UNCHANGED <<rowStore, queued, page, saves, started>>

\* The editor keeps the server's copy; handleRun goes on to start the run.
SaveAnswered(e) ==
    /\ page[e].at = "saving" /\ put[e].at = "saved"
    /\ page' = [page EXCEPT ![e] = [at |-> IF put[e].run THEN "starting" ELSE "idle",
                                    def |-> put[e].def, version |-> put[e].version, dirty |-> FALSE]]
    /\ put' = [put EXCEPT ![e] = NoPut]
    /\ UNCHANGED <<rowStore, queued, row, saves, started, stored>>

\* An error is shown; the edits stay, unsaved, and no run is started.
SaveRefused(e) ==
    /\ page[e].at = "saving" /\ put[e].at = "refused"
    /\ page' = [page EXCEPT ![e].at = "idle"]
    /\ put' = [put EXCEPT ![e] = NoPut]
    /\ UNCHANGED <<rowStore, queued, row, saves, started, stored>>

\* handleRun of a page without unsaved edits.
handleRun(e) ==
    /\ page[e].at = "idle" /\ ~page[e].dirty /\ started[e] = NotStarted
    /\ page' = [page EXCEPT ![e].at = "starting"]
    /\ UNCHANGED <<rowStore, queued, row, put, saves, started, stored>>

\* RunPipeline reads the row and stamps the run with its version; an inline run
\* executes the definition just read, a queued one has only the ids.
RunPipeline(e) ==
    /\ page[e].at = "starting"
    /\ page' = [page EXCEPT ![e].at = "idle"]
    /\ started' = [started EXCEPT ![e] =
          IF row.state # "live" THEN [NotStarted EXCEPT !.at = "failed"]
          ELSE [at |-> "pending", version |-> row.version, def |-> IF queued THEN NoDefinition ELSE row.def]]
    /\ UNCHANGED <<rowStore, queued, row, put, saves, stored>>

ExecuteInline(e) ==
    /\ started[e].at = "pending" /\ ~queued
    /\ started' = [started EXCEPT ![e].at = "executed"]
    /\ UNCHANGED <<rowStore, queued, row, page, put, saves, stored>>

\* JobQueueRunner.Handle reads the pipeline again when a worker takes the job.
Handle(e) ==
    /\ started[e].at = "pending" /\ queued
    /\ started' = [started EXCEPT ![e].at = IF row.state = "live" THEN "executed" ELSE "failed", ![e].def = row.def]
    /\ UNCHANGED <<rowStore, queued, row, page, put, saves, stored>>

\* BuildRunDiff's verdict on the definitions of two runs.
definitionChanged(a, b) ==
    IF a.version > 0 /\ b.version > 0 THEN (IF a.version # b.version THEN "yes" ELSE "no") ELSE "unknown"

RowsNext(Created) ==
    \/ \E d \in Created : createPipeline(d)
    \/ DeletePipeline
    \/ \E e \in PipelineEditor :
          \/ loadPipeline(e) \/ (\E d \in Definition : EditCanvas(e, d))
          \/ (\E r \in BOOLEAN : savePipeline(e, r)) \/ UpdatePipelineGet(e) \/ UpdatePipelinePut(e)
          \/ SaveAnswered(e) \/ SaveRefused(e) \/ handleRun(e) \/ RunPipeline(e)
          \/ ExecuteInline(e) \/ Handle(e)

RowsSpec == RowsInit /\ [][RowsNext(Definition)]_rowsVars

-----------------------------------------------------------------------------
(***************************************************************************)
(* The run diff never calls two inline runs' definitions unchanged when    *)
(* the runs executed different ones: an accepted save always takes a       *)
(* version of its own, whatever saves it overlapped with.                  *)
(***************************************************************************)
UnchangedIsSame ==
    \A a, b \in PipelineEditor :
        (~queued /\ started[a].at = "executed" /\ started[b].at = "executed"
           /\ definitionChanged(started[a], started[b]) = "no") => started[a].def = started[b].def

(***************************************************************************)
(* What the editor shows as saved is what the server stored under the      *)
(* version the editor has, after loads, saves, conflicts and edits made    *)
(* during a save.                                                          *)
(***************************************************************************)
CleanPageIsStored ==
    \A e \in PipelineEditor :
        (page[e].at # "closed" /\ ~page[e].dirty) => page[e].def = stored[page[e].version]

(***************************************************************************)
(* A save that read the pipeline before it was deleted does not bring it   *)
(* back, and a run that was queued before does not execute it after.       *)
(***************************************************************************)
DeletedStaysDeleted ==
    [][row.state = "deleted" =>
         /\ row'.state = "deleted"
         /\ \A e \in PipelineEditor :
               (queued /\ started[e].at # "executed") => started'[e].at # "executed"]_rowsVars

\* Versions identify definitions, a page without edits shows what was stored, and
\* a deleted pipeline is neither saved nor run again.
RowsCorrect == [](RowsTypeOK /\ UnchangedIsSame /\ CleanPageIsStored) /\ DeletedStaysDeleted

=============================================================================
