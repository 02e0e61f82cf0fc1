------------------------------ MODULE AppRows ------------------------------
(***************************************************************************)
(* App rows: the handlers that create, edit and delete apps and rotate     *)
(* their webhook secret (handler/app.go, handler/app_inspection.go), the   *)
(* two stores (store/postgres/app.go, store/memory/app.go) and the writers *)
(* in the background: the health checker (service/app_health.go) and the   *)
(* deploy that publishes a URL.  A handler is a read, checks and a write;  *)
(* other writers come in between.  Each statement of a store is atomic.    *)
(***************************************************************************)
EXTENDS Integers, FiniteSets

CONSTANTS
    App,                \* ids of apps
    AppEdit,            \* requests that change an existing app
    Place,              \* scope and explicit prefix of a deploy target
    NoPlace,            \* no explicit prefix
    NoUrl, Url,         \* public URLs
    MaxSecret,          \* bound on rotations
    MaxTicks            \* bound on rounds of the health checker

ASSUME AppRowsAssumption ==
    /\ App # {} /\ MaxSecret \in Nat /\ MaxTicks \in Nat
    /\ NoPlace \notin Place /\ NoUrl \notin Url

VARIABLES
    appStore,           \* "postgres" or "memory"
    appRow,             \* appRow[a]: the row
    creating,           \* creating[a]: program point of CreateApp
    appEdit,            \* appEdit[e]: program point and the row it will write
    secrets,            \* rotations so far
    tick,               \* the health checker: [at, todo]
    ticks,              \* rounds so far
    observed            \* observed[a]: verdict and URL written last

appRowsVars == <<appStore, appRow, creating, appEdit, secrets, tick, ticks, observed>>

\* Two verdicts stand for all.
Verdict == {"unknown", "healthy"}
AppRecord ==
    [at : {"none", "live", "deleted"}, ver : Nat, place : Place \cup {NoPlace}, secret : 0..MaxSecret,
     health : Verdict, url : Url \cup {NoUrl}]

AppRowsTypeOK ==
    /\ appRow \in [App -> AppRecord]
    /\ creating \in [App -> {"idle", "writing", "done"}]
    /\ \A e \in AppEdit :
          /\ appEdit[e].at \in {"idle", "checking", "writing", "done"}
          /\ appEdit[e].app \in App /\ appEdit[e].row \in AppRecord
    /\ tick.at \in {"idle", "probing", "dead"} /\ tick.todo \subseteq App
    /\ observed \in [App -> [health : Verdict, url : Url \cup {NoUrl}]]

FreshRow(place) ==
    [at |-> "live", ver |-> 0, place |-> place, secret |-> 0, health |-> "unknown", url |-> NoUrl]

NoRow == [FreshRow(NoPlace) EXCEPT !.at = "none"]

\* The apps are still to be created, or there already.
AppRowsInit(live) ==
    /\ appStore \in {"postgres", "memory"}
    /\ appRow = [a \in App |-> IF live THEN FreshRow(NoPlace) ELSE NoRow]
    /\ creating = [a \in App |-> IF live THEN "done" ELSE "idle"]
    /\ appEdit = [e \in AppEdit |-> [at |-> "idle", app |-> CHOOSE a \in App : TRUE, row |-> NoRow]]
    /\ secrets = 0
    /\ tick = [at |-> "idle", todo |-> {}] /\ ticks = 0
    /\ observed = [a \in App |-> [health |-> "unknown", url |-> NoUrl]]

Live(a) == appRow[a].at = "live"

-----------------------------------------------------------------------------
(* Prefixes *)

\* The rows of other apps that have the explicit prefix of place, in its scope.
Clashing(a, place) == {b \in App \ {a} : Live(b) /\ place # NoPlace /\ appRow[b].place = place}

\* checkAppPrefix of the handlers: a look at the list, before the write.
checkAppPrefix(a, place) == Clashing(a, place) = {}

\* checkPrefix under the store's mutex; in PostgreSQL the unique index over
\* prefix, kind, namespace and host.
checkPrefix(a, place) == Clashing(a, place) = {}

-----------------------------------------------------------------------------
(* Creating and deleting *)

\* The place waits in the row that is not there yet.
CreateAppCheck(a, place) ==
    /\ creating[a] = "idle"
    /\ IF checkAppPrefix(a, place)
         THEN /\ creating' = [creating EXCEPT ![a] = "writing"]
              /\ appRow' = [appRow EXCEPT ![a].place = place]
         ELSE creating' = [creating EXCEPT ![a] = "done"] /\ UNCHANGED appRow
    /\ UNCHANGED <<appStore, appEdit, secrets, tick, ticks, observed>>

\* Create of the store: a conflict, or a row without secret and verdict.
CreateApp(a) ==
    /\ creating[a] = "writing" /\ creating' = [creating EXCEPT ![a] = "done"]
    /\ appRow' = IF checkPrefix(a, appRow[a].place)
                   THEN [appRow EXCEPT ![a] = FreshRow(@.place)] ELSE [appRow EXCEPT ![a] = NoRow]
    /\ UNCHANGED <<appStore, appEdit, secrets, tick, ticks, observed>>

\* DeleteApp, after the abort of a canary.
DeleteApp(a) ==
    /\ Live(a) /\ appRow' = [appRow EXCEPT ![a].at = "deleted"]
    /\ UNCHANGED <<appStore, creating, appEdit, secrets, tick, ticks, observed>>

-----------------------------------------------------------------------------
(* Editing *)

\* UpdateApp reads the row for the secret.  The rest comes from the body: the
\* version the client read at some time, a place, and what else it had seen.
UpdateAppGet(e, a, place, health) ==
    /\ appEdit[e].at = "idle" /\ Live(a)
    /\ \E ver \in 0..appRow[a].ver :
          appEdit' = [appEdit EXCEPT ![e] =
              [at |-> "checking", app |-> a,
               row |-> [at |-> "live", ver |-> ver, place |-> place, secret |-> appRow[a].secret,
                        health |-> health, url |-> NoUrl]]]
    /\ UNCHANGED <<appStore, appRow, creating, secrets, tick, ticks, observed>>

UpdateAppCheck(e) ==
    /\ appEdit[e].at = "checking"
    /\ appEdit' = [appEdit EXCEPT ![e].at =
                     IF checkAppPrefix(appEdit[e].app, appEdit[e].row.place) THEN "writing" ELSE "done"]
    /\ UNCHANGED <<appStore, appRow, creating, secrets, tick, ticks, observed>>

\* SetAppWebhookSecret writes the row that it read, with a new secret.
SetAppWebhookSecret(e, a) ==
    /\ appEdit[e].at = "idle" /\ Live(a) /\ secrets < MaxSecret
    /\ secrets' = secrets + 1
    /\ appEdit' = [appEdit EXCEPT ![e] =
                     [at |-> "writing", app |-> a, row |-> [appRow[a] EXCEPT !.secret = secrets + 1]]]
    /\ UNCHANGED <<appStore, appRow, creating, tick, ticks, observed>>

\* Mutant: the last writer wins.
UpdateAllowedBlind(a, row) == Live(a) /\ checkPrefix(a, row.place)

\* Update of the stores finds the row, at the version of the caller.
UpdateAllowed(a, row) == Live(a) /\ appRow[a].ver = row.ver /\ checkPrefix(a, row.place)

\* The columns that the UPDATE of PostgreSQL sets: neither verdict nor URL.
PostgresRow(a, row) ==
    [at |-> appRow[a].at, ver |-> row.ver + 1, place |-> row.place, secret |-> row.secret,
     health |-> appRow[a].health, url |-> appRow[a].url]

\* The store in memory keeps the caller's row.
MemoryRow(row) == [row EXCEPT !.ver = @ + 1]

UpdateAppPut(e) ==
    LET a == appEdit[e].app
        row == appEdit[e].row
    IN  /\ appEdit[e].at = "writing"
        /\ appEdit' = [appEdit EXCEPT ![e].at = "done"]
        /\ appRow' = IF UpdateAllowed(a, row)
                       THEN [appRow EXCEPT ![a] = IF appStore = "postgres" THEN PostgresRow(a, row)
                                                  ELSE MemoryRow(row)]
                       ELSE appRow
        /\ UNCHANGED <<appStore, creating, secrets, tick, ticks, observed>>

-----------------------------------------------------------------------------
(* Observations *)

\* UpdateHealth: no version; an empty URL leaves the column alone.  An app that
\* was deleted meanwhile is not found.
UpdateHealth(a, health, url) ==
    LET shown == IF url = NoUrl THEN appRow[a].url ELSE url
    IN  IF Live(a)
          THEN /\ appRow' = [appRow EXCEPT ![a].health = health, ![a].url = shown]
               /\ observed' = [observed EXCEPT ![a] = [health |-> health, url |-> IF url = NoUrl THEN @.url ELSE url]]
          ELSE UNCHANGED <<appRow, observed>>

\* UpdateDeployedURL, after a successful deploy; its failure is only logged.
UpdateDeployedURL(a, url) ==
    /\ Live(a) /\ appRow[a].url # url
    /\ appRow' = [appRow EXCEPT ![a].url = url] /\ observed' = [observed EXCEPT ![a].url = url]
    /\ UNCHANGED <<appStore, creating, appEdit, secrets, tick, ticks>>

\* tick lists the apps ...
TickList ==
    /\ tick.at = "idle" /\ ticks < MaxTicks
    /\ tick' = [at |-> "probing", todo |-> {a \in App : Live(a)}] /\ ticks' = ticks + 1
    /\ UNCHANGED <<appStore, appRow, creating, appEdit, secrets, observed>>

\* ... and probes one after the other; without a prober the verdict is unknown.
TickProbe(a) ==
    /\ tick.at = "probing" /\ a \in tick.todo
    /\ tick' = [tick EXCEPT !.todo = @ \ {a}]
    /\ \E health \in Verdict, url \in Url \cup {NoUrl} : UpdateHealth(a, health, url)
    /\ UNCHANGED <<appStore, creating, appEdit, secrets, ticks>>

\* A prober panics: recovered, with a verdict.
TickPanic(a) ==
    /\ tick.at = "probing" /\ a \in tick.todo
    /\ tick' = [tick EXCEPT !.todo = @ \ {a}]
    /\ UpdateHealth(a, "unknown", NoUrl)
    /\ UNCHANGED <<appStore, creating, appEdit, secrets, ticks>>

TickEnds ==
    /\ tick.at = "probing" /\ tick.todo = {}
    /\ tick' = [tick EXCEPT !.at = "idle"]
    /\ UNCHANGED <<appStore, appRow, creating, appEdit, secrets, ticks, observed>>

TickStep == TickEnds \/ \E a \in App : TickProbe(a) \/ TickPanic(a)

CreateNext ==
    \/ \E a \in App : CreateApp(a)
    \/ \E a \in App, place \in Place \cup {NoPlace} : CreateAppCheck(a, place)

EditAppNext(edits, places, healths) ==
    \/ \E a \in App : DeleteApp(a)
    \/ \E e \in edits :
          \/ UpdateAppCheck(e) \/ UpdateAppPut(e)
          \/ \E a \in App : SetAppWebhookSecret(e, a)
          \/ \E a \in App, place \in places, health \in healths : UpdateAppGet(e, a, place, health)

ObserveNext == TickList \/ TickStep \/ \E a \in App, url \in Url : UpdateDeployedURL(a, url)

AppRowsNext == CreateNext \/ EditAppNext(AppEdit, Place \cup {NoPlace}, Verdict) \/ ObserveNext

AppRowsSpec == (\E live \in BOOLEAN : AppRowsInit(live)) /\ [][AppRowsNext]_appRowsVars

-----------------------------------------------------------------------------
\* No two apps have one explicit prefix in one scope, however creations and
\* edits overlap between the handler's look at the list and the write.
PrefixUnique == \A a \in App : Live(a) => Clashing(a, appRow[a].place) = {}

\* A rotated webhook secret stays: an edit that read the old one does not bring
\* it back.
SecretKept ==
    [][\A a \in App : Live(a) /\ appRow'[a].at = "live" => appRow'[a].secret >= appRow[a].secret]_appRowsVars

\* "a concurrent Update from the user must not lose its race with a background
\* probe write", nor the other way round: in PostgreSQL the row shows the last
\* verdict and URL written, whatever edits happen around them.
ObservationsShown ==
    \A a \in App : Live(a) /\ appStore = "postgres" =>
        appRow[a].health = observed[a].health /\ appRow[a].url = observed[a].url

\* "one bad app must not block the rest": every app a round of the checker has
\* listed is dealt with, whichever prober panics.
EveryAppProbed == \A a \in App : (a \in tick.todo) ~> (a \notin tick.todo)

\* Edits, probes and deploys that write one app row lose none of each other's
\* columns, prefixes stay unique, and every app of a round is probed.
AppRowsCorrect ==
    [](AppRowsTypeOK /\ PrefixUnique /\ ObservationsShown) /\ SecretKept /\ EveryAppProbed

=============================================================================
