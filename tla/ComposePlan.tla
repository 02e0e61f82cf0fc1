----------------------------- MODULE ComposePlan -----------------------------
(***************************************************************************)
(* From a Compose project to a pipeline: the review of the project         *)
(* (loadRepositoryCompose, composeCompatibility and bindExternalServices   *)
(* of service/app_inspection.go), the stages of the deploy                 *)
(* (synthesizePipelineFromCompose of service/app_deployer.go) and the      *)
(* Compose file that a Docker host runs (service/app_compose_runtime.go).  *)
(* Pure: the project is a constant of a behaviour.                         *)
(*                                                                         *)
(* A slug is a word with suffixes: sanitize of "Web" is the word web,      *)
(* "web-2" is web with <<2>>, so that a suffix may meet another name.      *)
(***************************************************************************)
EXTENDS Integers, Sequences, FiniteSets

CONSTANTS
    ServiceNames,       \* names of services, sorted
    Sanitized,          \* Sanitized[s]: the word and suffixes of sanitize(s)
    NoSlug

Service == {ServiceNames[i] : i \in DOMAIN ServiceNames}
SlugType == [word : STRING, suffix : Seq(Nat)]

ASSUME ComposePlanAssumption ==
    /\ ServiceNames \in Seq(Service)
    /\ \A i, j \in DOMAIN ServiceNames : ServiceNames[i] = ServiceNames[j] => i = j
    /\ \A s \in Service : Sanitized[s] \in SlugType
    /\ NoSlug \notin SlugType

\* services, the ones with a build section, their depends_on (dependent first)
\* and its condition; app's target kind and bindings [service -> consumers],
\* whether the environment has the keys of the bindings; and one more thing
\* that the first service asks for.
VARIABLE project

Kinds == {"docker-host", "kubernetes", "ecs", "cloud-run", "ssh"}
Conditions == {"service_started", "service_healthy", "service_completed_successfully"}

Bound == DOMAIN project.bindings
Deployed == project.services \ Bound
Needs(s) == {d \in project.services : <<s, d>> \in project.needs}
Ordered == SelectSeq(ServiceNames, LAMBDA s : s \in project.services)

-----------------------------------------------------------------------------
(* The review *)

\* sanitize: lower case, and a dash for every other character.
sanitize(s) == Sanitized[s]

\* The prefix is the same for all services of an app.
RuntimeServiceName(s) == sanitize(s)

\* What the loader refuses: included files, files outside of the repository,
\* env files that are not there, projects without a service.
Unloadable == {"include", "outside_repository", "env_file_missing"}
Loads == project.services # {} /\ project.asks \notin Unloadable

\* The targets that translate what a service asks for.
Translated ==
    [nothing |-> Kinds, volume |-> {"docker-host"}, bind_mount |-> {}, secrets |-> {}, container_name |-> {},
     healthcheck |-> {"docker-host", "ecs"}, command |-> {"docker-host", "ecs", "cloud-run"},
     entrypoint |-> {"docker-host"}, privileged |-> {}, udp_port |-> {"docker-host"},
     no_port_8080 |-> Kinds \ {"cloud-run"}, build_secrets |-> {}]

Asks == DOMAIN Translated \cup Unloadable \cup {"unset_variable"}

Projects ==
    [services : SUBSET Service, built : SUBSET Service, needs : SUBSET (Service \X Service),
     condition : Conditions, kind : Kinds, asks : Asks, envSet : BOOLEAN,
     bindings : UNION {[B -> SUBSET Service] : B \in SUBSET Service}]

\* The dependencies that a target does not translate.
UntranslatedNeeds(s) ==
    {d \in Needs(s) \ Bound : project.kind # "docker-host" \/ project.condition = "service_completed_successfully"}

\* composeCompatibility, of the services that are deployed.
composeCompatibility(s) ==
    /\ s = Head(Ordered) /\ project.asks \in DOMAIN Translated => project.kind \in Translated[project.asks]
    /\ UntranslatedNeeds(s) = {}

\* Mutant: the names seen so far are not kept.
IdentityCollidesNever(s) == FALSE

\* The workload name of a service was taken by one before it.
IdentityCollides(s) ==
    \E i, j \in DOMAIN ServiceNames :
        /\ i < j /\ ServiceNames[i] \in Deployed /\ ServiceNames[j] = s
        /\ RuntimeServiceName(ServiceNames[i]) = RuntimeServiceName(s)

\* A consumer is a deployed service, and then needs every key of the binding.
ConsumersValid(b) ==
    /\ project.bindings[b] \subseteq Deployed
    /\ project.bindings[b] # {} => project.envSet

\* "service %s depends on %s; add it as a binding consumer"
DependantsConsume(b) == \A s \in project.services : b \in Needs(s) => s \in project.bindings[b]

bindExternalServices ==
    \A b \in Bound : b \in project.services /\ ConsumersValid(b) /\ DependantsConsume(b)

\* loadRepositoryCompose without an error and without diagnostics.
Reviewed ==
    /\ Loads /\ project.asks # "unset_variable"
    /\ \A s \in Deployed : ~IdentityCollides(s) /\ composeCompatibility(s)
    /\ bindExternalServices

-----------------------------------------------------------------------------
(* The pipeline *)

Suffixed(base, i) == [word |-> base.word, suffix |-> Append(base.suffix, i)]

\* The name, or the name with the first suffix from 2 that is free.
Slug(base, used) ==
    IF base \notin used THEN base
    ELSE Suffixed(base, CHOOSE i \in 2..(Cardinality(used) + 2) :
                            /\ Suffixed(base, i) \notin used
                            /\ \A j \in 2..(i - 1) : Suffixed(base, j) \in used)

\* Slugs are given in order, to external services too.
slugAt[i \in 1..Len(ServiceNames)] ==
    IF ServiceNames[i] \in project.services
      THEN Slug(sanitize(ServiceNames[i]), {slugAt[j] : j \in 1..(i - 1)} \ {NoSlug}) ELSE NoSlug

slugOf(s) == slugAt[CHOOSE i \in DOMAIN ServiceNames : ServiceNames[i] = s]

StageId(type, s) == <<type, slugOf(s)>>

\* build and push of the services with a build section, deploy of all; a bound
\* service has no stage.
stages ==
    {StageId("deploy", s) : s \in Deployed}
      \cup {StageId(type, s) : type \in {"build", "push"}, s \in Deployed \cap project.built}

chainEdges ==
    UNION {{<<StageId("build", s), StageId("push", s)>>, <<StageId("push", s), StageId("deploy", s)>>} :
             s \in Deployed \cap project.built}

\* A deploy waits for the deploys of its dependencies, the bound ones skipped.
crossEdges ==
    {<<StageId("deploy", e[2]), StageId("deploy", e[1])>> : e \in {e \in project.needs : {e[1], e[2]} \subseteq Deployed}}

edges == chainEdges \cup crossEdges

\* deployRuntimeFor: the targets a Compose project can go to.
deployRuntimeFor == Kinds \ {"ssh"}

\* In a cycle every stage waits for another one of it.
Cyclic == \E S \in (SUBSET stages) \ {{}} : \A t \in S : \E u \in S : <<u, t>> \in edges

\* BuildDAGFromPipeline finds no unknown stage and no cycle.
Planned ==
    /\ Reviewed /\ project.kind \in deployRuntimeFor
    /\ \A e \in edges : {e[1], e[2]} \subseteq stages
    /\ ~Cyclic

\* registry, prefix and time are the same for all images of a deploy.
deployImage(s) == slugOf(s)

\* writeRuntimeCompose: the image that the Compose file of a Docker host names.
runtimeImage(s) == RuntimeServiceName(s)

\* Any project; planning it changes nothing.
ComposeSpec == project \in Projects /\ [][UNCHANGED project]_project

-----------------------------------------------------------------------------
\* "a service's deploy waits on its dependencies' deploys (depends_on)": in a plan
\* that is executed, what a deployed service depends on is deployed before it, or
\* is an external service that is bound for it, with the keys of the binding set.
DependenciesFirst ==
    Planned => \A s \in Deployed : \A d \in Needs(s) :
        IF d \in Bound THEN s \in project.bindings[d] /\ project.envSet
        ELSE <<StageId("deploy", d), StageId("deploy", s)>> \in edges /\ StageId("deploy", d) \in stages

\* "Only reviewed images run": the image a Docker host runs for a service is the
\* one that the plan has built and pushed for it.  Stated for projects in which
\* no external service takes the name of another one.
ComposeRunsPushed ==
    (Planned /\ project.kind = "docker-host"
       /\ \A b \in Bound : \A s \in project.services \ {b} : sanitize(b) # sanitize(s))
    => \A s \in Deployed \cap project.built : runtimeImage(s) = deployImage(s)

\* What the review accepts can be planned, unless its services depend on each
\* other in a circle: the plan has no edge to a stage that does not exist.
ReviewedIsPlanned ==
    (Reviewed /\ project.kind \in deployRuntimeFor
       /\ ~\E S \in (SUBSET Deployed) \ {{}} : \A s \in S : Needs(s) \cap S # {})
    => Planned

\* A plan orders services behind what they depend on, runs the images it pushed
\* and is the one that was reviewed, for every Compose project.
ComposeInv == project \in Projects /\ DependenciesFirst /\ ComposeRunsPushed /\ ReviewedIsPlanned

=============================================================================
