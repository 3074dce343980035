------------------------- MODULE ResourceCollection -------------------------
(***************************************************************************)
(* An inspection collects the status of a cluster call by call, while the  *)
(* cluster goes on changing, and each call may fail.  A failed call leaves *)
(* an empty list behind and marks its check as failed; the other checks go *)
(* on.  When all calls are made, the collection is evaluated: check by     *)
(* check for a namespace, a selection of its pods or a single pod; for the *)
(* cluster, global checks on the objects without a namespace and a         *)
(* namespace's checks on its own observations.                             *)
(*                                                                         *)
(* Two things live longer than an inspection: the restart counts last seen *)
(* of each pod, shared by overlapping collections, and the counters of     *)
(* high usage.                                                             *)
(***************************************************************************)
EXTENDS ResourceEvaluators, Functions, Sequences, SequencesExt

CONSTANTS
  Namespace,   \* names of namespaces
  Pod,         \* names of pods that restart or are metered
  Worlds,      \* clusters with their policies, and what inspects them
  MaxTime,     \* bound on the clock
  MaxRestarts, \* bound on the restarts of all pods
  MaxFaults    \* bound on failed calls of one inspection

ASSUME CollectionAssumption == {MaxTime, MaxRestarts, MaxFaults} \subseteq Nat

(* The times in the objects a call may find are numbers.                   *)
ASSUME WorldsAssumption ==
  \A w \in Worlds :
    /\ {w.from, w.until} \subseteq 0..MaxTime
    /\ \A c \in DOMAIN w.finds : \A objects \in w.finds[c] : \A o \in objects :
         /\ c[1] \in {"jobs", "pods", "pvcs", "pvs", "nodes"} => o.since \in Int
         /\ c[1] = "secrets" => o.until \in Int

VARIABLES
  now,       \* the time
  world,     \* the world inspected: `finds`, the sets of objects each call may find;
             \* `moves`, the calls whose objects change; `required`, the policy; the
             \* `inspectors`, `targets` and `triggers`; `from` and `until`, its time
  cluster,   \* what each call finds at the moment
  restarts,  \* pod and time of each restart
  samples,   \* RestartSampleStore: total restarts last seen, and when
  counters,  \* resource_metric_states: consecutive scheduled samples too high
  run        \* what each inspector does

vars == <<now, world, cluster, restarts, samples, counters, run>>

Stamp == 0..MaxTime

(* A call is what it lists and the namespace it lists it in, or None.      *)
Version == <<"version", None>>
Namespaces == <<"namespaces", None>>
IngressClasses == <<"ingressclasses", None>>
StorageClasses == <<"storageclasses", None>>
Nodes == <<"nodes", None>>
AllPods == <<"allpods", None>>
AllMetrics == <<"podmetrics", None>>
NodeMetrics == <<"nodemetrics", None>>

NoTarget == [type |-> None, ns |-> None, selector |-> {}, pod |-> None]

(* An inspection: the calls left, what the calls made have found, those    *)
(* that failed, the restarts of the pods listed and their increase; and,   *)
(* for the properties, whether the cluster has stood still.                *)
Idle == [target |-> NoTarget, trigger |-> None, at |-> 0, todo |-> {}, got |-> <<>>,
         failed |-> {}, totals |-> [p \in Pod |-> 0], deltas |-> [p \in Pod |-> 0],
         quiet |-> TRUE]

(* What InspectionScope.validate_target admits, and the kinds of components *)
(* and names of objects there are.                                         *)
ASSUME TargetsAssumption ==
  /\ None \notin Namespace
  /\ \A w \in Worlds :
       /\ \A t \in w.targets :
            \/ /\ t.type = "cluster" /\ t.ns = None /\ t.selector = {} /\ t.pod = None
               /\ Namespaces \in DOMAIN w.finds
            \/ t.type = "namespace" /\ t.ns \in Namespace /\ t.pod = None
            \/ t.type = "pod" /\ t.ns \in Namespace /\ t.selector = {} /\ t.pod # None
       /\ \A q \in w.required :
            /\ q.ns \in Namespace
            /\ q.kind \in {"Deployment", "StatefulSet", "DaemonSet", "Pod", "Service"}
       /\ \A c \in DOMAIN w.finds : \A objects \in w.finds[c] : \A o \in objects :
            /\ c = Namespaces => o.name \in Namespace
            /\ c[1] = "podmetrics" => o.ns \in Namespace

Active(r) == r.target # NoTarget
Collected(r) == Active(r) /\ r.todo = {}

Types ==
  /\ now \in Stamp
  /\ world \in Worlds
  /\ DOMAIN cluster = DOMAIN world.finds
  /\ \A c \in DOMAIN cluster : cluster[c] \in world.finds[c]
  /\ restarts \in Seq(Pod \X Stamp)
  /\ samples \subseteq [pod : Pod, total : 0..MaxRestarts, at : Stamp]
  /\ \A s, t \in samples : s.pod = t.pod => s = t
  /\ counters \in [Pod -> 0..Threshold.usageCycles]
  /\ DOMAIN run = world.inspectors
  /\ \A i \in DOMAIN run :
       LET r == run[i] IN
       /\ r.target \in world.targets \cup {NoTarget}
       /\ r.trigger \in world.triggers \cup {None}
       /\ r.at \in Stamp
       /\ r.failed \subseteq DOMAIN r.got
       /\ r.totals \in [Pod -> 0..MaxRestarts]
       /\ r.deltas \in [Pod -> 0..MaxRestarts]

(* No call is made twice.                                                  *)
CallsAhead ==
  \A i \in DOMAIN run : run[i].todo \cap DOMAIN run[i].got = {}

TypeOK == Types /\ CallsAhead

(* Enumerates what calls may find.                                         *)
Assignments(finds) ==
  FoldSet(LAMBDA c, fs : {(c :> objects) @@ f : objects \in finds[c], f \in fs},
          {<<>>}, DOMAIN finds)

(* What the calls find: for each call one of its sets.                     *)
Clusters(finds) ==
  {f \in Assignments(finds) :
     DOMAIN f = DOMAIN finds /\ \A c \in DOMAIN finds : f[c] \in finds[c]}

Init ==
  /\ world \in Worlds
  /\ now = world.from
  /\ cluster \in Clusters(world.finds)
  /\ restarts = <<>>
  /\ samples = {}
  /\ counters = [p \in Pod |-> 0]
  /\ run = [i \in world.inspectors |-> Idle]

-----------------------------------------------------------------------------
(* The cluster.                                                            *)

Tick ==
  /\ now < world.until
  /\ now' = now + 1
  /\ UNCHANGED <<world, cluster, restarts, samples, counters, run>>

Disturbed == [i \in DOMAIN run |-> IF Active(run[i]) THEN [run[i] EXCEPT !.quiet = FALSE]
                                  ELSE run[i]]

Change(c) ==
  /\ c \in world.moves
  /\ \A i \in DOMAIN run : run[i].quiet
  /\ \E objects \in world.finds[c] \ {cluster[c]} : cluster' = [cluster EXCEPT ![c] = objects]
  /\ run' = Disturbed
  /\ UNCHANGED <<now, world, restarts, samples, counters>>

Listed(kind) == UNION {cluster[c] : c \in {d \in DOMAIN cluster : d[1] = kind}}

RestartPod(p) ==
  /\ Len(restarts) < MaxRestarts
  /\ \E o \in Listed("pods") : o.name = p /\ o.restarting
  /\ restarts' = Append(restarts, <<p, now>>)
  /\ UNCHANGED <<now, world, cluster, samples, counters, run>>

-----------------------------------------------------------------------------
(* Calls.  A world names the calls that matter in it; the others find      *)
(* nothing and never fail.                                                 *)

Matters(c) ==
  \/ c \in DOMAIN cluster
  \/ c \in {AllPods, AllMetrics} /\ Nodes \in DOMAIN cluster

Mattering(calls) == {c \in calls : Matters(c)}

(* A label selector is passed on to the listing of pods; a single pod is   *)
(* read by its name.                                                       *)
Answer(target, c) ==
  CASE c = AllPods -> Listed("pods")
    [] c = AllMetrics -> Listed("podmetrics")
    [] c[1] = "pods" -> {o \in cluster[c] : /\ target.selector \subseteq o.labels
                                            /\ target.pod \in {o.name, None}}
    [] c[1] = "podmetrics" /\ c # AllMetrics -> {o \in cluster[c] : target.pod \in {o.name, None}}
    [] OTHER -> cluster[c]

Positions(list) == [kind \in Range(list) |-> CHOOSE k \in DOMAIN list : list[k] = kind]

(* Classes are listed once for a whole cluster.                            *)
ClusterOrder ==
  Positions(<<"version", "namespaces", "ingressclasses", "storageclasses",
              "pods", "services", "deployments", "statefulsets", "daemonsets", "replicasets",
              "jobs", "cronjobs", "ingresses", "slices", "pvcs", "references", "secrets",
              "nodes", "allpods", "pvs", "podmetrics", "nodemetrics">>)
NamespaceOrder ==
  Positions(<<"version",
              "pods", "services", "deployments", "statefulsets", "daemonsets", "replicasets",
              "jobs", "cronjobs", "ingresses", "slices", "pvcs", "references",
              "ingressclasses", "secrets", "storageclasses", "podmetrics">>)

Listings == {"pods", "services", "deployments", "statefulsets", "daemonsets", "replicasets",
             "jobs", "cronjobs", "ingresses", "slices", "pvcs", "references", "secrets"}

On(kinds, n) == kinds \X {n}

NamespaceCalls(target, n) ==
  On(Listings, n)
  \cup IF target.type = "cluster" THEN {}
       ELSE {IngressClasses, StorageClasses} \cup On({"podmetrics"}, n)

FirstCalls(target) ==
  {Version} \cup
  CASE target.type = "cluster" -> {Namespaces}
    [] target.type = "namespace" -> NamespaceCalls(target, target.ns)
    [] target.type = "pod" -> On({"pods", "references", "podmetrics"}, target.ns)

(* The calls that follow the list of namespaces.                           *)
ClusterCalls(target, names) ==
  {IngressClasses, StorageClasses, Nodes, AllPods, <<"pvs", None>>, AllMetrics, NodeMetrics}
  \cup UNION {NamespaceCalls(target, n) : n \in names}

(* A namespace that has been begun is completed before the next one.       *)
Precedes(r, d, c) ==
  LET order == IF r.target.type = "cluster" THEN ClusterOrder ELSE NamespaceOrder IN
  IF None \notin {c[2], d[2]} /\ c[2] # d[2] THEN \E e \in DOMAIN r.got : e[2] = d[2]
  ELSE order[d[1]] < order[c[1]]

IsNext(r, c) == c \in r.todo /\ \A d \in r.todo : ~Precedes(r, d, c)

NamesOf(objects) == {o.name : o \in objects}

StartRun(i, target, trigger) ==
  /\ ~Active(run[i])
  /\ run' = [run EXCEPT ![i] = [Idle EXCEPT !.target = target, !.trigger = trigger,
                                            !.at = now,
                                            !.todo = Mattering(FirstCalls(target))]]
  /\ UNCHANGED <<now, world, cluster, restarts, samples, counters>>

(* The calls left after c has been answered, or has not.                   *)
Left(r, c, answered, objects) ==
  CASE c = Namespaces /\ answered ->
         (r.todo \ {c}) \cup Mattering(ClusterCalls(r.target, NamesOf(objects)))
    [] c = Nodes /\ ~answered -> r.todo \ {c, AllPods}
    [] c = AllMetrics /\ ~answered -> r.todo \ {c, NodeMetrics}
    [] c[1] = "pods" /\ r.target.pod # None /\ ~answered -> {}
    [] OTHER -> r.todo \ {c}

Total(p) == Cardinality({k \in DOMAIN restarts : restarts[k][1] = p})

(* Mutant of IsRecent: whatever has been seen before counts.               *)
IsKept(sample, r) == TRUE
IsRecent(sample, r) == r.at <= sample.at + Threshold.restartWindow

(* Mutant of Delta: the total may also be the older one.                   *)
DeltaSigned(r, p) ==
  IF \E s \in samples : s.pod = p /\ IsRecent(s, r)
    THEN r.totals[p] - (CHOOSE s \in samples : s.pod = p).total
    ELSE 0

(* observe(): the increase since the pod was last seen, if that is recent. *)
Delta(r, p) ==
  IF \E s \in samples : s.pod = p /\ IsRecent(s, r) /\ s.total < r.totals[p]
    THEN r.totals[p] - (CHOOSE s \in samples : s.pod = p).total
    ELSE 0

(* Samples are dropped after two windows (in the code, after an hour if    *)
(* that is longer: then they are no longer recent either).                 *)
Observed(r, pods) ==
  {s \in samples : s.pod \notin pods /\ r.at <= s.at + 2 * Threshold.restartWindow}
  \cup {[pod |-> p, total |-> r.totals[p], at |-> r.at] : p \in pods}

Found(r, kind, n) == IF <<kind, n>> \in DOMAIN r.got THEN r.got[<<kind, n>>] ELSE {}

(* What a call has found is kept.  The pods of a namespace are observed    *)
(* once their references have been looked up.                              *)
Proceed(i, c, answered, refused, objects) ==
  LET r == run[i]
      seen == IF c[1] = "references" THEN Pod \cap NamesOf(Found(r, "pods", c[2])) ELSE {}
  IN
  /\ run' = [run EXCEPT ![i] =
       [r EXCEPT !.todo = Left(r, c, answered, objects),
                 !.got = [d \in DOMAIN @ \cup {c} |-> IF d = c THEN objects ELSE @[d]],
                 !.failed = IF answered \/ refused THEN @ ELSE @ \cup {c},
                 !.totals = [p \in Pod |-> IF c[1] = "pods" /\ p \in NamesOf(objects)
                                             THEN Total(p) ELSE @[p]],
                 !.deltas = [p \in Pod |-> IF p \in seen THEN Delta(r, p) ELSE @[p]]]]
  /\ samples' = IF seen = {} THEN samples ELSE Observed(r, seen)
  /\ UNCHANGED <<now, world, cluster, restarts, counters>>

-----------------------------------------------------------------------------
(* What counts of what has been found.                                     *)

OwnerOf(pod, replicasets) ==
  IF pod.owner[1] = "ReplicaSet"
     /\ \E s \in replicasets : s.name = pod.owner[2] /\ s.deployment # None
    THEN <<"Deployment", (CHOOSE s \in replicasets : s.name = pod.owner[2]).deployment>>
    ELSE pod.owner

Backends(ingress) == {b.service : b \in ingress.backends}

(* With a label selector only what is related to the pods listed counts.   *)
IsRelated(r, n, kind, o) ==
  LET pods == Found(r, "pods", n)
      slices == Found(r, "slices", n)
      owners == {OwnerOf(p, Found(r, "replicasets", n)) : p \in pods}
      owning == owners \cup {<<"CronJob", j.owner>> : j \in
                               {k \in Found(r, "jobs", n) : <<"Job", k.name>> \in owners}}
      services ==
        {s.name : s \in {t \in Found(r, "services", n) : \E p \in pods : Selects(t.selector, p)}}
        \cup {s.service : s \in {t \in slices : t.targets \cap NamesOf(pods) # {}}}
  IN CASE kind = "deployments" -> <<"Deployment", o.name>> \in owning
       [] kind = "statefulsets" -> <<"StatefulSet", o.name>> \in owning
       [] kind = "daemonsets" -> <<"DaemonSet", o.name>> \in owning
       [] kind = "jobs" -> <<"Job", o.name>> \in owning
       [] kind = "cronjobs" -> <<"CronJob", o.name>> \in owning
       [] kind = "services" -> o.name \in services
       [] kind = "slices" -> o.service \in services
       [] kind = "ingresses" -> Backends(o) \cap services # {}
       [] kind = "pvcs" -> \E p \in pods : o.name \in p.claims
       [] OTHER -> TRUE

Kept(r, kind, n) ==
  {o \in Found(r, kind, n) : r.target.selector = {} \/ IsRelated(r, n, kind, o)}

(* References are looked up when there are pods, Secrets when an Ingress   *)
(* names one.                                                              *)
IsAsked(r, c) ==
  CASE c[1] = "references" -> Found(r, "pods", c[2]) # {}
    [] c[1] = "secrets" -> \E o \in Kept(r, "ingresses", c[2]) : o.secret # None
    [] OTHER -> TRUE

NotFound(r, c) == c[1] = "pods" /\ r.target.pod # None /\ Answer(r.target, c) = {}

CallAnswers(i, c) ==
  /\ IsNext(run[i], c)
  /\ ~NotFound(run[i], c)
  /\ Proceed(i, c, TRUE, FALSE, Answer(run[i].target, c))

CallFails(i, c) ==
  /\ IsNext(run[i], c)
  /\ \/ NotFound(run[i], c)
     \/ Cardinality(run[i].failed) < MaxFaults /\ IsAsked(run[i], c)
  /\ Proceed(i, c, FALSE, FALSE, {})

(* The Metrics API is not installed, or not ready: no failure.             *)
MetricsUnavailable(i, c) ==
  /\ IsNext(run[i], c)
  /\ c[1] \in {"podmetrics", "nodemetrics"}
  /\ Proceed(i, c, FALSE, TRUE, {})

-----------------------------------------------------------------------------
(* Observations.                                                           *)

Observation(kind, n, o, labels, current, issues) ==
  [kind |-> kind, ns |-> n, name |-> o.name, labels |-> labels, current |-> current,
   issues |-> issues]

Workload(kind, n, o, issues) == Observation(kind, n, o, o.labels, TRUE, issues)

WorkloadObservations(r, n) ==
  {Workload("Deployment", n, o, ReplicaCandidates(o)) : o \in Kept(r, "deployments", n)}
  \cup {Workload("StatefulSet", n, o, ReplicaCandidates(o)) : o \in Kept(r, "statefulsets", n)}
  \cup {Workload("DaemonSet", n, o, DaemonSetCandidates(o)) : o \in Kept(r, "daemonsets", n)}
  \cup {Workload("Job", n, o, JobCandidates(o, r.at)) : o \in Kept(r, "jobs", n)}
  \cup {Workload("CronJob", n, o, CronJobCandidates(o, Kept(r, "jobs", n), r.at)) :
          o \in Kept(r, "cronjobs", n)}

(* A reference that could not be looked up is not missing.                 *)
Missing(r, n, pod) ==
  <<"references", n>> \in DOMAIN r.got \ r.failed /\ ~(pod.refs \subseteq Found(r, "references", n))

PodObservations(r, n) ==
  {Observation("Pod", n, o, o.labels, TRUE,
     PodCandidates(o, Missing(r, n, o), IF o.name \in Pod THEN r.deltas[o.name] ELSE 0, r.at)) :
   o \in Found(r, "pods", n)}

ServiceObservations(r, n) ==
  LET facts(o) == ServiceFacts(o, Found(r, "pods", n), Kept(r, "slices", n), Kept(r, "ingresses", n))
  IN {Observation("Service", n, o, o.labels, TRUE, ServiceCandidates(o, facts(o))) :
        o \in Kept(r, "services", n)}

IngressObservations(r, n) ==
  LET classes == NamesOf(Found(r, "ingressclasses", None))
  IN {Observation("Ingress", n, o, {}, TRUE,
                  IngressCandidates(o, Kept(r, "services", n), classes)) :
        o \in Kept(r, "ingresses", n)}

TLSObservations(r, n) ==
  LET ingresses == Kept(r, "ingresses", n)
      names == {o.secret : o \in ingresses} \ {None}
      hosts(m) == UNION {o.hosts : o \in {i \in ingresses : i.secret = m}}
      found == {o \in Found(r, "secrets", n) : o.name \in names}
  IN IF <<"secrets", n>> \notin DOMAIN r.got \ r.failed THEN {}
     ELSE {Observation("TLSSecret", n, o, {}, TRUE, CertificateCandidates(o, hosts(o.name), r.at)) :
             o \in found}
          \cup {Observation("TLSSecret", n, [name |-> m], {}, TRUE, MissingSecret(m)) :
                  m \in names \ NamesOf(found)}

StorageObservations(r, n) ==
  {Observation("PersistentVolumeClaim", n, o, {}, TRUE,
     ClaimCandidates(o, Found(r, "pods", n), Found(r, "storageclasses", None), r.at)) :
   o \in Kept(r, "pvcs", n)}

NodeObservations(r) ==
  {Observation("Node", None, o, {}, TRUE,
     NodeCandidates(o, NodeFacts(o, Found(r, "allpods", None)), r.at)) :
   o \in Found(r, "nodes", None)}

VolumeObservations(r) ==
  {Observation("PersistentVolume", None, o, {}, TRUE, VolumeCandidates(o, r.at)) :
   o \in Found(r, "pvs", None)}

NodeUsageObservations(r) ==
  {Observation("NodeMetric", None, o, {}, ~o.stale, {}) : o \in Found(r, "nodemetrics", None)}

VersionObservations(r) ==
  {Observation("KubernetesVersion", None, o, {}, o.supported, {}) : o \in Found(r, "version", None)}

(* The pods the collector has at hand when it reads the metrics.           *)
MeteredPods(r) ==
  IF r.target.type = "cluster" THEN Found(r, "allpods", None) ELSE Found(r, "pods", r.target.ns)
Samples(r) ==
  IF r.target.type = "cluster" THEN Found(r, "podmetrics", None)
  ELSE Found(r, "podmetrics", r.target.ns)

(* _enrich_metric_state: counters end at the threshold here.               *)
Enriched(r, p) ==
  LET m == {o \in Samples(r) : o.name = p /\ ~o.stale} IN
  IF r.trigger # "scheduled" \/ m = {} THEN counters[p]
  ELSE IF \A o \in m : ~IsOver(o, MeteredPods(r)) THEN 0
  ELSE IF counters[p] < Threshold.usageCycles THEN counters[p] + 1 ELSE counters[p]

UsageObservations(r) ==
  {Observation("PodMetric", o.ns, o, {}, ~o.stale,
     UsageCandidates(o, MeteredPods(r), Enriched(r, o.name), r.trigger)) : o \in Samples(r)}

Observations(r) ==
  NodeObservations(r) \cup VolumeObservations(r) \cup VersionObservations(r)
  \cup UsageObservations(r) \cup NodeUsageObservations(r)
  \cup UNION {WorkloadObservations(r, n) \cup PodObservations(r, n) \cup ServiceObservations(r, n)
              \cup IngressObservations(r, n) \cup TLSObservations(r, n)
              \cup StorageObservations(r, n) : n \in Namespace}

-----------------------------------------------------------------------------
(* Evaluation.                                                             *)

NamespaceChecks == {"workload.status", "pod.runtime", "service.endpoints", "ingress.config_chain",
                    "tls.certificate", "storage.status", "metrics.resource"}
Checks == NamespaceChecks \cup {"kubernetes.version", "node.health"}

(* Mutant of SharedChecks: a cluster-wide failure stays with the cluster.  *)
NoChecks == {}
SharedChecks == {"ingress.config_chain", "storage.status", "metrics.resource"}

CheckOfKind(kind) ==
  CASE kind \in {"Deployment", "StatefulSet", "DaemonSet", "Job", "CronJob"} -> "workload.status"
    [] kind = "Pod" -> "pod.runtime"
    [] kind = "Service" -> "service.endpoints"
    [] kind = "Ingress" -> "ingress.config_chain"
    [] kind = "TLSSecret" -> "tls.certificate"
    [] kind \in {"PersistentVolumeClaim", "PersistentVolume"} -> "storage.status"
    [] kind = "Node" -> "node.health"
    [] kind \in {"PodMetric", "NodeMetric"} -> "metrics.resource"
    [] OTHER -> "kubernetes.version"

(* The checks a failed call is reported under.                             *)
ChecksOfCall(c) ==
  CASE c[1] = "namespaces" -> {"workload.status", "pod.runtime"}
    [] c[1] \in {"pods", "references"} -> {"pod.runtime"}
    [] c[1] \in {"services", "slices"} -> {"service.endpoints"}
    [] c[1] \in {"ingresses", "ingressclasses"} -> {"ingress.config_chain"}
    [] c[1] = "secrets" -> {"tls.certificate"}
    [] c[1] \in {"pvcs", "pvs", "storageclasses"} -> {"storage.status"}
    [] c[1] \in {"nodes", "allpods"} -> {"node.health"}
    [] c[1] \in {"podmetrics", "nodemetrics"} -> {"metrics.resource"}
    [] c[1] = "version" -> {"kubernetes.version"}
    [] OTHER -> {"workload.status"}

Failures(r) ==
  (UNION {ChecksOfCall(c) \X {c[2]} : c \in r.failed})
  \cup {<<"workload.status", n>> : n \in
          {m \in Namespace : \E o \in Kept(r, "cronjobs", m) : ScheduleInvalid(o)}}

Skips(check, observations) ==
  /\ check \in {"kubernetes.version", "metrics.resource"}
  /\ \A o \in observations : CheckOfKind(o.kind) = check => ~o.current

(* evaluation(): a failure outweighs and discards what was found.          *)
Evaluation(n, check, issues, failed, skipped) ==
  [ns |-> n, check |-> check,
   issues |-> IF failed THEN {} ELSE issues,
   status |-> CASE failed -> "failed"
                [] ~failed /\ issues # {} -> "abnormal"
                [] ~failed /\ issues = {} -> IF skipped THEN "skipped" ELSE "passed"]

Evaluate(n, check, observations, failed) ==
  Evaluation(n, check,
             UNION {o.issues : o \in {p \in observations : CheckOfKind(p.kind) = check}},
             failed, Skips(check, observations))

RequiredIssues(r, observations) ==
  {<<"REQUIRED_COMPONENT_MISSING", q.name, Critical>> : q \in
     {p \in world.required : \A o \in observations :
        ~(o.ns = p.ns /\ o.kind = p.kind /\ SelectorMatches(p.selector, o.labels))}}

(* A failure counts here only when it names a namespace.                   *)
RequiredFails(failures) ==
  \E p, q \in world.required : <<CheckOfKind(p.kind), q.ns>> \in failures

RequiredEvaluation(r, observations, failures) ==
  Evaluation(r.target.ns, "required_components",
             IF r.target.type = "cluster" THEN RequiredIssues(r, observations) ELSE {},
             RequiredFails(failures),
             r.target.type # "cluster" \/ world.required = {})

Evaluations(r) ==
  LET seen == Observations(r)
      failures == Failures(r)
      names == ({o.ns : o \in seen} \cup {f[2] : f \in failures}) \ {None}
      At(n) == {o \in seen : o.ns = n}
      FailsAt(check, n) == \/ <<check, n>> \in failures
                           \/ check \in SharedChecks /\ <<check, None>> \in failures
  IN {RequiredEvaluation(r, seen, failures)} \cup
     IF r.target.type = "cluster" /\ names # {}
       THEN {Evaluate(None, check, At(None), <<check, None>> \in failures) : check \in Checks}
            \cup {Evaluate(n, check, At(n), FailsAt(check, n)) :
                    n \in names, check \in NamespaceChecks}
       ELSE {Evaluate(r.target.ns, check, seen, \E f \in failures : f[1] = check) :
               check \in Checks}

(* Mutant of RunStatus: failed checks are ignored.                         *)
StatusOfCompleted(statuses) ==
  IF statuses \subseteq {"failed"} THEN "failed"
  ELSE IF "skipped" \in statuses THEN "partial"
  ELSE "succeeded"

(* _aggregate_run_status                                                   *)
RunStatus(statuses) ==
  IF statuses \subseteq {"failed"} THEN "failed"
  ELSE IF {"failed", "skipped"} \cap statuses # {} THEN "partial"
  ELSE "succeeded"

(* The counters are saved and the evaluations handed to the lifecycle.     *)
Finish(i) ==
  /\ Collected(run[i])
  /\ counters' = [p \in Pod |-> Enriched(run[i], p)]
  /\ run' = [run EXCEPT ![i] = Idle]
  /\ UNCHANGED <<now, world, cluster, restarts, samples>>

Next ==
  \/ Tick
  \/ \E c \in DOMAIN cluster : Change(c)
  \/ \E p \in Pod : RestartPod(p)
  \/ \E i \in DOMAIN run :
       \/ \E t \in world.targets, g \in world.triggers : StartRun(i, t, g)
       \/ \E c \in run[i].todo : CallAnswers(i, c) \/ CallFails(i, c) \/ MetricsUnavailable(i, c)
       \/ Finish(i)

Spec == Init /\ [][Next]_vars

-----------------------------------------------------------------------------
(* The inspection that would have got an answer to every call.             *)
AllCalls(target) ==
  Mattering(FirstCalls(target) \cup
            IF target.type = "cluster" THEN ClusterCalls(target, NamesOf(cluster[Namespaces]))
            ELSE {})

Ideal(r) == [r EXCEPT !.got = [c \in AllCalls(r.target) |-> Answer(r.target, c)], !.failed = {}]

(* All calls are made of a cluster that stood still, and some got none of  *)
(* what there was: only then may the evaluations differ.                   *)
IsBlind(r) == Collected(r) /\ r.quiet /\ Ideal(r) # r

IssuesAt(evaluations, n, check) ==
  UNION {e.issues : e \in {f \in evaluations : f.ns = n /\ f.check = check}}

(* What a listing feeds besides the check it is reported under.  With a    *)
(* label selector everything related to the pods is picked by them.        *)
FedBy(c, selector) ==
  CASE c[1] = "namespaces" -> Checks \cup {"required_components"}
    [] c[1] = "pods" -> IF selector = {}
                          THEN {"service.endpoints", "storage.status", "metrics.resource"}
                          ELSE NamespaceChecks
    [] c[1] \in {"services", "slices"} -> {"ingress.config_chain"}
                                         \cup IF selector = {} THEN {} ELSE {"tls.certificate"}
    [] c[1] = "ingresses" -> {"service.endpoints", "tls.certificate"}
    [] c[1] \in {"nodes", "allpods"} -> {"metrics.resource"}
    [] OTHER -> {}

Fed(r, e) == \E c \in r.failed : c[2] \in {e.ns, None} /\ e.check \in FedBy(c, r.target.selector)

(* A check that is reported as completed has found what an inspection      *)
(* without a failed call finds there, unless a failed listing is reported  *)
(* under another check and feeds this one.  (Every listing that fails      *)
(* leaves an empty list behind, which looks healthy.)                      *)
CompletedIsRight ==
  \A i \in DOMAIN run :
    LET r == run[i]
        ideal == Evaluations(Ideal(r))
    IN IsBlind(r) =>
         \A e \in Evaluations(r) :
           e.status \in {"passed", "abnormal"} /\ ~Fed(r, e)
             => e.issues = IssuesAt(ideal, e.ns, e.check)

(* An inspection that is reported as succeeded has found all there is.     *)
SucceededSawAll ==
  \A i \in DOMAIN run :
    LET r == run[i]
        evaluations == Evaluations(r)
    IN /\ IsBlind(r)
       /\ RunStatus({e.status : e \in evaluations}) = "succeeded"
       => UNION {e.issues : e \in evaluations} = UNION {e.issues : e \in Evaluations(Ideal(r))}

(* A component is reported as missing only if it is not there.             *)
MissingIsMissing ==
  \A i \in DOMAIN run :
    LET r == run[i] IN
    IsBlind(r) =>
      IssuesAt(Evaluations(r), None, "required_components")
        \subseteq IssuesAt(Evaluations(Ideal(r)), None, "required_components")

(* The restarts a spike is made of happened within the window before the   *)
(* inspection, whoever has seen the pod before and however long ago.       *)
NoSpikeFromHistory ==
  \A i \in DOMAIN run :
    LET r == run[i]
        recent(p) == {k \in DOMAIN restarts : /\ restarts[k][1] = p
                                             /\ restarts[k][2] + Threshold.restartWindow >= r.at}
    IN Collected(r) =>
         \A p \in Pod :
           (\E n \in Namespace : \E o \in PodObservations(r, n) :
              <<"POD_RESTART_SPIKE", p, Warning>> \in o.issues)
             => Cardinality(recent(p)) >= Threshold.restartDelta

Worst(issues) == IF issues = {} THEN 0 ELSE Max({x[3] : x \in issues})

(* An object left alone never looks healthier later: as time passes an     *)
(* issue may come up or get worse, none goes away.  (Certificates not yet  *)
(* valid do heal, and CronJobs with a deadline.)  Looked at between the    *)
(* inspections.                                                            *)
AgingNeverHeals ==
  LET Worsens(Candidates(_, _), objects) ==
        \A o \in objects, s, t \in Stamp :
          s <= t => Worst(Candidates(o, s)) <= Worst(Candidates(o, t))
      OfPod(o, t) == PodCandidates(o, FALSE, 0, t)
      OfClaim(o, t) == ClaimCandidates(o, Listed("pods"), Listed("storageclasses"), t)
      OfNode(o, t) == NodeCandidates(o, NodeFacts(o, Listed("pods")), t)
      OfCertificate(o, t) == CertificateCandidates(o, {}, t)
  IN (\A i \in DOMAIN run : ~Active(run[i])) =>
     /\ Worsens(JobCandidates, Listed("jobs"))
     /\ Worsens(OfPod, Listed("pods"))
     /\ Worsens(OfClaim, Listed("pvcs"))
     /\ Worsens(VolumeCandidates, Listed("pvs"))
     /\ Worsens(OfNode, Listed("nodes"))
     /\ Worsens(OfCertificate, {o \in Listed("secrets") : o.from = 0})
=============================================================================
