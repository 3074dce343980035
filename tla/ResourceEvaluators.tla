------------------------- MODULE ResourceEvaluators -------------------------
(***************************************************************************)
(* What an inspection finds in the objects of a cluster: for each kind of  *)
(* object the facts the collector derives from it and from the objects     *)
(* listed with it, and the issues the evaluator of the kind makes of the   *)
(* facts.  Texts, evidence and correlation keys of an issue are left out.  *)
(*                                                                         *)
(* An object is a record; `since` is the time its phase or condition       *)
(* began.  Times are in one unit, whatever the unit of a threshold.        *)
(***************************************************************************)
EXTENDS CronSchedule

CONSTANT Threshold  \* InspectionThresholds

(* validate_threshold_order, and the bounds of the fields.                 *)
ASSUME ThresholdAssumption ==
  /\ Threshold \in [tlsWarning : Nat, tlsCritical : Nat, pvcWarning : Nat, pvcCritical : Nat,
                    pvReleased : Nat, jobIncomplete : Nat, podTerminating : Nat,
                    nodeNotReady : Nat, restartWindow : Nat, restartDelta : Nat \ {0},
                    usageCycles : Nat \ {0}]
  /\ Threshold.tlsCritical <= Threshold.tlsWarning
  /\ Threshold.pvcWarning <= Threshold.pvcCritical

None == "none"
Info == 1
Warning == 2
Critical == 3

(* An issue: its code, the object it is about and its severity.            *)
Issue(code, o, severity) == <<code, o.name, severity>>
When(condition, code, o, severity) ==
  IF condition THEN {Issue(code, o, severity)} ELSE {}

Age(since, t) == IF since <= t THEN t - since ELSE 0
Reached(since, limit, t) == Age(since, t) >= limit

(* A selector is a set of requirements on labels, which are pairs of a key *)
(* and a value; an empty one matches nothing.                              *)
SelectorMatches(selector, labels) ==
  LET values(q) == {l[2] : l \in {x \in labels : x[1] = q.key}}
  IN /\ selector # {}
     /\ \A q \in selector :
          CASE q.op = "in" -> values(q) \cap q.values # {}
            [] q.op = "not in" -> values(q) \cap q.values = {}
            [] q.op = "has" -> values(q) # {}
            [] q.op = "has not" -> values(q) = {}

-----------------------------------------------------------------------------
(* Workloads.                                                              *)

(* Deployments and StatefulSets; only the former can be paused or stalled. *)
ReplicaCandidates(o) ==
  IF o.desired = 0 \/ o.paused THEN {}
  ELSE When(o.stalled, "WORKLOAD_ROLLOUT_STALLED", o, Critical)
       \cup When(~o.stalled /\ o.ready < o.desired, "WORKLOAD_REPLICAS_UNAVAILABLE", o, Warning)

DaemonSetCandidates(o) ==
  When(o.desired > 0 /\ o.unavailable > 0, "WORKLOAD_REPLICAS_UNAVAILABLE", o, Warning)

JobFails(o) == o.failed > 0 \/ o.failedCondition

(* Mutant of JobLingers: the age is compared the other way round.          *)
JobLingersAtFirst(o, t) ==
  ~o.complete /\ ~o.hasDeadline /\ ~Reached(o.since, Threshold.jobIncomplete, t)

JobLingers(o, t) ==
  ~o.complete /\ ~o.hasDeadline /\ Reached(o.since, Threshold.jobIncomplete, t)

JobCandidates(o, t) ==
  When(JobFails(o), "JOB_FAILED", o, Warning)
  \cup When(~JobFails(o) /\ JobLingers(o, t), "JOB_FAILED", o, Info)

ScheduleInvalid(o) == ~IsValid(o.schedule)

(* o.since is the last start of the CronJob, or its creation.              *)
MissedSchedule(o, t) ==
  LET latest == LatestCronSchedule(o.schedule, t)
  IN /\ ~ScheduleInvalid(o)
     /\ latest > o.since
     /\ ~o.hasDeadline \/ t - latest > o.deadline

FailedJobs(o, jobs) == {j \in jobs : j.owner = o.name /\ j.failed > 0}

CronJobCandidates(o, jobs, t) ==
  When(~o.suspended /\ (FailedJobs(o, jobs) # {} \/ MissedSchedule(o, t)),
       "CRONJOB_NOT_SCHEDULED", o, Warning)

-----------------------------------------------------------------------------
(* Pods.                                                                   *)

IsTerminatingStuck(o, t) == o.terminating /\ Reached(o.since, Threshold.podTerminating, t)

(* `missing` says whether a ConfigMap, Secret, ServiceAccount or claim the *)
(* pod refers to was not found, `delta` how often it has restarted since   *)
(* the previous inspection.                                                *)
PodCandidates(o, missing, delta, t) ==
  IF o.phase = "Succeeded" THEN {}
  ELSE When(~o.ready, "POD_NOT_READY", o, Warning)
       \cup When("init" \in o.waiting, "POD_INIT_CONTAINER_FAILED", o, Warning)
       \cup When("image" \in o.waiting, "POD_IMAGE_PULL_FAILED", o, Warning)
       \cup When(missing, "POD_CONFIG_REFERENCE_MISSING", o, Warning)
       \cup When(IsTerminatingStuck(o, t), "POD_TERMINATING_STUCK", o, Warning)
       \cup When(delta >= Threshold.restartDelta, "POD_RESTART_SPIKE", o, Warning)

-----------------------------------------------------------------------------
(* Services, Ingresses and certificates.                                   *)

(* The selector of a Service is a set of labels.                           *)
Selects(selector, pod) == selector # {} /\ selector \subseteq pod.labels

ServiceFacts(o, pods, slices, ingresses) ==
  LET own == {s \in slices : s.service = o.name}
  IN [selected |-> {p \in pods : Selects(o.selector, p)},
      slices |-> own,
      ready |-> \E s \in own : s.ready > 0,
      referenced |-> \E i \in ingresses : \E b \in i.backends : b.service = o.name]

ServiceCandidates(o, facts) ==
  IF o.external \/ (o.selector = {} /\ facts.slices = {} /\ ~facts.referenced) THEN {}
  ELSE When(o.selector # {} /\ facts.selected = {}, "SERVICE_SELECTOR_MISMATCH", o, Warning)
       \cup When(~facts.ready, "SERVICE_NO_READY_ENDPOINT", o,
                 IF facts.referenced THEN Critical ELSE Warning)

(* A backend whose Service is missing is a fact no issue is made of.       *)
InvalidPorts(o, services) ==
  {b \in o.backends : \E s \in services : s.name = b.service /\ b.port \notin s.ports}

IngressCandidates(o, services, classes) ==
  When(InvalidPorts(o, services) # {}, "INGRESS_BACKEND_PORT_INVALID", o, Critical)
  \cup When(o.class # None /\ o.class \notin classes, "INGRESS_CLASS_NOT_FOUND", o, Warning)

Expiry(o, t) == IF t > o.until THEN "TLS_CERT_EXPIRED" ELSE "TLS_CERT_EXPIRING"

(* Mutant of Expires: the days left are compared with one threshold each.  *)
ExpiresOnce(o, limit, t) == t <= o.until /\ o.until - t = limit

Expires(o, limit, t) == t > o.until \/ o.until - t <= limit

(* Names are sequences of labels; "*" stands for one label.                *)
DnsNameMatches(host, pattern) ==
  \/ host = pattern
  \/ Len(host) = Len(pattern) /\ Head(pattern) = "*" /\ Tail(host) = Tail(pattern)

HostMatches(o, hosts) == \A h \in hosts : \E n \in o.names : DnsNameMatches(h, n)

(* `hosts` are those of the Ingresses that name the Secret.                *)
CertificateCandidates(o, hosts, t) ==
  IF ~o.parses THEN When(TRUE, "TLS_KEY_MISMATCH", o, Critical)
  ELSE When(t < o.from, "TLS_CERT_EXPIRED", o, Critical)
       \cup When(Expires(o, Threshold.tlsCritical, t), Expiry(o, t), o, Critical)
       \cup When(Expires(o, Threshold.tlsWarning, t) /\ ~Expires(o, Threshold.tlsCritical, t),
                 "TLS_CERT_EXPIRING", o, Warning)
       \cup When(~HostMatches(o, hosts), "TLS_HOST_MISMATCH", o, Critical)
       \cup When(~o.keyMatches, "TLS_KEY_MISMATCH", o, Critical)

MissingSecret(name) == {<<"TLS_SECRET_NOT_FOUND", name, Critical>>}

-----------------------------------------------------------------------------
(* Storage.                                                                *)

AwaitsConsumer(o, pods, classes) ==
  /\ o.phase = "Pending"
  /\ \E c \in classes : c.name = o.class /\ c.mode = "WaitForFirstConsumer"
  /\ \A p \in pods : o.name \notin p.claims

ClaimCandidates(o, pods, classes, t) ==
  IF AwaitsConsumer(o, pods, classes) THEN {}
  ELSE When(o.phase = "Lost", "PVC_NOT_BOUND", o, Critical)
       \cup When(o.phase = "Pending" /\ Reached(o.since, Threshold.pvcCritical, t),
                 "PVC_NOT_BOUND", o, Critical)
       \cup When(/\ o.phase = "Pending"
                 /\ Reached(o.since, Threshold.pvcWarning, t)
                 /\ ~Reached(o.since, Threshold.pvcCritical, t),
                 "PVC_NOT_BOUND", o, Warning)

VolumeCandidates(o, t) ==
  When(o.phase = "Failed", "PV_FAILED", o, Critical)
  \cup When(o.phase = "Released" /\ Reached(o.since, Threshold.pvReleased, t),
            "PV_RELEASED_STALE", o, Info)

-----------------------------------------------------------------------------
(* Nodes and usage.                                                        *)

NodeFacts(o, pods) ==
  [impact |-> \E p \in pods : /\ p.node = o.name
                              /\ p.phase \notin {"Succeeded", "Failed"}
                              /\ ~p.ready]

NodeCandidates(o, facts, t) ==
  When(~o.ready /\ Reached(o.since, Threshold.nodeNotReady, t), "NODE_NOT_READY", o, Critical)
  \cup When(o.pressure, "NODE_PRESSURE", o, IF facts.impact THEN Critical ELSE Warning)

(* A sample is over its limit when the pod it belongs to, as listed with   *)
(* it, has a limit.                                                        *)
IsOver(o, pods) == o.high /\ \E p \in pods : p.name = o.name /\ p.limited

(* consecutive is the counter of the sample after this inspection.         *)
UsageCandidates(o, pods, consecutive, trigger) ==
  When(trigger = "scheduled" /\ ~o.stale /\ IsOver(o, pods)
         /\ consecutive >= Threshold.usageCycles,
       "RESOURCE_USAGE_HIGH", o, Warning)
=============================================================================
