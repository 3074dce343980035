------------------------ MODULE MCResourceCollection ------------------------
(* Small clusters, each made for one part of an inspection.                *)
EXTENDS ResourceCollection

CONSTANTS i1, i2   \* two inspectors

MCThreshold ==
  [tlsWarning |-> 2, tlsCritical |-> 1, pvcWarning |-> 1, pvcCritical |-> 2, pvReleased |-> 1,
   jobIncomplete |-> 2, podTerminating |-> 1, nodeNotReady |-> 1, restartWindow |-> 1,
   restartDelta |-> 2, usageCycles |-> 2]

(* Eight days of two hours of two minutes each.                            *)
MCCalendar ==
  [d \in 1..8 |-> [day |-> IF d <= 5 THEN d ELSE d - 5, month |-> IF d <= 5 THEN 1 ELSE 2,
                   weekday |-> d % 7]]

Always == [f \in Field \cup {"zoneIsKnown"} |-> IF f = "zoneIsKnown" THEN TRUE ELSE {Star}]
MCSchedules ==
  {[Always EXCEPT !.minutes = m, !.hours = h, !.days = d, !.months = n, !.weekdays = w] :
     m \in {{Star}, {Part(1, 1, 1)}}, h \in {{Star}, {StarStep(2)}, {Onwards(1, 1)}},
     d \in {{Star}, {Part(2, 4, 2)}, {Part(5, 5, 1)}}, n \in {{Star}, {Part(1, 1, 1)}},
     w \in {{Star}, {Part(7, 7, 1)}, {Part(1, 1, 1), Part(3, 3, 1)}}}

(* The search from day to day finds what the fields say, within the days   *)
(* it looks back on.                                                       *)
ASSUME CronFindsLatest ==
  \A s \in MCSchedules, t \in 0..(4 * Len(Calendar) - 1) :
    LatestCronSchedule(s, t) = LatestMatch(s, t)

Label == <<"app", "web">>
APod == [name |-> "p", labels |-> {Label}, phase |-> "Running", ready |-> TRUE, waiting |-> {},
         refs |-> {}, claims |-> {}, owner |-> <<"ReplicaSet", "rs">>, node |-> "node",
         terminating |-> FALSE, since |-> 0, restarting |-> FALSE, limited |-> FALSE]
AService == [name |-> "web", labels |-> {}, selector |-> {Label}, external |-> FALSE,
             ports |-> {80}]
ASlice == [name |-> "web-1", service |-> "web", ready |-> 1, targets |-> {"p"}]
AnIngress == [name |-> "site", backends |-> {[service |-> "web", port |-> 80]},
              class |-> "nginx", secret |-> "cert", hosts |-> {<<"www", "example">>}]
ASecret == [name |-> "cert", parses |-> TRUE, names |-> {<<"*", "example">>}, keyMatches |-> TRUE,
            from |-> 0, until |-> 3]
AClaim == [name |-> "data", phase |-> "Pending", since |-> 0, class |-> "late"]
AVolume == [name |-> "disk", phase |-> "Released", since |-> 0]
ADeployment == [name |-> "web", labels |-> {Label}, desired |-> 1, ready |-> 1, paused |-> FALSE,
                stalled |-> FALSE]
ADaemonSet == [name |-> "agent", labels |-> {}, desired |-> 1, unavailable |-> 1]
AJob == [name |-> "job", labels |-> {}, failed |-> 0, failedCondition |-> FALSE,
         complete |-> FALSE, hasDeadline |-> FALSE, since |-> 0, owner |-> "nightly"]
ACronJob == [name |-> "nightly", labels |-> {}, suspended |-> FALSE, schedule |-> Always,
             since |-> 0, hasDeadline |-> FALSE, deadline |-> 0]
ANode == [name |-> "node", ready |-> TRUE, since |-> 0, pressure |-> TRUE]
ASample == [name |-> "p", ns |-> "n1", high |-> TRUE, stale |-> FALSE]
ANodeSample == [name |-> "node", stale |-> FALSE]
AVersion == [name |-> "server", supported |-> TRUE]

In1(kind) == <<kind, "n1">>
In2(kind) == <<kind, "n2">>
Name(n) == [name |-> n]

Cluster == [NoTarget EXCEPT !.type = "cluster"]
Whole == [NoTarget EXCEPT !.type = "namespace", !.ns = "n1"]
Labelled == [Whole EXCEPT !.selector = {Label}]
Single == [NoTarget EXCEPT !.type = "pod", !.ns = "n1", !.pod = "p"]

World(finds, targets, until) ==
  [finds |-> finds, moves |-> {}, required |-> {}, inspectors |-> {i1}, targets |-> targets,
   triggers |-> {"scheduled"}, from |-> until, until |-> until]

Network == World(
  In1("pods") :> {{}, {APod}} @@
  In1("services") :> {{AService}, {[AService EXCEPT !.selector = {}, !.ports = {81}]}} @@
  In1("slices") :> {{}, {ASlice}, {[ASlice EXCEPT !.ready = 0]}} @@
  In1("ingresses") :> {{}, {AnIngress}} @@
  IngressClasses :> {{}, {Name("nginx")}} @@
  In1("secrets") :> {{}, {ASecret}, {[ASecret EXCEPT !.until = 2, !.names = {<<"other">>}]}},
  {Whole, Labelled}, 0)

Storage == World(
  Namespaces :> {{Name("n1")}} @@
  In1("pods") :> {{}, {[APod EXCEPT !.claims = {"data"}]}} @@
  StorageClasses :> {{}, {[name |-> "late", mode |-> "WaitForFirstConsumer"]}} @@
  In1("pvcs") :> {{AClaim}, {[AClaim EXCEPT !.phase = "Lost"]}} @@
  <<"pvs", None>> :> {{}, {AVolume}, {[AVolume EXCEPT !.phase = "Failed"]}},
  {Cluster, Whole, Labelled}, 2)

Workloads == World(
  Namespaces :> {{Name("n1")}} @@
  In1("pods") :> {{APod}, {[APod EXCEPT !.ready = FALSE, !.refs = {"config"},
                                        !.terminating = TRUE]}} @@
  In1("references") :> {{}, {"config"}} @@
  In1("deployments") :> {{}, {ADeployment}, {[ADeployment EXCEPT !.ready = 0]}} @@
  In1("daemonsets") :> {{ADaemonSet}} @@
  In1("replicasets") :> {{[name |-> "rs", deployment |-> "web"]}} @@
  In1("jobs") :> {{AJob}, {[AJob EXCEPT !.failed = 1]}} @@
  In1("cronjobs") :> {{ACronJob}, {[ACronJob EXCEPT !.schedule.zoneIsKnown = FALSE]},
                      {[ACronJob EXCEPT !.schedule.hours = {StarStep(2)}]}},
  {Whole, Labelled, Single}, 3)

(* Two namespaces, one of which may not be there.                          *)
TwoNamespaces == [World(
  Version :> {{AVersion}} @@
  Namespaces :> {{Name("n1")}, {Name("n1"), Name("n2")}} @@
  In1("deployments") :> {{ADeployment}, {[ADeployment EXCEPT !.labels = {}]}} @@
  In1("ingresses") :> {{[AnIngress EXCEPT !.secret = None]}} @@
  In2("pods") :> {{}, {[APod EXCEPT !.ready = FALSE, !.limited = TRUE]}} @@
  In2("pvcs") :> {{}, {AClaim}} @@
  IngressClasses :> {{}, {Name("nginx")}} @@
  StorageClasses :> {{}, {[name |-> "late", mode |-> "WaitForFirstConsumer"]}} @@
  Nodes :> {{ANode}} @@
  In1("podmetrics") :> {{}} @@
  In2("podmetrics") :> {{}, {[ASample EXCEPT !.ns = "n2"]}} @@
  NodeMetrics :> {{ANodeSample}},
  {Cluster}, 2)
  EXCEPT !.required = {[name |-> "web", ns |-> "n1", kind |-> "Deployment",
                      selector |-> {[op |-> "in", key |-> "app", values |-> {"web"}]}]}]

Usage == [World(
  Version :> {{AVersion}} @@
  Namespaces :> {{Name("n1")}} @@
  In1("pods") :> {{[APod EXCEPT !.limited = TRUE]}} @@
  In1("deployments") :> {{ADeployment}} @@
  Nodes :> {{[ANode EXCEPT !.pressure = FALSE]}, {ANode}, {[ANode EXCEPT !.ready = FALSE]}} @@
  In1("podmetrics") :> {{ASample}, {[ASample EXCEPT !.high = FALSE]},
                        {[ASample EXCEPT !.stale = TRUE]}} @@
  NodeMetrics :> {{ANodeSample}},
  {Cluster, Single}, 1)
  EXCEPT !.required = {[name |-> "web", ns |-> "n1", kind |-> "Deployment",
                      selector |-> {[op |-> "in", key |-> "app", values |-> {"web"}]}]},
         !.moves = {In1("podmetrics")}, !.triggers = {"scheduled", "manual"}]

Restarts == [World(
  In1("pods") :> {{[APod EXCEPT !.restarting = TRUE]}} @@
  In1("references") :> {{}},
  {Whole}, 0)
  EXCEPT !.inspectors = {i1, i2}, !.until = 2]

Symmetry == Permutations({i1, i2})
MCWorlds == {Network, Storage, Workloads, TwoNamespaces, Usage, Restarts}
RequiredWorlds == {TwoNamespaces}
=============================================================================
