---------------------- MODULE ResourceCollectionProofs ----------------------
(***************************************************************************)
(* Proofs about ResourceCollection: its types; that an object left alone   *)
(* never looks healthier as time passes; that a spike of restarts is never *)
(* made of history, whichever inspections overlap; and that what completed *)
(* checks and succeeded inspections report is what there is.               *)
(*                                                                         *)
(* For the spikes one follows what is counted: an inspection that lists a  *)
(* pod counts all its restarts up to then, hence all from before it began, *)
(* and dates its sample by when it began.  So what is not in a recent      *)
(* sample happened after that sample's inspection began, that is recently. *)
(*                                                                         *)
(* For the checks one follows the calls: of a cluster that stands still    *)
(* what has been found is what there is, and a call is not made for one of *)
(* four reasons only (Faithful).  Then listing by listing, observation by  *)
(* observation and check by check: what no failed call feeds has been seen *)
(* as it is.                                                               *)
(***************************************************************************)
EXTENDS ResourceCollection, FiniteSetTheorems, TLAPS

-----------------------------------------------------------------------------
(* Ageing.                                                                 *)

(* Issues have one of the three severities.                                *)
Graded(issues) == \A x \in issues : x[3] \in 1..3

(* The worst severity is that of an issue, and no issue has a higher one.  *)
LEMMA WorstIsWorst ==
  ASSUME NEW A, Graded(A)
  PROVE  /\ Worst(A) \in 0..3
         /\ \A x \in A : x[3] <= Worst(A)
         /\ A # {} => \E x \in A : Worst(A) = x[3]
<1> DEFINE S == {x[3] : x \in A}
<1>1. CASE A = {}
  BY <1>1 DEF Worst
<1>2. CASE A # {}
  <2>1. S \subseteq 1..3 /\ S # {}
    BY <1>2 DEF Graded
  <2> HIDE DEF S
  <2>2. \E m \in S : \A n \in S : m >= n
    <3>1. CASE 3 \in S
      BY <2>1, <3>1
    <3>2. CASE 3 \notin S /\ 2 \in S
      <4>1. \A n \in S : 2 >= n
        BY <2>1, <3>2
      <4> QED  BY <3>2, <4>1
    <3>3. CASE 3 \notin S /\ 2 \notin S
      <4>1. \A n \in S : n = 1
        BY <2>1, <3>3
      <4>2. 1 \in S
        BY <2>1, <4>1
      <4> QED  BY <4>1, <4>2
    <3> QED  BY <3>1, <3>2, <3>3
  <2>3. Max(S) \in S /\ \A n \in S : Max(S) >= n
    BY <2>2, Zenon DEF Max
  <2>4. Worst(A) = Max(S)
    BY <1>2 DEF Worst, S
  <2>5. \A n \in S : n <= Max(S)
    BY <2>1, <2>3
  <2>6. \A x \in A : x[3] \in S
    BY DEF S
  <2>7. \A n \in S : \E x \in A : n = x[3]
    BY DEF S
  <2>8. Max(S) \in 0..3
    <3>1. 1..3 \subseteq 0..3
      OBVIOUS
    <3> QED  BY <2>1, <2>3, <3>1, Zenon
  <2> QED  BY <2>3, <2>4, <2>5, <2>6, <2>7, <2>8, Zenon
<1> QED  BY <1>1, <1>2

(* Issues that are each outdone by another are not the worse ones.         *)
LEMMA WorstGrows ==
  ASSUME NEW A, NEW B, Graded(A), Graded(B), \A x \in A : \E y \in B : x[3] <= y[3]
  PROVE  Worst(A) <= Worst(B)
<1>1. Worst(A) \in 0..3 /\ Worst(B) \in 0..3
  BY WorstIsWorst
<1>2. CASE A = {}
  BY <1>1, <1>2 DEF Worst
<1>3. CASE A # {}
  <2>1. PICK x \in A : Worst(A) = x[3]
    BY <1>3, WorstIsWorst
  <2>2. PICK y \in B : x[3] <= y[3]
    BY <2>1
  <2>3. y[3] <= Worst(B) /\ x[3] \in 1..3 /\ y[3] \in 1..3
    BY <2>1, <2>2, WorstIsWorst DEF Graded
  <2> QED  BY <1>1, <2>1, <2>2, <2>3
<1> QED  BY <1>2, <1>3

(* A severity is no higher than itself.                                    *)
LEMMA GradedSelf ==
  ASSUME NEW A, Graded(A)
  PROVE  \A x \in A : x[3] <= x[3]
BY DEF Graded

(* More issues are no less severe.                                         *)
LEMMA MoreIsWorse ==
  ASSUME NEW A, NEW B, Graded(B), A \subseteq B
  PROVE  Worst(A) <= Worst(B)
<1>1. Graded(A)
  BY DEF Graded
<1>2. \A x \in A : x[3] <= x[3]
  BY <1>1 DEF Graded
<1> QED  BY <1>1, <1>2, WorstGrows

(* A limit once reached stays reached.                                     *)
LEMMA ReachedStays ==
  ASSUME NEW since \in Int, NEW limit \in Nat, NEW s \in Int, NEW t \in Int, s <= t,
         Reached(since, limit, s)
  PROVE  Reached(since, limit, t)
BY DEF Reached, Age

(* Thresholds are numbers, and those that are counted to are positive.     *)
LEMMA Limits ==
  /\ {Threshold.jobIncomplete, Threshold.podTerminating, Threshold.pvcWarning,
      Threshold.pvcCritical, Threshold.pvReleased, Threshold.nodeNotReady,
      Threshold.tlsWarning, Threshold.tlsCritical, Threshold.restartWindow} \subseteq Nat
  /\ Threshold.restartDelta \in Nat \ {0} /\ Threshold.usageCycles \in Nat \ {0}
BY ThresholdAssumption

(* The issues evaluators make are graded.                                  *)
LEMMA WhenGraded ==
  ASSUME NEW P, NEW code, NEW o, NEW severity \in 1..3
  PROVE  Graded(When(P, code, o, severity))
BY DEF Graded, When, Issue

(* So are those of two of them.                                            *)
LEMMA BothGraded ==
  ASSUME NEW A, NEW B, Graded(A), Graded(B)
  PROVE  Graded(A \cup B)
BY DEF Graded

(* workload_candidates: a Job that lingers goes on to do so.               *)
LEMMA JobsAge ==
  ASSUME NEW o, o.since \in Int, NEW s \in Int, NEW t \in Int, s <= t
  PROVE  Worst(JobCandidates(o, s)) <= Worst(JobCandidates(o, t))
<1>1. JobLingers(o, s) => JobLingers(o, t)
  BY ReachedStays, Limits DEF JobLingers
<1>2. JobCandidates(o, s) \subseteq JobCandidates(o, t)
  BY <1>1 DEF JobCandidates, When
<1>3. Graded(JobCandidates(o, t))
  BY WhenGraded, BothGraded DEF JobCandidates, Warning, Info
<1> QED  BY <1>2, <1>3, MoreIsWorse

(* pod_candidates: a Pod that is stuck when terminating goes on to be.     *)
LEMMA PodsAge ==
  ASSUME NEW o, o.since \in Int, NEW s \in Int, NEW t \in Int, s <= t
  PROVE  Worst(PodCandidates(o, FALSE, 0, s)) <= Worst(PodCandidates(o, FALSE, 0, t))
<1>1. IsTerminatingStuck(o, s) => IsTerminatingStuck(o, t)
  BY ReachedStays, Limits DEF IsTerminatingStuck
<1>2. PodCandidates(o, FALSE, 0, s) \subseteq PodCandidates(o, FALSE, 0, t)
  BY <1>1 DEF PodCandidates, When
<1>3. Graded(PodCandidates(o, FALSE, 0, t))
  <2>1. Graded({})
    BY DEF Graded
  <2>2. CASE o.phase # "Succeeded"
    <3> DEFINE a == When(~o.ready, "POD_NOT_READY", o, Warning)
    <3> DEFINE b == When("init" \in o.waiting, "POD_INIT_CONTAINER_FAILED", o, Warning)
    <3> DEFINE c == When("image" \in o.waiting, "POD_IMAGE_PULL_FAILED", o, Warning)
    <3> DEFINE d == When(FALSE, "POD_CONFIG_REFERENCE_MISSING", o, Warning)
    <3> DEFINE e == When(IsTerminatingStuck(o, t), "POD_TERMINATING_STUCK", o, Warning)
    <3> DEFINE f == When(0 >= Threshold.restartDelta, "POD_RESTART_SPIKE", o, Warning)
    <3>1. Warning \in 1..3
      BY DEF Warning
    <3>2. Graded(a) /\ Graded(b) /\ Graded(c) /\ Graded(d) /\ Graded(e) /\ Graded(f)
      BY <3>1, WhenGraded
    <3>3. PodCandidates(o, FALSE, 0, t) = a \cup b \cup c \cup d \cup e \cup f
      BY <2>2 DEF PodCandidates
    <3> HIDE DEF a, b, c, d, e, f
    <3>4. Graded(a \cup b \cup c \cup d \cup e \cup f)
      BY <3>2 DEF Graded
    <3> QED  BY <3>3, <3>4
  <2>3. CASE o.phase = "Succeeded"
    BY <2>1, <2>3 DEF PodCandidates
  <2> QED  BY <2>2, <2>3
<1> QED  BY <1>2, <1>3, MoreIsWorse

(* storage_candidates: a claim that is pending passes from none to Warning *)
(* to Critical.                                                            *)
LEMMA ClaimsAge ==
  ASSUME NEW o, o.since \in Int, NEW pods, NEW classes, NEW s \in Int, NEW t \in Int, s <= t
  PROVE  Worst(ClaimCandidates(o, pods, classes, s)) <= Worst(ClaimCandidates(o, pods, classes, t))
<1> DEFINE Lost == When(o.phase = "Lost", "PVC_NOT_BOUND", o, Critical)
<1> DEFINE Late(u) == When(o.phase = "Pending" /\ Reached(o.since, Threshold.pvcCritical, u),
                           "PVC_NOT_BOUND", o, Critical)
<1> DEFINE Soon(u) == When(/\ o.phase = "Pending"
                           /\ Reached(o.since, Threshold.pvcWarning, u)
                           /\ ~Reached(o.since, Threshold.pvcCritical, u),
                           "PVC_NOT_BOUND", o, Warning)
<1>1. Warning \in 1..3 /\ Critical \in 1..3 /\ Warning <= Critical
  BY DEF Warning, Critical
<1>2. Graded({})
  BY DEF Graded
<1>3. \A u : Graded(Lost) /\ Graded(Late(u)) /\ Graded(Soon(u))
  BY <1>1, WhenGraded
<1>4. CASE AwaitsConsumer(o, pods, classes)
  <2>1. \A u : ClaimCandidates(o, pods, classes, u) = {}
    BY <1>4 DEF ClaimCandidates
  <2> QED  BY <1>2, <2>1, MoreIsWorse
<1>5. CASE ~AwaitsConsumer(o, pods, classes)
  <2>1. \A u : ClaimCandidates(o, pods, classes, u) = Lost \cup Late(u) \cup Soon(u)
    BY <1>5 DEF ClaimCandidates
  <2>2. /\ Reached(o.since, Threshold.pvcCritical, s) => Reached(o.since, Threshold.pvcCritical, t)
        /\ Reached(o.since, Threshold.pvcWarning, s) => Reached(o.since, Threshold.pvcWarning, t)
    BY ReachedStays, Limits
  <2>3. \A x \in Soon(s) : \E y \in Soon(t) \cup Late(t) : x[3] <= y[3]
    <3> SUFFICES ASSUME NEW x \in Soon(s) PROVE \E y \in Soon(t) \cup Late(t) : x[3] <= y[3]
      OBVIOUS
    <3>1. /\ o.phase = "Pending" /\ Reached(o.since, Threshold.pvcWarning, t)
          /\ x = Issue("PVC_NOT_BOUND", o, Warning)
      BY <2>2 DEF When
    <3>2. CASE Reached(o.since, Threshold.pvcCritical, t)
      <4>1. Issue("PVC_NOT_BOUND", o, Critical) \in Late(t)
        BY <3>1, <3>2 DEF When
      <4>2. x[3] = Warning /\ Issue("PVC_NOT_BOUND", o, Critical)[3] = Critical
        BY <3>1 DEF Issue
      <4> QED  BY <1>1, <4>1, <4>2
    <3>3. CASE ~Reached(o.since, Threshold.pvcCritical, t)
      <4>1. x \in Soon(t)
        BY <3>1, <3>3 DEF When
      <4>2. x[3] <= x[3]
        BY <3>1 DEF Issue, Warning
      <4> QED  BY <4>1, <4>2
    <3> QED  BY <3>2, <3>3
  <2>4. Late(s) \subseteq Late(t)
    BY <2>2 DEF When
  <2>5. Graded(Lost \cup Late(s) \cup Soon(s)) /\ Graded(Lost \cup Late(t) \cup Soon(t))
    BY <1>3 DEF Graded
  <2>6. \A x \in Lost \cup Late(t) : x[3] <= x[3]
    <3>1. Graded(Lost \cup Late(t))
      BY <1>3, BothGraded
    <3> QED  BY <3>1, GradedSelf
  <2> HIDE DEF Lost, Late, Soon
  <2>7. \A x \in Lost \cup Late(s) \cup Soon(s) : \E y \in Lost \cup Late(t) \cup Soon(t) : x[3] <= y[3]
    BY <2>3, <2>4, <2>6
  <2> QED  BY <2>1, <2>5, <2>7, WorstGrows
<1> QED  BY <1>4, <1>5

(* storage_candidates: a volume that is stale stays stale.                 *)
LEMMA VolumesAge ==
  ASSUME NEW o, o.since \in Int, NEW s \in Int, NEW t \in Int, s <= t
  PROVE  Worst(VolumeCandidates(o, s)) <= Worst(VolumeCandidates(o, t))
<1>1. Reached(o.since, Threshold.pvReleased, s) => Reached(o.since, Threshold.pvReleased, t)
  BY ReachedStays, Limits
<1>2. VolumeCandidates(o, s) \subseteq VolumeCandidates(o, t)
  BY <1>1 DEF VolumeCandidates, When
<1>3. Graded(VolumeCandidates(o, t))
  BY WhenGraded, BothGraded DEF VolumeCandidates, Critical, Info
<1> QED  BY <1>2, <1>3, MoreIsWorse

(* node_candidates: a node that is not ready for long stays so.            *)
LEMMA NodesAge ==
  ASSUME NEW o, o.since \in Int, NEW facts, NEW s \in Int, NEW t \in Int, s <= t
  PROVE  Worst(NodeCandidates(o, facts, s)) <= Worst(NodeCandidates(o, facts, t))
<1>1. Reached(o.since, Threshold.nodeNotReady, s) => Reached(o.since, Threshold.nodeNotReady, t)
  BY ReachedStays, Limits
<1>2. NodeCandidates(o, facts, s) \subseteq NodeCandidates(o, facts, t)
  BY <1>1 DEF NodeCandidates, When
<1>3. (IF facts.impact THEN Critical ELSE Warning) \in 1..3 /\ Critical \in 1..3
  BY DEF Critical, Warning
<1>4. Graded(NodeCandidates(o, facts, t))
  BY <1>3, WhenGraded, BothGraded DEF NodeCandidates
<1> QED  BY <1>2, <1>4, MoreIsWorse

(* tls_candidates: a certificate passes from none to Warning to Critical.  *)
LEMMA CertificatesAge ==
  ASSUME NEW o, o.until \in Int, o.from = 0, NEW s \in Nat, NEW t \in Nat, s <= t
  PROVE  Worst(CertificateCandidates(o, {}, s)) <= Worst(CertificateCandidates(o, {}, t))
<1>1. Warning \in 1..3 /\ Critical \in 1..3 /\ Warning <= Critical /\ Critical <= Critical
  BY DEF Warning, Critical
<1> DEFINE Ends(u) == When(Expires(o, Threshold.tlsCritical, u), Expiry(o, u), o, Critical)
<1> DEFINE Soon(u) == When(Expires(o, Threshold.tlsWarning, u) /\ ~Expires(o, Threshold.tlsCritical, u),
                           "TLS_CERT_EXPIRING", o, Warning)
<1> DEFINE Wrong == When(~o.keyMatches, "TLS_KEY_MISMATCH", o, Critical)
<1>2. CASE ~o.parses
  <2>1. \A u : CertificateCandidates(o, {}, u) = When(TRUE, "TLS_KEY_MISMATCH", o, Critical)
    BY <1>2 DEF CertificateCandidates
  <2>2. Graded(When(TRUE, "TLS_KEY_MISMATCH", o, Critical))
    BY <1>1, WhenGraded
  <2> QED  BY <2>1, <2>2, MoreIsWorse
<1>3. CASE o.parses
  <2>1. \A u \in Nat : CertificateCandidates(o, {}, u) = Ends(u) \cup Soon(u) \cup Wrong
    <3>1. \A u \in Nat : ~(u < o.from)
      OBVIOUS
    <3>2. HostMatches(o, {})
      BY DEF HostMatches
    <3> QED  BY <1>3, <3>1, <3>2, Zenon DEF CertificateCandidates, When
  <2>2. \A limit \in Nat : Expires(o, limit, s) => Expires(o, limit, t)
    BY DEF Expires
  <2>3. /\ Expires(o, Threshold.tlsCritical, s) => Expires(o, Threshold.tlsCritical, t)
        /\ Expires(o, Threshold.tlsWarning, s) => Expires(o, Threshold.tlsWarning, t)
    BY <2>2, Limits
  <2>4. \A u : Graded(Ends(u)) /\ Graded(Soon(u)) /\ Graded(Wrong)
    BY <1>1, WhenGraded
  <2>5. \A x \in Ends(s) : \E y \in Ends(t) : x[3] <= y[3]
    <3> SUFFICES ASSUME NEW x \in Ends(s) PROVE \E y \in Ends(t) : x[3] <= y[3]
      OBVIOUS
    <3>1. Expires(o, Threshold.tlsCritical, t) /\ x[3] = Critical
      BY <2>3 DEF When, Issue
    <3>2. Issue(Expiry(o, t), o, Critical) \in Ends(t)
      BY <3>1 DEF When
    <3>3. Issue(Expiry(o, t), o, Critical)[3] = Critical
      BY DEF Issue
    <3> QED  BY <1>1, <3>1, <3>2, <3>3
  <2>6. \A x \in Soon(s) : \E y \in Soon(t) \cup Ends(t) : x[3] <= y[3]
    <3> SUFFICES ASSUME NEW x \in Soon(s) PROVE \E y \in Soon(t) \cup Ends(t) : x[3] <= y[3]
      OBVIOUS
    <3>1. /\ Expires(o, Threshold.tlsWarning, t)
          /\ x = Issue("TLS_CERT_EXPIRING", o, Warning) /\ x[3] = Warning
      BY <2>3 DEF When, Issue
    <3>2. CASE Expires(o, Threshold.tlsCritical, t)
      <4>1. Issue(Expiry(o, t), o, Critical) \in Ends(t)
        BY <3>2 DEF When
      <4>2. Issue(Expiry(o, t), o, Critical)[3] = Critical
        BY DEF Issue
      <4> QED  BY <1>1, <3>1, <4>1, <4>2
    <3>3. CASE ~Expires(o, Threshold.tlsCritical, t)
      <4>1. x \in Soon(t)
        BY <3>1, <3>3 DEF When
      <4> QED  BY <1>1, <3>1, <4>1
    <3> QED  BY <3>2, <3>3
  <2>7. Graded(Ends(s) \cup Soon(s) \cup Wrong) /\ Graded(Ends(t) \cup Soon(t) \cup Wrong)
    BY <2>4 DEF Graded
  <2>8. \A x \in Wrong : x[3] <= x[3]
    BY <2>4, GradedSelf
  <2> HIDE DEF Ends, Soon, Wrong
  <2>9. \A x \in Ends(s) \cup Soon(s) \cup Wrong : \E y \in Ends(t) \cup Soon(t) \cup Wrong : x[3] <= y[3]
    BY <2>5, <2>6, <2>8
  <2> QED  BY <2>1, <2>7, <2>9, WorstGrows
<1> QED  BY <1>2, <1>3

-----------------------------------------------------------------------------
(* Types.                                                                  *)

(* An inspection is a record with these fields.                            *)
RunFields == {"target", "trigger", "at", "todo", "got", "failed", "totals", "deltas", "quiet"}
IsRun(r) == DOMAIN r = RunFields

(* The pods observed by a call.                                            *)
Seen(r, c) ==
  IF c[1] = "references" THEN Pod \cap NamesOf(Found(r, "pods", c[2])) ELSE {}

(* What a call, answered or not, makes of the inspection and of the        *)
(* samples.                                                                *)
LEMMA ProceedRun ==
  ASSUME NEW i \in DOMAIN run, IsRun(run[i]), NEW c, NEW answered, NEW refused, NEW objects,
         Proceed(i, c, answered, refused, objects)
  PROVE  /\ DOMAIN run' = DOMAIN run /\ \A j \in DOMAIN run : j # i => run'[j] = run[j]
         /\ IsRun(run'[i]) /\ run'[i].target = run[i].target /\ run'[i].trigger = run[i].trigger
         /\ run'[i].at = run[i].at /\ run'[i].quiet = run[i].quiet
         /\ run'[i].todo = Left(run[i], c, answered, objects)
         /\ run'[i].got = [d \in DOMAIN run[i].got \cup {c} |->
                             IF d = c THEN objects ELSE run[i].got[d]]
         /\ run'[i].failed = IF answered \/ refused THEN run[i].failed ELSE run[i].failed \cup {c}
         /\ run'[i].totals = [p \in Pod |-> IF c[1] = "pods" /\ p \in NamesOf(objects)
                                             THEN Total(p) ELSE run[i].totals[p]]
         /\ run'[i].deltas = [p \in Pod |-> IF p \in Seen(run[i], c) THEN Delta(run[i], p)
                                            ELSE run[i].deltas[p]]
         /\ samples' = IF Seen(run[i], c) = {} THEN samples ELSE Observed(run[i], Seen(run[i], c))
         /\ UNCHANGED <<now, world, cluster, restarts, counters>>
<1> DEFINE r == run[i]
<1> DEFINE g == [d \in DOMAIN r.got \cup {c} |-> IF d = c THEN objects ELSE r.got[d]]
<1> DEFINE f == IF answered \/ refused THEN r.failed ELSE r.failed \cup {c}
<1> DEFINE t == [p \in Pod |-> IF c[1] = "pods" /\ p \in NamesOf(objects) THEN Total(p)
                               ELSE r.totals[p]]
<1> DEFINE s == [p \in Pod |-> IF p \in Seen(r, c) THEN Delta(r, p) ELSE r.deltas[p]]
<1> DEFINE l == Left(r, c, answered, objects)
<1> DEFINE e == [r EXCEPT !.todo = l, !.got = g, !.failed = f,
                          !.totals = t, !.deltas = s]
<1>1. /\ run' = [run EXCEPT ![i] = e]
      /\ samples' = IF Seen(r, c) = {} THEN samples ELSE Observed(r, Seen(r, c))
      /\ UNCHANGED <<now, world, cluster, restarts, counters>>
  BY DEF Proceed, Seen
<1>a. IsRun(r)
  OBVIOUS
<1> HIDE DEF r, l, g, f, t, s
<1>b. e = [r EXCEPT !.todo = l, !.got = g, !.failed = f, !.totals = t, !.deltas = s]
  OBVIOUS
<1> HIDE DEF e
<1>3. /\ IsRun(e) /\ e.target = r.target /\ e.trigger = r.trigger /\ e.at = r.at
      /\ e.quiet = r.quiet /\ e.todo = l /\ e.got = g /\ e.failed = f /\ e.totals = t /\ e.deltas = s
  BY <1>a, <1>b DEF IsRun, RunFields
<1>4. run'[i] = e /\ DOMAIN run' = DOMAIN run /\ \A j \in DOMAIN run : j # i => run'[j] = run[j]
  BY <1>1
<1> QED  BY <1>1, <1>3, <1>4 DEF r, l, g, f, t, s

(* The fields of an inspector that is idle.                                *)
LEMMA IdleFields ==
  /\ IsRun(Idle) /\ Idle.target = NoTarget /\ Idle.trigger = None /\ Idle.at = 0
  /\ Idle.quiet = TRUE /\ Idle.todo = {} /\ Idle.got = <<>> /\ Idle.failed = {}
  /\ Idle.totals = [p \in Pod |-> 0] /\ Idle.deltas = [p \in Pod |-> 0]
BY DEF Idle, IsRun, RunFields

(* The fields of an inspection that has just been started.                 *)
LEMMA StartedRun ==
  ASSUME NEW i \in DOMAIN run, NEW target, NEW trigger, StartRun(i, target, trigger)
  PROVE  /\ DOMAIN run' = DOMAIN run /\ \A j \in DOMAIN run : j # i => run'[j] = run[j]
         /\ IsRun(run'[i]) /\ run'[i].target = target /\ run'[i].trigger = trigger
         /\ run'[i].quiet /\ run'[i].todo = Mattering(FirstCalls(target))
         /\ run'[i].at = now /\ run'[i].got = <<>> /\ run'[i].failed = {}
         /\ run'[i].totals = [p \in Pod |-> 0] /\ run'[i].deltas = [p \in Pod |-> 0]
<1> DEFINE l == Mattering(FirstCalls(target))
<1> DEFINE e == [Idle EXCEPT !.target = target, !.trigger = trigger, !.at = now, !.todo = l]
<1>1. run' = [run EXCEPT ![i] = e]
  BY DEF StartRun
<1> HIDE DEF l
<1>2. /\ IsRun(e) /\ e.target = target /\ e.trigger = trigger /\ e.at = now
      /\ e.quiet = Idle.quiet /\ e.todo = l /\ e.got = <<>> /\ e.failed = {}
      /\ e.totals = Idle.totals /\ e.deltas = Idle.deltas
  BY IdleFields DEF IsRun, RunFields
<1> HIDE DEF e
<1> QED  BY <1>1, <1>2, IdleFields DEF l

(* A change of the cluster only marks inspections as disturbed.            *)
LEMMA DisturbedRuns ==
  ASSUME \A i \in DOMAIN run : IsRun(run[i])
  PROVE  /\ DOMAIN Disturbed = DOMAIN run
         /\ \A i \in DOMAIN run :
              /\ IsRun(Disturbed[i]) /\ Disturbed[i].target = run[i].target
              /\ Disturbed[i].trigger = run[i].trigger /\ Disturbed[i].at = run[i].at
              /\ Active(run[i]) => ~Disturbed[i].quiet
              /\ Disturbed[i].todo = run[i].todo /\ Disturbed[i].got = run[i].got
              /\ Disturbed[i].failed = run[i].failed
              /\ Disturbed[i].totals = run[i].totals /\ Disturbed[i].deltas = run[i].deltas
BY DEF Disturbed, IsRun, RunFields

(* What Types needs to be inductive: restarts are bounded, inspections are *)
(* records.                                                                *)
Calls == /\ Len(restarts) <= MaxRestarts
         /\ \A i \in DOMAIN run : IsRun(run[i])
Inv == Types /\ Calls

(* The restarts of a pod.                                                  *)
Of(p) == {k \in DOMAIN restarts : restarts[k][1] = p}

(* There are finitely many restarts of a pod, no more than of all pods.    *)
LEMMA TotalType ==
  ASSUME Inv, NEW p
  PROVE  /\ Total(p) \in 0..MaxRestarts
         /\ IsFiniteSet(Of(p)) /\ Total(p) = Cardinality(Of(p))
<1>1. DOMAIN restarts = 1..Len(restarts) /\ Len(restarts) \in Nat
  BY DEF Inv, Types
<1>2. /\ IsFiniteSet(1..Len(restarts))
      /\ Cardinality(1..Len(restarts)) = Len(restarts)
  <2>1. PICK n \in Nat : n = Len(restarts)
    BY <1>1, Zenon
  <2>2. IsFiniteSet(1..n) /\ Cardinality(1..n) = (IF 1 > n THEN 0 ELSE n - 1 + 1)
    BY FS_Interval
  <2>3. Cardinality(1..n) = n
    BY <2>2
  <2> QED  BY <2>1, <2>2, <2>3
<1>3. Of(p) \subseteq 1..Len(restarts)
  BY <1>1 DEF Of
<1>4. /\ IsFiniteSet(Of(p)) /\ Cardinality(Of(p)) \in Nat
      /\ Cardinality(Of(p)) <= Len(restarts)
  BY <1>2, <1>3, FS_Subset, FS_CardinalityType
<1>5. Total(p) = Cardinality(Of(p))
  BY DEF Total, Of
<1> QED  BY <1>1, <1>4, <1>5, CollectionAssumption DEF Inv, Calls

Sample == [pod : Pod, total : 0..MaxRestarts, at : Stamp]

(* An increase is 0 or that since the one sample of the pod, which is      *)
(* recent.                                                                 *)
LEMMA DeltaOfSample ==
  ASSUME Inv, NEW i \in DOMAIN run, NEW p \in Pod
  PROVE  \/ Delta(run[i], p) = 0
         \/ \E s \in samples : /\ s \in Sample /\ s.pod = p /\ IsRecent(s, run[i])
                               /\ s.total < run[i].totals[p]
                               /\ Delta(run[i], p) = run[i].totals[p] - s.total
<1>1. CASE \E s \in samples : s.pod = p /\ IsRecent(s, run[i]) /\ s.total < run[i].totals[p]
  <2>1. PICK s \in samples : s.pod = p /\ IsRecent(s, run[i]) /\ s.total < run[i].totals[p]
    BY <1>1
  <2>2. (CHOOSE t \in samples : t.pod = p) = s
    BY <2>1 DEF Inv, Types
  <2> QED  BY <1>1, <2>1, <2>2 DEF Delta, Inv, Types, Sample
<1>2. CASE ~ \E s \in samples : s.pod = p /\ IsRecent(s, run[i]) /\ s.total < run[i].totals[p]
  BY <1>2 DEF Delta
<1> QED  BY <1>1, <1>2

(* An increase is a number of restarts.                                    *)
LEMMA DeltaType ==
  ASSUME Inv, NEW i \in DOMAIN run, NEW p \in Pod
  PROVE  Delta(run[i], p) \in 0..MaxRestarts
<1>1. run[i].totals[p] \in 0..MaxRestarts
  BY DEF Inv, Types
<1> QED  BY <1>1, DeltaOfSample, CollectionAssumption DEF Sample

(* Observing pods leaves one sample of each.                               *)
LEMMA ObservedType ==
  ASSUME Inv, NEW i \in DOMAIN run, NEW pods \in SUBSET Pod
  PROVE  /\ Observed(run[i], pods) \subseteq Sample
         /\ \A s, t \in Observed(run[i], pods) : s.pod = t.pod => s = t
<1>1. /\ samples \subseteq Sample /\ run[i].at \in Stamp /\ run[i].totals \in [Pod -> 0..MaxRestarts]
      /\ \A s, t \in samples : s.pod = t.pod => s = t
  BY DEF Inv, Types, Sample
<1> DEFINE old == {s \in samples : s.pod \notin pods /\ run[i].at <= s.at + 2 * Threshold.restartWindow}
<1> DEFINE new == {[pod |-> p, total |-> run[i].totals[p], at |-> run[i].at] : p \in pods}
<1>2. Observed(run[i], pods) = old \cup new
  BY DEF Observed
<1>3. new \subseteq Sample /\ \A s \in new : s.pod \in pods
  BY <1>1 DEF Sample
<1>4. \A s, t \in new : s.pod = t.pod => s = t
  OBVIOUS
<1>5. old \subseteq samples /\ \A s \in old : s.pod \notin pods
  OBVIOUS
<1> HIDE DEF old, new
<1> QED  BY <1>1, <1>2, <1>3, <1>4, <1>5

(* A counter ends at the threshold.                                        *)
LEMMA EnrichedType ==
  ASSUME Inv, NEW i \in DOMAIN run, NEW p \in Pod
  PROVE  Enriched(run[i], p) \in 0..Threshold.usageCycles
<1>1. counters[p] \in 0..Threshold.usageCycles /\ Threshold.usageCycles \in Nat
  BY Limits DEF Inv, Types
<1>2. Enriched(run[i], p) \in {counters[p], 0} \/
      (counters[p] < Threshold.usageCycles /\ Enriched(run[i], p) = counters[p] + 1)
  BY DEF Enriched
<1> QED  BY <1>1, <1>2

(* The types hold initially.                                               *)
LEMMA InvInit == Init => Inv
<1> SUFFICES ASSUME Init PROVE Inv
  OBVIOUS
<1>1. world \in Worlds /\ now = world.from /\ cluster \in Clusters(world.finds)
  BY DEF Init
<1>2. now \in Stamp
  BY <1>1, WorldsAssumption DEF Stamp
<1>3. DOMAIN cluster = DOMAIN world.finds /\ \A c \in DOMAIN cluster : cluster[c] \in world.finds[c]
  BY <1>1 DEF Clusters
<1>4. /\ restarts = <<>> /\ samples = {} /\ counters = [p \in Pod |-> 0]
      /\ DOMAIN run = world.inspectors /\ \A i \in DOMAIN run : run[i] = Idle
  BY DEF Init
<1>5. /\ 0 \in Stamp /\ 0 \in 0..MaxRestarts /\ 0 \in 0..Threshold.usageCycles
      /\ 0 <= MaxRestarts
  BY CollectionAssumption, Limits DEF Stamp
<1>6. restarts \in Seq(Pod \X Stamp) /\ Len(restarts) = 0
  BY <1>4
<1>7. \A i \in DOMAIN run :
        /\ IsRun(run[i]) /\ run[i].target = NoTarget /\ run[i].trigger = None /\ run[i].at = 0
        /\ run[i].failed \subseteq DOMAIN run[i].got
        /\ run[i].totals \in [Pod -> 0..MaxRestarts]
        /\ run[i].deltas \in [Pod -> 0..MaxRestarts]
  BY <1>4, <1>5, IdleFields
<1>8. Types
  BY <1>1, <1>2, <1>3, <1>4, <1>5, <1>6, <1>7 DEF Types
<1> QED  BY <1>5, <1>6, <1>7, <1>8 DEF Inv, Calls

(* An inspection, of the world at hand.                                    *)
RunTyped(r) ==
  /\ r.target \in world.targets \cup {NoTarget}
  /\ r.trigger \in world.triggers \cup {None}
  /\ r.at \in Stamp
  /\ r.failed \subseteq DOMAIN r.got
  /\ r.totals \in [Pod -> 0..MaxRestarts]
  /\ r.deltas \in [Pod -> 0..MaxRestarts]

(* Types, told run by run.                                                 *)
LEMMA TypesByRun ==
  Types <=>
    /\ now \in Stamp
    /\ world \in Worlds
    /\ DOMAIN cluster = DOMAIN world.finds
    /\ \A c \in DOMAIN cluster : cluster[c] \in world.finds[c]
    /\ restarts \in Seq(Pod \X Stamp)
    /\ samples \subseteq [pod : Pod, total : 0..MaxRestarts, at : Stamp]
    /\ \A s, t \in samples : s.pod = t.pod => s = t
    /\ counters \in [Pod -> 0..Threshold.usageCycles]
    /\ DOMAIN run = world.inspectors
    /\ \A i \in DOMAIN run : RunTyped(run[i])
BY DEF Types, RunTyped

(* Time passes up to the bound.                                            *)
LEMMA TickTypes ==
  ASSUME Inv, Tick
  PROVE  Inv'
<1>1. now' \in Stamp
  BY WorldsAssumption, CollectionAssumption DEF Inv, Types, Tick, Stamp
<1> QED  BY <1>1 DEF Inv, Types, Calls, Tick

(* A change of the cluster is to another of its choices.                   *)
LEMMA ChangeTypes ==
  ASSUME Inv, NEW c \in DOMAIN cluster, Change(c)
  PROVE  Inv'
<1>1. run' = Disturbed /\ UNCHANGED <<now, world, restarts, samples, counters>>
  BY DEF Change
<1>2. DOMAIN run' = DOMAIN run /\ \A i \in DOMAIN run : IsRun(run'[i]) /\ RunTyped(run'[i])
  BY <1>1, TypesByRun, DisturbedRuns DEF Inv, Calls, RunTyped
<1>3. DOMAIN cluster' = DOMAIN cluster /\ \A d \in DOMAIN cluster : cluster'[d] \in world.finds[d]
  BY DEF Change, Inv, Types
<1>4. \A i \in DOMAIN run' : RunTyped(run[i])'
  BY <1>1, <1>2 DEF RunTyped
<1>5. Types'
  BY <1>1, <1>2, <1>3, <1>4 DEF Inv, Types, RunTyped
<1> QED  BY <1>1, <1>2, <1>5 DEF Inv, Calls

(* Restarts end at their bound.                                            *)
LEMMA RestartTypes ==
  ASSUME Inv, NEW p \in Pod, RestartPod(p)
  PROVE  Inv'
<1>1. restarts' \in Seq(Pod \X Stamp) /\ Len(restarts') <= MaxRestarts
  <2>1. restarts \in Seq(Pod \X Stamp) /\ <<p, now>> \in Pod \X Stamp /\ Len(restarts) < MaxRestarts
    BY DEF Inv, Types, RestartPod
  <2>2. restarts' = Append(restarts, <<p, now>>)
    BY DEF RestartPod
  <2> QED  BY <2>1, <2>2, CollectionAssumption
<1> QED  BY <1>1 DEF Inv, Types, Calls, RestartPod

(* An inspection starts with nothing collected.                            *)
LEMMA StartTypes ==
  ASSUME Inv, NEW i \in DOMAIN run, NEW target \in world.targets, NEW trigger \in world.triggers,
         StartRun(i, target, trigger)
  PROVE  Inv'
<1>1. UNCHANGED <<now, world, cluster, restarts, samples, counters>>
  BY DEF StartRun
<1>2. 0 \in 0..MaxRestarts /\ now \in Stamp
  BY CollectionAssumption DEF Inv, Types
<1>3. DOMAIN run' = DOMAIN run /\ \A j \in DOMAIN run : IsRun(run'[j]) /\ RunTyped(run'[j])
  <2>1. /\ DOMAIN run' = DOMAIN run /\ \A j \in DOMAIN run : j # i => run'[j] = run[j]
        /\ IsRun(run'[i]) /\ run'[i].target = target /\ run'[i].trigger = trigger
        /\ run'[i].at = now /\ run'[i].got = <<>> /\ run'[i].failed = {}
        /\ run'[i].totals = [p \in Pod |-> 0] /\ run'[i].deltas = [p \in Pod |-> 0]
    BY StartedRun
  <2>2. RunTyped(run'[i])
    BY <1>2, <2>1 DEF RunTyped
  <2> QED  BY <2>1, <2>2, TypesByRun DEF Inv, Calls
<1>4. \A j \in DOMAIN run' : RunTyped(run[j])'
  BY <1>1, <1>3 DEF RunTyped
<1>5. Types'
  BY <1>1, <1>3, <1>4 DEF Inv, Types, RunTyped
<1> QED  BY <1>1, <1>3, <1>5 DEF Inv, Calls

(* A call keeps what it found, totals and increases.                       *)
LEMMA ProceedTypes ==
  ASSUME Inv, NEW i \in DOMAIN run, NEW c, NEW answered, NEW refused, NEW objects,
         Proceed(i, c, answered, refused, objects)
  PROVE  Inv'
<1>1. /\ DOMAIN run' = DOMAIN run /\ \A j \in DOMAIN run : j # i => run'[j] = run[j]
      /\ IsRun(run'[i]) /\ run'[i].target = run[i].target /\ run'[i].trigger = run[i].trigger
      /\ run'[i].at = run[i].at /\ run'[i].quiet = run[i].quiet
      /\ run'[i].todo = Left(run[i], c, answered, objects)
      /\ run'[i].got = [d \in DOMAIN run[i].got \cup {c} |->
                          IF d = c THEN objects ELSE run[i].got[d]]
      /\ run'[i].failed = IF answered \/ refused THEN run[i].failed ELSE run[i].failed \cup {c}
      /\ run'[i].totals = [p \in Pod |-> IF c[1] = "pods" /\ p \in NamesOf(objects)
                                          THEN Total(p) ELSE run[i].totals[p]]
      /\ run'[i].deltas = [p \in Pod |-> IF p \in Seen(run[i], c) THEN Delta(run[i], p)
                                         ELSE run[i].deltas[p]]
      /\ samples' = IF Seen(run[i], c) = {} THEN samples ELSE Observed(run[i], Seen(run[i], c))
      /\ UNCHANGED <<now, world, cluster, restarts, counters>>
  BY ProceedRun DEF Inv, Calls
<1>2. RunTyped(run[i])
  BY TypesByRun DEF Inv
<1>3. run'[i].totals \in [Pod -> 0..MaxRestarts] /\ run'[i].deltas \in [Pod -> 0..MaxRestarts]
  BY <1>1, <1>2, TotalType, DeltaType DEF RunTyped
<1>4. run'[i].failed \subseteq DOMAIN run'[i].got
  BY <1>1, <1>2 DEF RunTyped
<1>5. RunTyped(run'[i])
  BY <1>1, <1>2, <1>3, <1>4 DEF RunTyped
<1>6. \A j \in DOMAIN run' : IsRun(run'[j]) /\ RunTyped(run[j])'
  <2>1. \A j \in DOMAIN run : IsRun(run[j]) /\ RunTyped(run[j])
    BY TypesByRun DEF Inv, Calls
  <2>2. \A j \in DOMAIN run' : IsRun(run'[j]) /\ RunTyped(run'[j])
    BY <1>1, <1>5, <2>1
  <2> QED  BY <1>1, <2>2 DEF RunTyped
<1>7. samples' \subseteq Sample /\ \A s, t \in samples' : s.pod = t.pod => s = t
  <2>1. Seen(run[i], c) \subseteq Pod
    BY DEF Seen
  <2>2. samples \subseteq Sample /\ \A s, t \in samples : s.pod = t.pod => s = t
    BY TypesByRun DEF Inv, Sample
  <2> QED  BY <1>1, <2>1, <2>2, ObservedType
<1>8. Types'
  BY <1>1, <1>6, <1>7 DEF Inv, Types, RunTyped, Sample
<1> QED  BY <1>1, <1>6, <1>8 DEF Inv, Calls

(* An inspection ends with its counters saved.                             *)
LEMMA FinishTypes ==
  ASSUME Inv, NEW i \in DOMAIN run, Finish(i)
  PROVE  Inv'
<1>1. /\ counters' = [p \in Pod |-> Enriched(run[i], p)] /\ run' = [run EXCEPT ![i] = Idle]
      /\ UNCHANGED <<now, world, cluster, restarts, samples>>
  BY DEF Finish
<1>2. counters' \in [Pod -> 0..Threshold.usageCycles]
  BY <1>1, EnrichedType
<1>3. IsRun(Idle) /\ RunTyped(Idle)
  <2>1. 0 \in Stamp /\ 0 \in 0..MaxRestarts
    BY CollectionAssumption DEF Stamp
  <2> QED  BY <2>1, IdleFields DEF RunTyped
<1>4. DOMAIN run' = DOMAIN run /\ \A j \in DOMAIN run : IsRun(run'[j]) /\ RunTyped(run'[j])
  BY <1>1, <1>3, TypesByRun DEF Inv, Calls
<1>5. \A j \in DOMAIN run' : RunTyped(run[j])'
  BY <1>1, <1>4 DEF RunTyped
<1>6. Types'
  BY <1>1, <1>2, <1>4, <1>5 DEF Inv, Types, RunTyped
<1> QED  BY <1>1, <1>4, <1>6 DEF Inv, Calls

(* A call is answered, fails or is refused.                                *)
CallMade(i, c) == CallAnswers(i, c) \/ CallFails(i, c) \/ MetricsUnavailable(i, c)

(* Whatever becomes of a call, the inspection proceeds.                    *)
LEMMA CallProceeds ==
  ASSUME NEW i \in DOMAIN run, NEW c, CallMade(i, c)
  PROVE  \E answered, refused \in BOOLEAN : \E objects : Proceed(i, c, answered, refused, objects)
<1>1. CASE CallAnswers(i, c)
  BY <1>1 DEF CallAnswers
<1>2. CASE CallFails(i, c)
  BY <1>2 DEF CallFails
<1>3. CASE MetricsUnavailable(i, c)
  BY <1>3 DEF MetricsUnavailable
<1> QED  BY <1>1, <1>2, <1>3 DEF CallMade

(* Every step keeps the types.                                             *)
LEMMA InvNext == Inv /\ [Next]_vars => Inv'
<1> SUFFICES ASSUME Inv, [Next]_vars PROVE Inv'
  OBVIOUS
<1>1. CASE Tick
  BY <1>1, TickTypes
<1>2. ASSUME NEW c \in DOMAIN cluster, Change(c) PROVE Inv'
  BY <1>2, ChangeTypes
<1>3. ASSUME NEW p \in Pod, RestartPod(p) PROVE Inv'
  BY <1>3, RestartTypes
<1>4. ASSUME NEW i \in DOMAIN run, NEW t \in world.targets, NEW g \in world.triggers, StartRun(i, t, g)
      PROVE  Inv'
  BY <1>4, StartTypes
<1>5. ASSUME NEW i \in DOMAIN run, NEW c, CallMade(i, c) PROVE Inv'
  BY <1>5, CallProceeds, ProceedTypes
<1>6. ASSUME NEW i \in DOMAIN run, Finish(i) PROVE Inv'
  BY <1>6, FinishTypes
<1>7. CASE UNCHANGED vars
  BY <1>7 DEF vars, Inv, Types, Calls
<1> QED  BY <1>1, <1>2, <1>3, <1>4, <1>5, <1>6, <1>7 DEF Next, CallMade

-----------------------------------------------------------------------------
(* Calls.                                                                  *)

(* The metrics of pods are asked for before those of nodes.                *)
LEMMA MetricsOrder == ClusterOrder["podmetrics"] < ClusterOrder["nodemetrics"]
<1> DEFINE L == <<"version", "namespaces", "ingressclasses", "storageclasses",
              "pods", "services", "deployments", "statefulsets", "daemonsets", "replicasets",
              "jobs", "cronjobs", "ingresses", "slices", "pvcs", "references", "secrets",
              "nodes", "allpods", "pvs", "podmetrics", "nodemetrics">>
<1>1. DOMAIN L = 1..22
  OBVIOUS
<1>2. \A k \in 1..22 : /\ L[k] = "podmetrics" <=> k = 21
                       /\ L[k] = "nodemetrics" <=> k = 22
  OBVIOUS
<1>3. ClusterOrder = [kind \in Range(L) |-> CHOOSE k \in DOMAIN L : L[k] = kind]
  BY DEF ClusterOrder, Positions
<1> HIDE DEF L
<1>4. {"podmetrics", "nodemetrics"} \subseteq Range(L)
  BY <1>1, <1>2 DEF Range
<1>5. /\ ClusterOrder["podmetrics"] = CHOOSE k \in DOMAIN L : L[k] = "podmetrics"
      /\ ClusterOrder["nodemetrics"] = CHOOSE k \in DOMAIN L : L[k] = "nodemetrics"
  BY <1>3, <1>4
<1>6. \A k \in DOMAIN L : /\ L[k] = "podmetrics" <=> k = 21
                          /\ L[k] = "nodemetrics" <=> k = 22
  BY <1>1, <1>2
<1>7. 21 \in DOMAIN L /\ 22 \in DOMAIN L
  BY <1>1
<1>8. ClusterOrder["podmetrics"] = 21 /\ ClusterOrder["nodemetrics"] = 22
  BY <1>5, <1>6, <1>7
<1> QED  BY <1>8

Usages == {"podmetrics", "nodemetrics"}

(* The calls ahead have not been made.  As long as namespaces have not     *)
(* been listed, only the first calls are known.                            *)
Ahead(r) ==
  /\ r.todo \cap DOMAIN r.got = {}
  /\ Namespaces \in r.todo => r.todo \cup DOMAIN r.got \subseteq {Version, Namespaces}
  /\ ~Active(r) => r.todo = {}

(* Why a call is not made.                                                 *)
IsLeftOut(r, c) ==
  \/ Namespaces \in r.todo \cup r.failed /\ c \notin FirstCalls(r.target)
  \/ c = AllPods /\ Nodes \in r.failed
  \/ c = NodeMetrics
  \/ r.target.pod # None /\ <<"pods", r.target.ns>> \in r.failed

(* An inspection of a cluster that has stood still: what it has found is   *)
(* what there is, and calls are left out for a reason.                     *)
Faithful(r) ==
  /\ r.todo \cup DOMAIN r.got \subseteq AllCalls(r.target)
  /\ \A c \in DOMAIN r.got \ r.failed :
       r.got[c] = Answer(r.target, c) \/ (c[1] \in Usages /\ r.got[c] = {})
  /\ \A c \in AllCalls(r.target) \ (r.todo \cup DOMAIN r.got) : IsLeftOut(r, c)
  /\ NodeMetrics \in DOMAIN r.got => AllMetrics \notin r.todo
  /\ NodeMetrics \in r.todo \cup DOMAIN r.got /\ AllMetrics \in DOMAIN r.got =>
       r.got[AllMetrics] = Answer(r.target, AllMetrics)

CallsKept(r) == Ahead(r) /\ (Active(r) /\ r.quiet => Faithful(r))
CallsInv == \A r \in Range(run) : CallsKept(r)

(* The targets InspectionScope.validate_target admits.                     *)
IsTarget(t) ==
  \/ t.type = "cluster" /\ t.ns = None /\ t.selector = {} /\ t.pod = None
  \/ t.type = "namespace" /\ t.ns \in Namespace /\ t.pod = None
  \/ t.type = "pod" /\ t.ns \in Namespace /\ t.selector = {} /\ t.pod # None

(* The targets of a world, and that a cluster lists its namespaces.        *)
LEMMA WorldTargets ==
  ASSUME Types, NEW t \in world.targets
  PROVE  IsTarget(t) /\ (t.type = "cluster" => Namespaces \in DOMAIN cluster)
BY TargetsAssumption DEF Types, IsTarget

(* The first calls of an inspection of a cluster, and of others.           *)
LEMMA FirstOfCluster ==
  ASSUME NEW t, t.type = "cluster"
  PROVE  FirstCalls(t) = {Version, Namespaces}
BY DEF FirstCalls

(* Other inspections begin with the calls for one namespace.               *)
LEMMA FirstOfOthers ==
  ASSUME NEW t, IsTarget(t), t.type # "cluster", NEW c \in FirstCalls(t)
  PROVE  /\ c[1] \notin {"namespaces", "nodes", "allpods", "nodemetrics"}
         /\ c[2] \in {t.ns, None}
         /\ c[1] \in {"podmetrics", "pods"} => c = <<c[1], t.ns>>
<1>1. CASE t.type = "namespace"
  <2>1. FirstCalls(t) = {Version} \cup NamespaceCalls(t, t.ns)
    BY <1>1 DEF FirstCalls
  <2>2. NamespaceCalls(t, t.ns) = (Listings \X {t.ns}) \cup {IngressClasses, StorageClasses}
                                  \cup ({"podmetrics"} \X {t.ns})
    BY <1>1 DEF NamespaceCalls, On
  <2>3. CASE c \in {Version, IngressClasses, StorageClasses}
    BY <2>3 DEF Version, IngressClasses, StorageClasses
  <2>4. CASE c \in (Listings \cup {"podmetrics"}) \X {t.ns}
    BY <2>4 DEF Listings
  <2> QED  BY <2>1, <2>2, <2>3, <2>4
<1>2. CASE t.type = "pod"
  <2>1. FirstCalls(t) = {Version} \cup ({"pods", "references", "podmetrics"} \X {t.ns})
    BY <1>2 DEF FirstCalls, On
  <2> QED  BY <2>1 DEF Version
<1> QED  BY <1>1, <1>2 DEF IsTarget

(* The calls that follow the list of namespaces are others.                *)
LEMMA LaterCalls ==
  ASSUME NEW t, NEW names, NEW c \in ClusterCalls(t, names)
  PROVE  c # Version /\ c # Namespaces
<1>1. CASE \E n \in names : c \in NamespaceCalls(t, n)
  <2>1. PICK n \in names : c \in NamespaceCalls(t, n)
    BY <1>1
  <2>2. c \in {IngressClasses, StorageClasses} \cup ((Listings \cup {"podmetrics"}) \X {n})
    BY <2>1 DEF NamespaceCalls, On
  <2>3. c[1] \notin {"version", "namespaces"}
    BY <2>2 DEF Listings, IngressClasses, StorageClasses
  <2> QED  BY <2>3 DEF Version, Namespaces
<1>2. CASE c \in {IngressClasses, StorageClasses, Nodes, AllPods, <<"pvs", None>>, AllMetrics, NodeMetrics}
  BY <1>2 DEF Version, Namespaces, IngressClasses, StorageClasses, Nodes, AllPods, AllMetrics,
              NodeMetrics
<1> QED  BY <1>1, <1>2 DEF ClusterCalls

(* What is left of the calls ahead.                                        *)
LEMMA LeftCases ==
  ASSUME NEW r, NEW c, NEW answered \in BOOLEAN, NEW objects
  PROVE  \/ /\ c = Namespaces /\ answered
            /\ Left(r, c, answered, objects) =
                 (r.todo \ {c}) \cup Mattering(ClusterCalls(r.target, NamesOf(objects)))
         \/ /\ ~(c = Namespaces /\ answered)
            /\ \/ c = Nodes /\ ~answered /\ Left(r, c, answered, objects) = r.todo \ {c, AllPods}
               \/ c = AllMetrics /\ ~answered /\ Left(r, c, answered, objects) = r.todo \ {c, NodeMetrics}
               \/ /\ c[1] = "pods" /\ r.target.pod # None /\ ~answered
                  /\ Left(r, c, answered, objects) = {}
               \/ ~(c = AllMetrics /\ ~answered) /\ Left(r, c, answered, objects) = r.todo \ {c}
BY DEF Left, Namespaces, Nodes, AllMetrics

(* A call that is made is no longer ahead.                                 *)
LEMMA AheadKept ==
  ASSUME NEW r, NEW c \in r.todo, NEW answered \in BOOLEAN, NEW objects, Ahead(r),
         NEW s, s.target = r.target, s.todo = Left(r, c, answered, objects),
         DOMAIN s.got = DOMAIN r.got \cup {c}
  PROVE  Ahead(s)
<1>1. Active(s) /\ Active(r)
  BY DEF Ahead, Active
<1> DEFINE later == Mattering(ClusterCalls(r.target, NamesOf(objects)))
<1>2. \A d \in later : d # Version /\ d # Namespaces
  BY LaterCalls DEF Mattering
<1> HIDE DEF later
<1>3. CASE c = Namespaces /\ s.todo = (r.todo \ {c}) \cup later
  <2>1. r.todo \cup DOMAIN r.got \subseteq {Version, Namespaces}
    BY <1>3 DEF Ahead
  <2> QED  BY <1>1, <1>2, <1>3, <2>1 DEF Ahead
<1>4. CASE s.todo \subseteq r.todo \ {c}
  BY <1>1, <1>4 DEF Ahead
<1>5. \/ c = Namespaces /\ s.todo = (r.todo \ {c}) \cup later
      \/ s.todo \subseteq r.todo \ {c}
  <2>1. CASE c = Namespaces /\ answered
    <3>1. s.todo = (r.todo \ {c}) \cup later
      BY <2>1, LeftCases DEF later
    <3> QED  BY <2>1, <3>1
  <2>2. CASE ~(c = Namespaces /\ answered)
    <3>1. Left(r, c, answered, objects) \subseteq r.todo \ {c}
      BY <2>2, LeftCases
    <3> QED  BY <3>1
  <2> QED  BY <2>1, <2>2
<1> QED  BY <1>3, <1>4, <1>5

(* Metrics of nodes are asked for once those of pods have been.            *)
LEMMA MetricsInOrder ==
  ASSUME NEW r, r.target.type = "cluster", IsNext(r, NodeMetrics)
  PROVE  AllMetrics \notin r.todo
<1>1. NodeMetrics[1] = "nodemetrics" /\ NodeMetrics[2] = None
      /\ AllMetrics[1] = "podmetrics" /\ AllMetrics[2] = None
  BY DEF NodeMetrics, AllMetrics
<1>2. Precedes(r, AllMetrics, NodeMetrics)
  BY <1>1, MetricsOrder DEF Precedes
<1> QED  BY <1>2 DEF IsNext

(* The calls of an inspection of a cluster.                                *)
LEMMA CallsOfCluster ==
  ASSUME NEW t, t.type = "cluster", NEW c
  PROVE  c \in AllCalls(t) <=> /\ Matters(c)
                               /\ \/ c \in {Version, Namespaces}
                                  \/ c \in ClusterCalls(t, NamesOf(cluster[Namespaces]))
BY FirstOfCluster DEF AllCalls, Mattering

(* For other inspections the first calls are all there are.                *)
LEMMA CallsOfOthers ==
  ASSUME NEW t, t.type # "cluster"
  PROVE  AllCalls(t) = Mattering(FirstCalls(t))
BY DEF AllCalls, Mattering

(* An inspection that begins.                                              *)
LEMMA FaithfulAtFirst ==
  ASSUME NEW r, IsTarget(r.target), r.target.type = "cluster" => Matters(Namespaces),
         r.todo = Mattering(FirstCalls(r.target)), r.got = <<>>, r.failed = {}
  PROVE  Faithful(r)
<1>1. DOMAIN r.got = {}
  OBVIOUS
<1>2. r.todo \subseteq AllCalls(r.target)
  BY DEF AllCalls, Mattering
<1>3. ASSUME NEW c \in AllCalls(r.target) \ r.todo PROVE IsLeftOut(r, c)
  <2>1. CASE r.target.type = "cluster"
    <3>1. Namespaces \in r.todo
      BY <2>1, FirstOfCluster DEF Mattering
    <3>2. c \notin FirstCalls(r.target)
      BY <1>3 DEF AllCalls, Mattering
    <3> QED  BY <3>1, <3>2 DEF IsLeftOut
  <2>2. CASE r.target.type # "cluster"
    BY <1>3, <2>2, CallsOfOthers
  <2> QED  BY <2>1, <2>2
<1> QED  BY <1>1, <1>2, <1>3 DEF Faithful

(* From r to s the call c is answered, or fails, or is refused.            *)
Made(r, s, c, answered, refused, objects) ==
  /\ IsNext(r, c)
  /\ s.target = r.target /\ s.todo = Left(r, c, answered, objects)
  /\ s.got = [d \in DOMAIN r.got \cup {c} |-> IF d = c THEN objects ELSE r.got[d]]
  /\ s.failed = IF answered \/ refused THEN r.failed ELSE r.failed \cup {c}
  /\ answered => objects = Answer(r.target, c)
  /\ ~answered => objects = {}
  /\ refused => c[1] \in Usages

(* That leaves an inspection faithful.                                     *)
LEMMA FaithfulKept ==
  ASSUME NEW r, NEW s, NEW c, NEW answered \in BOOLEAN, NEW refused \in BOOLEAN, NEW objects,
         Ahead(r), Faithful(r), IsTarget(r.target), r.failed \subseteq DOMAIN r.got,
         Made(r, s, c, answered, refused, objects)
  PROVE  Faithful(s)
<1>0. /\ IsNext(r, c) /\ s.target = r.target /\ s.todo = Left(r, c, answered, objects)
      /\ s.failed = IF answered \/ refused THEN r.failed ELSE r.failed \cup {c}
      /\ answered => objects = Answer(r.target, c)
      /\ ~answered => objects = {}
      /\ refused => c[1] \in Usages
      /\ DOMAIN s.got = DOMAIN r.got \cup {c} /\ s.got[c] = objects
      /\ \A d \in DOMAIN r.got : d # c => s.got[d] = r.got[d]
  BY DEF Made
<1> USE <1>0
<1>1. /\ c \in r.todo /\ c \in AllCalls(r.target) /\ c \notin DOMAIN r.got
      /\ DOMAIN s.got = DOMAIN r.got \cup {c} /\ s.got[c] = objects
      /\ \A d \in DOMAIN r.got : s.got[d] = r.got[d]
  BY DEF IsNext, Faithful, Ahead
<1>2. ASSUME NEW d \in DOMAIN s.got \ s.failed
      PROVE  s.got[d] = Answer(s.target, d) \/ (d[1] \in Usages /\ s.got[d] = {})
  <2>1. CASE d = c
    BY <1>1, <1>2, <2>1
  <2>2. CASE d # c
    <3>1. d \in DOMAIN r.got \ r.failed
      BY <1>1, <1>2, <2>2
    <3> QED  BY <1>1, <3>1 DEF Faithful
  <2> QED  BY <2>1, <2>2
<1>l. \/ /\ c = Namespaces /\ answered
         /\ s.todo = (r.todo \ {c}) \cup Mattering(ClusterCalls(r.target, NamesOf(objects)))
      \/ /\ ~(c = Namespaces /\ answered)
         /\ \/ c = Nodes /\ ~answered /\ s.todo = r.todo \ {c, AllPods}
            \/ c = AllMetrics /\ ~answered /\ s.todo = r.todo \ {c, NodeMetrics}
            \/ c[1] = "pods" /\ r.target.pod # None /\ ~answered /\ s.todo = {}
            \/ ~(c = AllMetrics /\ ~answered) /\ s.todo = r.todo \ {c}
  <2> DEFINE l == Left(r, c, answered, objects)
  <2>1. \/ /\ c = Namespaces /\ answered
           /\ l = (r.todo \ {c}) \cup Mattering(ClusterCalls(r.target, NamesOf(objects)))
        \/ /\ ~(c = Namespaces /\ answered)
           /\ \/ c = Nodes /\ ~answered /\ l = r.todo \ {c, AllPods}
              \/ c = AllMetrics /\ ~answered /\ l = r.todo \ {c, NodeMetrics}
              \/ c[1] = "pods" /\ r.target.pod # None /\ ~answered /\ l = {}
              \/ ~(c = AllMetrics /\ ~answered) /\ l = r.todo \ {c}
    BY DEF Left, Namespaces, Nodes, AllMetrics
  <2>2. s.todo = l
    OBVIOUS
  <2> HIDE DEF l
  <2> QED  BY <2>1, <2>2
<1>3. CASE c = Namespaces /\ answered
  <2> DEFINE later == Mattering(ClusterCalls(r.target, NamesOf(objects)))
  <2>1. s.todo = (r.todo \ {c}) \cup later
    BY <1>3, <1>l
  <2>2. r.target.type = "cluster"
    <3>1. CASE r.target.type # "cluster"
      <4>1. Namespaces \in FirstCalls(r.target)
        BY <1>1, <1>3, <3>1, CallsOfOthers DEF Mattering
      <4>2. Namespaces[1] = "namespaces"
        BY DEF Namespaces
      <4> QED  BY <3>1, <4>1, <4>2, FirstOfOthers
    <3> QED  BY <3>1
  <2>3. objects = cluster[Namespaces]
    BY <1>3 DEF Answer, Namespaces, AllPods, AllMetrics
  <2>4. \A d : d \in AllCalls(r.target) <=> d \in later \/ (Matters(d) /\ d \in {Version, Namespaces})
    BY <2>2, <2>3, CallsOfCluster DEF Mattering
  <2>5. r.todo \cup DOMAIN r.got \subseteq {Version, Namespaces}
    BY <1>1, <1>3 DEF Ahead
  <2>6. Version \in AllCalls(r.target) => Version \in r.todo \cup DOMAIN r.got
    <3>1. Version \in FirstCalls(r.target) /\ r.target.pod = None
      BY <2>2, FirstOfCluster DEF IsTarget
    <3>2. Version # AllPods /\ Version # NodeMetrics
      BY DEF Version, AllPods, NodeMetrics
    <3> QED  BY <3>1, <3>2 DEF Faithful, IsLeftOut
  <2>7. \A d \in later : d # Version /\ d # Namespaces
    BY LaterCalls DEF Mattering
  <2>8. NodeMetrics \notin DOMAIN s.got /\ AllMetrics \notin DOMAIN s.got
    BY <1>1, <1>3, <2>5 DEF NodeMetrics, AllMetrics, Version, Namespaces
  <2> HIDE DEF later
  <2>9. s.todo \cup DOMAIN s.got \subseteq AllCalls(r.target)
    BY <1>1, <2>1, <2>4 DEF Faithful
  <2>10. \A d \in AllCalls(r.target) : d \in s.todo \cup DOMAIN s.got
    BY <1>1, <1>3, <2>1, <2>4, <2>6
  <2> QED  BY <1>2, <2>8, <2>9, <2>10 DEF Faithful
<1>4. CASE ~(c = Namespaces /\ answered)
  <2>1. s.todo \subseteq r.todo \ {c}
    BY <1>4, <1>l
  <2>2. r.failed \subseteq s.failed /\ (~answered /\ c[1] \notin Usages => c \in s.failed)
    OBVIOUS
  <2>3. ASSUME NEW d, IsLeftOut(r, d) PROVE IsLeftOut(s, d)
    <3>1. CASE Namespaces \in r.todo \cup r.failed /\ d \notin FirstCalls(r.target)
      <4>1. Namespaces \in s.todo \cup s.failed
        <5>1. CASE c = Namespaces
          <6>1. c[1] \notin Usages
            BY <5>1 DEF Namespaces, Usages
          <6> QED  BY <1>4, <2>2, <5>1, <6>1
        <5>2. CASE c # Namespaces /\ Namespaces \in r.todo
          <6>1. r.todo \subseteq {Version, Namespaces} /\ c = Version
            BY <1>1, <5>2 DEF Ahead
          <6>2. c # Nodes /\ c # AllMetrics /\ c[1] # "pods"
            BY <6>1 DEF Version, Nodes, AllMetrics
          <6>3. s.todo = r.todo \ {c}
            BY <1>4, <6>2, <1>l
          <6> QED  BY <5>2, <6>3
        <5>3. CASE Namespaces \in r.failed
          BY <2>2, <5>3
        <5> QED  BY <3>1, <5>1, <5>2, <5>3
      <4> QED  BY <3>1, <4>1 DEF IsLeftOut
    <3>2. CASE ~(Namespaces \in r.todo \cup r.failed /\ d \notin FirstCalls(r.target))
      BY <2>2, <2>3, <3>2 DEF IsLeftOut
    <3> QED  BY <3>1, <3>2
  <2>4. ASSUME NEW d \in r.todo, d \notin s.todo, d # c PROVE IsLeftOut(s, d)
    <3>1. CASE c = Nodes /\ ~answered /\ s.todo = r.todo \ {c, AllPods}
      <4>1. d = AllPods /\ c[1] \notin Usages
        BY <2>4, <3>1 DEF Nodes, Usages
      <4> QED  BY <2>2, <3>1, <4>1 DEF IsLeftOut
    <3>2. CASE c = AllMetrics /\ ~answered /\ s.todo = r.todo \ {c, NodeMetrics}
      BY <2>4, <3>2 DEF IsLeftOut
    <3>3. CASE c[1] = "pods" /\ r.target.pod # None /\ ~answered
      <4>1. r.target.type # "cluster"
        BY <3>3 DEF IsTarget
      <4>2. c \in FirstCalls(r.target)
        BY <1>1, <4>1, CallsOfOthers DEF Mattering
      <4>3. c = <<"pods", r.target.ns>> /\ c[1] \notin Usages
        BY <3>3, <4>1, <4>2, FirstOfOthers DEF Usages
      <4> QED  BY <2>2, <3>3, <4>3 DEF IsLeftOut
    <3>4. CASE s.todo = r.todo \ {c}
      BY <2>4, <3>4
    <3> QED  BY <1>4, <3>1, <3>2, <3>3, <3>4, <1>l
  <2>5. \A d \in AllCalls(s.target) \ (s.todo \cup DOMAIN s.got) : IsLeftOut(s, d)
    <3> SUFFICES ASSUME NEW d \in AllCalls(r.target), d \notin s.todo, d \notin DOMAIN s.got
                 PROVE  IsLeftOut(s, d)
      OBVIOUS
    <3>1. CASE d \in r.todo
      BY <1>1, <2>4, <3>1
    <3>2. CASE d \notin r.todo
      <4>1. IsLeftOut(r, d)
        BY <1>1, <3>2 DEF Faithful
      <4> QED  BY <2>3, <4>1
    <3> QED  BY <3>1, <3>2
  <2>6. s.todo \cup DOMAIN s.got \subseteq AllCalls(s.target)
    BY <1>1, <2>1 DEF Faithful
  <2>7. NodeMetrics \in AllCalls(r.target) => r.target.type = "cluster"
    <3>1. CASE r.target.type # "cluster"
      <4>1. NodeMetrics[1] = "nodemetrics"
        BY DEF NodeMetrics
      <4>2. NodeMetrics \notin FirstCalls(r.target)
        BY <3>1, <4>1, FirstOfOthers
      <4> QED  BY <3>1, <4>2, CallsOfOthers DEF Mattering
    <3> QED  BY <3>1
  <2>8. NodeMetrics \in DOMAIN s.got => AllMetrics \notin s.todo
    <3>1. CASE c = NodeMetrics
      BY <1>1, <2>1, <2>7, <3>1, MetricsInOrder
    <3>2. CASE c # NodeMetrics
      BY <1>1, <2>1, <3>2 DEF Faithful
    <3> QED  BY <3>1, <3>2
  <2>9. ASSUME NodeMetrics \in s.todo \cup DOMAIN s.got, AllMetrics \in DOMAIN s.got
        PROVE  s.got[AllMetrics] = Answer(s.target, AllMetrics)
    <3>1. NodeMetrics \in r.todo \cup DOMAIN r.got
      BY <1>1, <2>1, <2>9
    <3>2. CASE c = AllMetrics
      <4>1. CASE answered
        BY <1>1, <3>2, <4>1
      <4>2. CASE ~answered
        <5>1. s.todo = r.todo \ {c, NodeMetrics}
          <6>1. c # Nodes /\ c[1] # "pods" /\ c # Namespaces
            BY <3>2 DEF AllMetrics, Nodes, Namespaces
          <6> QED  BY <3>2, <4>2, <6>1, <1>l
        <5>2. NodeMetrics # c
          BY <3>2 DEF NodeMetrics, AllMetrics
        <5>3. NodeMetrics \in DOMAIN r.got
          BY <1>1, <2>9, <5>1, <5>2
        <5> QED  BY <1>1, <3>2, <5>3 DEF Faithful
      <4> QED  BY <4>1, <4>2
    <3>3. CASE c # AllMetrics
      BY <1>1, <2>9, <3>1, <3>3 DEF Faithful
    <3> QED  BY <3>2, <3>3
  <2> QED  BY <1>2, <2>5, <2>6, <2>8, <2>9 DEF Faithful
<1> QED  BY <1>3, <1>4

(* Whether calls are kept depends on the cluster alone.                    *)
LEMMA SameCluster ==
  ASSUME UNCHANGED cluster
  PROVE  \A r : CallsKept(r) => CallsKept(r)'
<1>1. \A kind : Listed(kind)' = Listed(kind)
  BY DEF Listed
<1>2. \A t, c : Answer(t, c)' = Answer(t, c)
  BY <1>1 DEF Answer
<1>3. \A calls : Mattering(calls)' = Mattering(calls)
  BY DEF Mattering, Matters
<1>4. \A t, names : ClusterCalls(t, names)' = ClusterCalls(t, names)
  BY DEF ClusterCalls, NamespaceCalls, On
<1>5. \A t : AllCalls(t)' = AllCalls(t)
  BY <1>3 DEF AllCalls, ClusterCalls, NamespaceCalls, FirstCalls, On
<1> QED  BY <1>2, <1>5 DEF CallsKept, Faithful, Ahead, IsLeftOut, Active

(* While the cluster stands still it is enough to look at the inspections. *)
LEMMA CallsKeptAll ==
  ASSUME UNCHANGED cluster, \A i \in DOMAIN run' : CallsKept(run'[i])
  PROVE  CallsInv'
<1>1. \A r : CallsKept(r) => CallsKept(r)'
  BY SameCluster
<1>2. \A r \in Range(run)' : CallsKept(r)'
  BY <1>1 DEF Range
<1> QED  BY <1>2 DEF CallsInv

(* CallsInv, inspection by inspection.                                     *)
LEMMA CallsByRun == CallsInv <=> \A i \in DOMAIN run : CallsKept(run[i])
BY DEF CallsInv, Range

(* An inspector that is idle has no calls ahead.                           *)
LEMMA IdleCalls == CallsKept(Idle)
BY IdleFields DEF CallsKept, Ahead, Active

(* No inspection has begun at first.                                       *)
LEMMA CallsInit == Init => CallsInv
BY IdleCalls, CallsByRun DEF Init

(* An inspection begins with its first calls ahead.                        *)
LEMMA StartCalls ==
  ASSUME Inv, CallsInv, NEW i \in DOMAIN run, NEW target \in world.targets, NEW trigger,
         StartRun(i, target, trigger)
  PROVE  CallsInv'
<1>1. UNCHANGED cluster
  BY DEF StartRun
<1>2. /\ DOMAIN run' = DOMAIN run /\ \A j \in DOMAIN run : j # i => run'[j] = run[j]
      /\ run'[i].target = target /\ run'[i].todo = Mattering(FirstCalls(target))
      /\ run'[i].got = <<>> /\ run'[i].failed = {}
  BY StartedRun
<1>3. IsTarget(target) /\ (target.type = "cluster" => Matters(Namespaces))
  BY WorldTargets DEF Inv, Matters
<1>4. Faithful(run'[i])
  BY <1>2, <1>3, FaithfulAtFirst
<1>5. Ahead(run'[i])
  <2>1. DOMAIN run'[i].got = {}
    BY <1>2
  <2>2. target # NoTarget
    <3>1. NoTarget.type = None /\ NoTarget.ns = None
      BY DEF NoTarget
    <3>2. target.type # None \/ target.ns # None
      BY <1>3, TargetsAssumption DEF IsTarget, None
    <3> HIDE DEF NoTarget
    <3> QED  BY <3>1, <3>2
  <2>3. Namespaces \in run'[i].todo => run'[i].todo \subseteq {Version, Namespaces}
    <3>1. CASE target.type = "cluster"
      BY <1>2, <3>1, FirstOfCluster DEF Mattering
    <3>2. CASE target.type # "cluster"
      <4>1. Namespaces[1] = "namespaces"
        BY DEF Namespaces
      <4>2. Namespaces \notin FirstCalls(target)
        BY <1>3, <3>2, <4>1, FirstOfOthers
      <4> QED  BY <1>2, <4>2 DEF Mattering
    <3> QED  BY <3>1, <3>2
  <2> QED  BY <1>2, <2>1, <2>2, <2>3 DEF Ahead, Active
<1>6. \A j \in DOMAIN run' : CallsKept(run'[j])
  BY <1>2, <1>4, <1>5, CallsByRun DEF CallsKept
<1> QED  BY <1>1, <1>6, CallsKeptAll

(* What becomes of a call.                                                 *)
LEMMA CallOutcome ==
  ASSUME NEW i \in DOMAIN run, NEW c, CallMade(i, c)
  PROVE  /\ IsNext(run[i], c)
         /\ \E answered, refused \in BOOLEAN : \E objects :
              /\ Proceed(i, c, answered, refused, objects)
              /\ answered => objects = Answer(run[i].target, c)
              /\ ~answered => objects = {}
              /\ refused => c[1] \in Usages
<1>1. CASE CallAnswers(i, c)
  BY <1>1 DEF CallAnswers
<1>2. CASE CallFails(i, c)
  BY <1>2 DEF CallFails
<1>3. CASE MetricsUnavailable(i, c)
  BY <1>3 DEF MetricsUnavailable, Usages
<1> QED  BY <1>1, <1>2, <1>3 DEF CallMade

(* What is inspected is one of the targets admitted.                       *)
LEMMA ActiveTarget ==
  ASSUME Inv, NEW i \in DOMAIN run, Active(run[i])
  PROVE  IsTarget(run[i].target)
BY WorldTargets DEF Inv, Types, Active

(* A call that is answered, fails or is refused leaves the calls in order. *)
LEMMA ProceedCalls ==
  ASSUME Inv, CallsInv, NEW i \in DOMAIN run, NEW c, CallMade(i, c)
  PROVE  CallsInv'
<1>0. IsNext(run[i], c) /\ IsRun(run[i])
  BY CallOutcome DEF Inv, Calls
<1> PICK answered \in BOOLEAN, refused \in BOOLEAN : \E objects :
      /\ Proceed(i, c, answered, refused, objects)
      /\ answered => objects = Answer(run[i].target, c)
      /\ ~answered => objects = {}
      /\ refused => c[1] \in Usages
  BY CallOutcome
<1> PICK objects :
      /\ Proceed(i, c, answered, refused, objects)
      /\ answered => objects = Answer(run[i].target, c)
      /\ ~answered => objects = {}
      /\ refused => c[1] \in Usages
  OBVIOUS
<1>1. /\ DOMAIN run' = DOMAIN run /\ \A j \in DOMAIN run : j # i => run'[j] = run[j]
      /\ IsRun(run'[i]) /\ run'[i].target = run[i].target /\ run'[i].trigger = run[i].trigger
      /\ run'[i].at = run[i].at /\ run'[i].quiet = run[i].quiet
      /\ run'[i].todo = Left(run[i], c, answered, objects)
      /\ run'[i].got = [d \in DOMAIN run[i].got \cup {c} |->
                          IF d = c THEN objects ELSE run[i].got[d]]
      /\ run'[i].failed = IF answered \/ refused THEN run[i].failed ELSE run[i].failed \cup {c}
      /\ run'[i].totals = [p \in Pod |-> IF c[1] = "pods" /\ p \in NamesOf(objects)
                                          THEN Total(p) ELSE run[i].totals[p]]
      /\ run'[i].deltas = [p \in Pod |-> IF p \in Seen(run[i], c) THEN Delta(run[i], p)
                                         ELSE run[i].deltas[p]]
      /\ samples' = IF Seen(run[i], c) = {} THEN samples ELSE Observed(run[i], Seen(run[i], c))
      /\ UNCHANGED <<now, world, cluster, restarts, counters>>
  BY ProceedRun DEF Inv, Calls
<1>2. CallsKept(run[i]) /\ run[i].failed \subseteq DOMAIN run[i].got
  BY CallsByRun DEF Inv, Types
<1>3. Ahead(run[i]) /\ c \in run[i].todo
  BY <1>0, <1>2 DEF CallsKept, IsNext
<1>4. Ahead(run'[i])
  <2>1. DOMAIN run'[i].got = DOMAIN run[i].got \cup {c}
    BY <1>1
  <2> QED  BY <1>1, <1>3, <2>1, AheadKept
<1>5. ASSUME Active(run'[i]), run'[i].quiet
      PROVE  Faithful(run'[i])
  <2>1. Active(run[i]) /\ run[i].quiet
    BY <1>1, <1>5 DEF Active
  <2>2. Faithful(run[i]) /\ IsTarget(run[i].target)
    BY <1>2, <2>1, ActiveTarget DEF CallsKept
  <2>3. Made(run[i], run'[i], c, answered, refused, objects)
    BY <1>0, <1>1 DEF Made
  <2> QED  BY <1>2, <1>3, <2>2, <2>3, FaithfulKept
<1>6. \A j \in DOMAIN run' : CallsKept(run'[j])
  BY <1>1, <1>4, <1>5, CallsByRun DEF CallsKept
<1> QED  BY <1>1, <1>6, CallsKeptAll

(* A change of the cluster disturbs every inspection under way.            *)
LEMMA ChangeCalls ==
  ASSUME Inv, CallsInv, NEW c \in DOMAIN cluster, Change(c)
  PROVE  CallsInv'
<1>1. run' = Disturbed
  BY DEF Change
<1>2. ASSUME NEW i \in DOMAIN run PROVE Ahead(run'[i]) /\ (Active(run'[i]) => ~run'[i].quiet)
  <2>1. /\ run'[i].target = run[i].target /\ (Active(run[i]) => ~run'[i].quiet)
        /\ run'[i].todo = run[i].todo /\ run'[i].got = run[i].got
    BY <1>1, DisturbedRuns DEF Inv, Calls
  <2> QED  BY <2>1, CallsByRun DEF CallsKept, Ahead, Active
<1>3. DOMAIN run' = DOMAIN run
  BY <1>1, DisturbedRuns DEF Inv, Calls
<1>4. \A r \in Range(run)' : Ahead(r) /\ (Active(r) => ~r.quiet)
  BY <1>2, <1>3 DEF Range
<1>5. \A r : (Ahead(r)' <=> Ahead(r)) /\ (Active(r)' <=> Active(r))
  BY DEF Ahead, Active
<1> QED  BY <1>4, <1>5 DEF CallsInv, CallsKept, Ahead

(* Every step keeps the calls in order.                                    *)
LEMMA CallsNext == Inv /\ CallsInv /\ [Next]_vars => CallsInv'
<1> SUFFICES ASSUME Inv, CallsInv, [Next]_vars PROVE CallsInv'
  OBVIOUS
<1>1. CASE Tick \/ (\E p \in Pod : RestartPod(p)) \/ UNCHANGED vars
  <2>1. UNCHANGED <<cluster, run>>
    BY <1>1 DEF Tick, RestartPod, vars
  <2> QED  BY <2>1, CallsByRun, CallsKeptAll
<1>2. ASSUME NEW c \in DOMAIN cluster, Change(c) PROVE CallsInv'
  BY <1>2, ChangeCalls
<1>3. ASSUME NEW i \in DOMAIN run, NEW t \in world.targets, NEW g \in world.triggers, StartRun(i, t, g)
      PROVE  CallsInv'
  BY <1>3, StartCalls
<1>4. ASSUME NEW i \in DOMAIN run, NEW c, CallMade(i, c) PROVE CallsInv'
  BY <1>4, ProceedCalls
<1>5. ASSUME NEW i \in DOMAIN run, Finish(i) PROVE CallsInv'
  <2>1. run' = [run EXCEPT ![i] = Idle] /\ UNCHANGED cluster
    BY <1>5 DEF Finish
  <2>2. \A j \in DOMAIN run' : CallsKept(run'[j])
    BY <2>1, IdleCalls, CallsByRun
  <2> QED  BY <2>1, <2>2, CallsKeptAll
<1> QED  BY <1>1, <1>2, <1>3, <1>4, <1>5 DEF Next, CallMade

(* Types of the variables, for any clusters, pods and inspectors: each     *)
(* call has found what the cluster has to offer, a failed call is one that *)
(* was made and none is made twice, the store of restart samples           *)
(* (RestartSampleStore) has one sample for each pod, and totals, increases *)
(* and the counters of resource_metric_states stay within their bounds.    *)
THEOREM CollectionTypes == Spec => []TypeOK
<1>1. Spec => [](Inv /\ CallsInv)
  BY InvInit, InvNext, CallsInit, CallsNext, PTL DEF Spec
<1>2. Inv /\ CallsInv => TypeOK
  BY CallsByRun DEF Inv, TypeOK, CallsAhead, CallsKept, Ahead
<1> QED  BY <1>1, <1>2, PTL

-----------------------------------------------------------------------------
(* Spikes.                                                                 *)

(* The restarts before a time, and those from a window before it on.       *)
Before(p, t) == {k \in Of(p) : restarts[k][2] < t}
Recent(p, t) == {k \in Of(p) : restarts[k][2] + Threshold.restartWindow >= t}

(* A sample counts at least the restarts from before its time.             *)
SampleCounts(s) == s.at <= now /\ Cardinality(Before(s.pod, s.at)) <= s.total
(* What an inspection counts: no more restarts than there were, at least   *)
(* those before it began of each pod it has listed, and as an increase     *)
(* only recent ones.                                                       *)
RunCounts(r) ==
  /\ r.at <= now
  /\ \A p \in Pod : r.totals[p] <= Total(p)
  /\ \A c \in DOMAIN r.got : c[1] = "pods" =>
       \A p \in Pod \cap NamesOf(r.got[c]) : Cardinality(Before(p, r.at)) <= r.totals[p]
  /\ \A p \in Pod : r.deltas[p] <= Cardinality(Recent(p, r.at))

(* The strengthening of NoSpikeFromHistory.                                *)
SpikeInv == (\A s \in samples : SampleCounts(s)) /\ (\A i \in DOMAIN run : RunCounts(run[i]))

(* These sets are finite.                                                  *)
LEMMA CountsFinite ==
  ASSUME Inv, NEW p, NEW t
  PROVE  /\ IsFiniteSet(Of(p)) /\ IsFiniteSet(Before(p, t)) /\ IsFiniteSet(Recent(p, t))
         /\ Cardinality(Of(p)) \in Nat /\ Cardinality(Before(p, t)) \in Nat
         /\ Cardinality(Recent(p, t)) \in Nat
         /\ Cardinality(Before(p, t)) <= Cardinality(Of(p))
<1>1. IsFiniteSet(Of(p))
  BY TotalType
<1>2. Before(p, t) \subseteq Of(p) /\ Recent(p, t) \subseteq Of(p)
  BY DEF Before, Recent
<1> QED  BY <1>1, <1>2, FS_Subset, FS_CardinalityType

(* Restarts have a time.                                                   *)
LEMMA RestartTime ==
  ASSUME Inv, NEW p, NEW k \in Of(p)
  PROVE  restarts[k][2] \in Nat
<1>1. restarts[k] \in Pod \X Stamp
  BY DEF Inv, Types, Of
<1> QED  BY <1>1, CollectionAssumption DEF Stamp

(* The restarts that are not from before a recent sample are recent.       *)
LEMMA SinceSample ==
  ASSUME Inv, NEW p, NEW t \in Stamp, NEW u \in Stamp, t <= u + Threshold.restartWindow
  PROVE  Cardinality(Of(p)) <= Cardinality(Before(p, u)) + Cardinality(Recent(p, t))
<1>1. \A k \in Of(p) : k \in Before(p, u) \/ k \in Recent(p, t)
  <2> SUFFICES ASSUME NEW k \in Of(p), k \notin Recent(p, t) PROVE k \in Before(p, u)
    OBVIOUS
  <2>1. restarts[k][2] \in Nat /\ Threshold.restartWindow \in Nat /\ t \in Nat /\ u \in Nat
    BY RestartTime, Limits, CollectionAssumption DEF Stamp
  <2>2. restarts[k][2] + Threshold.restartWindow < t
    BY <2>1 DEF Recent
  <2>3. restarts[k][2] < u
    BY <2>1, <2>2
  <2> QED  BY <2>3 DEF Before
<1>2. Of(p) = Before(p, u) \cup Recent(p, t)
  BY <1>1 DEF Before, Recent
<1>3. /\ IsFiniteSet(Before(p, u)) /\ IsFiniteSet(Recent(p, t))
      /\ Cardinality(Before(p, u)) \in Nat /\ Cardinality(Recent(p, t)) \in Nat
  BY CountsFinite
<1>4. IsFiniteSet(Before(p, u) \cap Recent(p, t))
  BY <1>3, FS_Intersection
<1>5. /\ Cardinality(Of(p)) = Cardinality(Before(p, u)) + Cardinality(Recent(p, t))
                                - Cardinality(Before(p, u) \cap Recent(p, t))
      /\ Cardinality(Before(p, u) \cap Recent(p, t)) \in Nat
  BY <1>2, <1>3, <1>4, FS_Union, FS_CardinalityType
<1> QED  BY <1>3, <1>5

(* The counts are numbers.                                                 *)
LEMMA CountTypes ==
  ASSUME Inv
  PROVE  /\ now \in Nat
         /\ \A p : Total(p) \in Nat /\ Total(p) = Cardinality(Of(p))
         /\ \A p, t : Cardinality(Before(p, t)) \in Nat /\ Cardinality(Recent(p, t)) \in Nat
<1>1. now \in Nat
  BY CollectionAssumption DEF Inv, Types, Stamp
<1>2. \A p : Total(p) \in Nat /\ Total(p) = Cardinality(Of(p))
  BY TotalType
<1>3. \A p, t : Cardinality(Before(p, t)) \in Nat /\ Cardinality(Recent(p, t)) \in Nat
  BY CountsFinite
<1> QED  BY <1>1, <1>2, <1>3

(* Without a restart, samples and inspections are judged as before.        *)
LEMMA SpikesFrom ==
  ASSUME UNCHANGED <<now, restarts>>, \A s \in samples' : SampleCounts(s),
         \A i \in DOMAIN run' : RunCounts(run'[i])
  PROVE  SpikeInv'
<1>1. \A p : Of(p)' = Of(p) /\ Total(p)' = Total(p)
  BY DEF Of, Total
<1>2. \A p, t : Before(p, t)' = Before(p, t) /\ Recent(p, t)' = Recent(p, t)
  BY <1>1 DEF Before, Recent
<1>3. \A s \in samples' : SampleCounts(s)'
  BY <1>2 DEF SampleCounts
<1>4. \A i \in DOMAIN run' : RunCounts(run[i])'
  BY <1>1, <1>2 DEF RunCounts
<1> QED  BY <1>3, <1>4 DEF SpikeInv

(* Without a new sample, only inspections are.                             *)
LEMMA SpikesKept ==
  ASSUME SpikeInv, UNCHANGED <<now, restarts, samples>>,
         \A i \in DOMAIN run' : RunCounts(run'[i])
  PROVE  SpikeInv'
<1>1. \A s \in samples' : SampleCounts(s)
  BY DEF SpikeInv
<1> QED  BY <1>1, SpikesFrom

(* Nothing has been counted initially.                                     *)
LEMMA SpikeInit == Init => SpikeInv
<1> SUFFICES ASSUME Init PROVE SpikeInv
  OBVIOUS
<1>1. Inv /\ samples = {} /\ \A i \in DOMAIN run : run[i] = Idle
  BY InvInit DEF Init
<1>2. now \in Nat /\ \A p \in Pod : Total(p) \in Nat
  BY <1>1, CountTypes
<1>3. \A p \in Pod : Cardinality(Recent(p, 0)) \in Nat
  BY <1>1, CountTypes
<1>4. RunCounts(Idle)
  BY <1>2, <1>3, IdleFields DEF RunCounts
<1> QED  BY <1>1, <1>4 DEF SpikeInv

(* An inspection has counted nothing when it starts.                       *)
LEMMA StartSpikes ==
  ASSUME Inv, SpikeInv, NEW i \in DOMAIN run, NEW target, NEW trigger, StartRun(i, target, trigger)
  PROVE  SpikeInv'
<1>1. UNCHANGED <<now, restarts, samples>>
  BY DEF StartRun
<1>2. /\ DOMAIN run' = DOMAIN run /\ \A j \in DOMAIN run : j # i => run'[j] = run[j]
      /\ run'[i].at = now /\ run'[i].got = <<>>
      /\ run'[i].totals = [p \in Pod |-> 0] /\ run'[i].deltas = [p \in Pod |-> 0]
  BY StartedRun
<1>3. now \in Nat /\ \A p \in Pod : Total(p) \in Nat /\ Cardinality(Recent(p, now)) \in Nat
  BY CountTypes
<1>4. RunCounts(run'[i])
  BY <1>2, <1>3 DEF RunCounts
<1>5. \A j \in DOMAIN run' : RunCounts(run'[j])
  BY <1>2, <1>4 DEF SpikeInv
<1> QED  BY <1>1, <1>5, SpikesKept

(* An inspection that ends counts nothing.                                 *)
LEMMA FinishSpikes ==
  ASSUME Inv, SpikeInv, NEW i \in DOMAIN run, Finish(i)
  PROVE  SpikeInv'
<1>1. UNCHANGED <<now, restarts, samples>> /\ run' = [run EXCEPT ![i] = Idle]
  BY DEF Finish
<1>2. now \in Nat /\ \A p \in Pod : Total(p) \in Nat /\ Cardinality(Recent(p, 0)) \in Nat
  BY CountTypes
<1>3. RunCounts(Idle)
  BY <1>2, IdleFields DEF RunCounts
<1>4. \A j \in DOMAIN run' : RunCounts(run'[j])
  BY <1>1, <1>3 DEF SpikeInv
<1> QED  BY <1>1, <1>4, SpikesKept

(* A change of the cluster does not change what has been counted.          *)
LEMMA ChangeSpikes ==
  ASSUME Inv, SpikeInv, NEW c \in DOMAIN cluster, Change(c)
  PROVE  SpikeInv'
<1>1. UNCHANGED <<now, restarts, samples>> /\ run' = Disturbed
  BY DEF Change
<1>2. \A j \in DOMAIN run' : RunCounts(run'[j])
  BY <1>1, DisturbedRuns DEF Inv, Calls, SpikeInv, RunCounts
<1> QED  BY <1>1, <1>2, SpikesKept

(* What has been counted stays in the past.                                *)
LEMMA TickSpikes ==
  ASSUME Inv, SpikeInv, Tick
  PROVE  SpikeInv'
<1>1. now' = now + 1 /\ UNCHANGED <<restarts, samples, run>> /\ now \in Nat
  BY CollectionAssumption DEF Tick, Inv, Types, Stamp
<1>2. \A s \in samples : s.at <= now'
  <2>1. \A s \in samples : s.at \in Nat /\ s.at <= now
    BY CollectionAssumption DEF Inv, Types, Stamp, SpikeInv, SampleCounts
  <2> QED  BY <1>1, <2>1
<1>3. \A i \in DOMAIN run : run[i].at <= now'
  <2>1. \A i \in DOMAIN run : run[i].at \in Nat /\ run[i].at <= now
    BY CollectionAssumption DEF Inv, Types, Stamp, SpikeInv, RunCounts
  <2> QED  BY <1>1, <2>1
<1> QED  BY <1>1, <1>2, <1>3 DEF SpikeInv, SampleCounts, RunCounts, Before, Recent, Of, Total

(* A restart is no earlier than any time looked at, and only adds to what  *)
(* is recent.                                                              *)
LEMMA RestartCounts ==
  ASSUME Inv, NEW q \in Pod, RestartPod(q), NEW p
  PROVE  /\ Total(p)' >= Total(p)
         /\ \A t \in Int : t <= now => Before(p, t)' = Before(p, t)
         /\ \A t : Cardinality(Recent(p, t)') >= Cardinality(Recent(p, t))
         /\ Total(p)' \in Nat /\ \A t : Cardinality(Recent(p, t)') \in Nat
<1>1. /\ restarts' = Append(restarts, <<q, now>>) /\ restarts \in Seq(Pod \X Stamp)
      /\ now \in Int
  BY CountTypes DEF RestartPod, Inv, Types
<1>2. /\ DOMAIN restarts = 1..Len(restarts) /\ DOMAIN restarts' = 1..(Len(restarts) + 1)
      /\ Len(restarts) \in Nat
      /\ \A k \in 1..Len(restarts) : restarts'[k] = restarts[k]
      /\ restarts'[Len(restarts) + 1] = <<q, now>>
  BY <1>1
<1>4. Of(p) \subseteq Of(p)' /\ \A k \in Of(p)' : k \in Of(p) \/ k = Len(restarts) + 1
  BY <1>2 DEF Of
<1>5. ASSUME NEW t \in Int, t <= now PROVE Before(p, t)' = Before(p, t)
  <2>1. restarts'[Len(restarts) + 1][2] = now /\ ~(now < t)
    BY <1>1, <1>2, <1>5
  <2>2. \A k \in Of(p) : k \in 1..Len(restarts) /\ restarts'[k] = restarts[k]
    BY <1>2 DEF Of
  <2> QED  BY <1>4, <2>1, <2>2 DEF Before
<1>6. IsFiniteSet(Of(p)') /\ Total(p)' = Cardinality(Of(p)')
  <2>1. PICK n \in Nat : n = Len(restarts)
    BY <1>2, Zenon
  <2>2. IsFiniteSet(1..(n + 1))
    BY <2>1, FS_Interval
  <2>3. Of(p)' \subseteq 1..(n + 1)
    BY <1>2, <2>1 DEF Of
  <2>4. Total(p)' = Cardinality(Of(p)')
    BY DEF Total, Of
  <2> QED  BY <2>2, <2>3, <2>4, FS_Subset
<1>7. Total(p)' >= Total(p) /\ Total(p)' \in Nat
  BY <1>4, <1>6, FS_Subset, FS_CardinalityType, TotalType
<1>8. ASSUME NEW t
      PROVE  /\ Cardinality(Recent(p, t)') >= Cardinality(Recent(p, t))
             /\ Cardinality(Recent(p, t)') \in Nat
  <2>1. \A k \in Of(p) : k \in 1..Len(restarts) /\ restarts'[k] = restarts[k]
    BY <1>2 DEF Of
  <2>2. Recent(p, t) \subseteq Recent(p, t)' /\ Recent(p, t)' \subseteq Of(p)'
    BY <1>4, <2>1 DEF Recent
  <2>3. IsFiniteSet(Recent(p, t)')
    BY <1>6, <2>2, FS_Subset
  <2>4. /\ Cardinality(Recent(p, t)) \in Nat /\ Cardinality(Recent(p, t)') \in Nat
        /\ Cardinality(Recent(p, t)) <= Cardinality(Recent(p, t)')
    BY <2>2, <2>3, FS_Subset, FS_CardinalityType
  <2> QED  BY <2>4
<1> QED  BY <1>5, <1>7, <1>8

(* A restart makes no sample and no inspection count too much.             *)
LEMMA RestartSpikes ==
  ASSUME Inv, SpikeInv, NEW q \in Pod, RestartPod(q)
  PROVE  SpikeInv'
<1>1. UNCHANGED <<now, run, samples>>
  BY DEF RestartPod
<1>a. ASSUME NEW p
      PROVE  /\ Total(p)' >= Total(p)
             /\ \A t \in Int : t <= now => Before(p, t)' = Before(p, t)
             /\ \A t : Cardinality(Recent(p, t)') >= Cardinality(Recent(p, t))
             /\ Total(p)' \in Nat /\ \A t : Cardinality(Recent(p, t)') \in Nat
  BY RestartCounts
<1>c. \A p : Total(p)' >= Total(p) /\ Total(p)' \in Nat
  BY <1>a
<1>d. \A p : \A t \in Int : t <= now => Before(p, t)' = Before(p, t)
  BY <1>a
<1>e. \A p, t : /\ Cardinality(Recent(p, t)') >= Cardinality(Recent(p, t))
                /\ Cardinality(Recent(p, t)') \in Nat
  BY <1>a
<1>b. /\ \A p : Total(p) \in Nat
      /\ \A p, t : Cardinality(Before(p, t)) \in Nat /\ Cardinality(Recent(p, t)) \in Nat
  BY CountTypes
<1>2. ASSUME NEW s \in samples PROVE SampleCounts(s)'
  <2>1. s.at \in Nat /\ s.at <= now /\ Cardinality(Before(s.pod, s.at)) <= s.total
    BY CollectionAssumption DEF Inv, Types, Stamp, SpikeInv, SampleCounts
  <2>2. Before(s.pod, s.at)' = Before(s.pod, s.at)
    BY <1>d, <2>1
  <2> QED  BY <1>1, <2>1, <2>2 DEF SampleCounts
<1>3. ASSUME NEW i \in DOMAIN run PROVE RunCounts(run[i])'
  <2>0. RunCounts(run[i])
    BY DEF SpikeInv
  <2>1. RunCounts(run[i]) /\ run[i].at \in Nat /\ run[i].at <= now
    <3>1. run[i].at <= now
      BY <2>0 DEF RunCounts
    <3>2. run[i].at \in Nat
      BY CollectionAssumption DEF Inv, Types, Stamp
    <3> QED  BY <2>0, <3>1, <3>2
  <2>p. PICK t \in Nat : t = run[i].at
    BY <2>1
  <2>2. \A p : Before(p, t)' = Before(p, t)
    BY <1>d, <2>1, <2>p
  <2>3. \A p \in Pod : run[i].totals[p] \in Nat /\ run[i].deltas[p] \in Nat
    BY CollectionAssumption DEF Inv, Types
  <2>4. ASSUME NEW p \in Pod
        PROVE  /\ run[i].totals[p] <= Total(p)'
               /\ run[i].deltas[p] <= Cardinality(Recent(p, t)')
    <3>1. /\ Total(p)' >= Total(p)
          /\ Cardinality(Recent(p, t)') >= Cardinality(Recent(p, t))
      BY <1>c, <1>e
    <3>2. Total(p)' \in Nat /\ Cardinality(Recent(p, t)') \in Nat
      BY <1>c, <1>e
    <3>3. /\ run[i].totals[p] <= Total(p)
          /\ run[i].deltas[p] <= Cardinality(Recent(p, t))
      BY <2>1, <2>p DEF RunCounts
    <3>4. /\ run[i].totals[p] \in Nat /\ run[i].deltas[p] \in Nat
          /\ Total(p) \in Nat /\ Cardinality(Recent(p, t)) \in Nat
      BY <1>b, <2>3
    <3> QED  BY <3>1, <3>2, <3>3, <3>4
  <2> QED  BY <1>1, <2>1, <2>p, <2>2, <2>4 DEF RunCounts
<1> QED  BY <1>1, <1>2, <1>3 DEF SpikeInv

(* The pods observed have been listed, and counted, by the same            *)
(* inspection.                                                             *)
LEMMA SeenWasListed ==
  ASSUME Inv, SpikeInv, NEW i \in DOMAIN run, NEW c, NEW p \in Seen(run[i], c)
  PROVE  p \in Pod /\ Cardinality(Before(p, run[i].at)) <= run[i].totals[p]
<1>1. PICK n : p \in Pod \cap NamesOf(Found(run[i], "pods", n))
  BY DEF Seen
<1>2. /\ <<"pods", n>> \in DOMAIN run[i].got
      /\ Found(run[i], "pods", n) = run[i].got[<<"pods", n>>]
  BY <1>1 DEF Found, NamesOf
<1>3. <<"pods", n>>[1] = "pods"
  OBVIOUS
<1>4. RunCounts(run[i])
  BY DEF SpikeInv
<1> QED  BY <1>1, <1>2, <1>3, <1>4 DEF RunCounts

(* An increase consists of recent restarts, whoever made the sample: an    *)
(* overlapping inspection may have counted fewer restarts but has counted  *)
(* those before its start.                                                 *)
LEMMA DeltaIsRecent ==
  ASSUME Inv, SpikeInv, NEW i \in DOMAIN run, NEW p \in Pod
  PROVE  Delta(run[i], p) <= Cardinality(Recent(p, run[i].at))
<1>1. /\ \A q : Total(q) \in Nat /\ Total(q) = Cardinality(Of(q))
      /\ \A q, t : Cardinality(Before(q, t)) \in Nat /\ Cardinality(Recent(q, t)) \in Nat
  BY CountTypes
<1>2. CASE Delta(run[i], p) = 0
  BY <1>1, <1>2
<1>3. ASSUME NEW s \in samples, s \in Sample, s.pod = p, IsRecent(s, run[i]),
             Delta(run[i], p) = run[i].totals[p] - s.total
      PROVE  Delta(run[i], p) <= Cardinality(Recent(p, run[i].at))
  <2>1. s.at \in Stamp /\ run[i].at \in Stamp /\ run[i].at <= s.at + Threshold.restartWindow
    BY <1>3 DEF Sample, IsRecent, Inv, Types
  <2>2. Cardinality(Of(p)) <= Cardinality(Before(p, s.at)) + Cardinality(Recent(p, run[i].at))
    BY <2>1, SinceSample
  <2>3. Cardinality(Before(p, s.at)) <= s.total
    BY <1>3 DEF SpikeInv, SampleCounts
  <2>4. run[i].totals[p] <= Total(p)
    BY DEF SpikeInv, RunCounts
  <2>5. run[i].totals[p] \in Nat /\ s.total \in Nat
    BY <1>3, CollectionAssumption DEF Sample, Inv, Types
  <2>6. Total(p) \in Nat /\ Total(p) = Cardinality(Of(p))
    BY <1>1
  <2>7. Cardinality(Before(p, s.at)) \in Nat /\ Cardinality(Recent(p, run[i].at)) \in Nat
    BY <1>1
  <2> QED  BY <1>3, <2>2, <2>3, <2>4, <2>5, <2>6, <2>7
<1> QED  BY <1>2, <1>3, DeltaOfSample

(* A call keeps the counts: this is where observe() compares and replaces  *)
(* the sample.                                                             *)
LEMMA ProceedSpikes ==
  ASSUME Inv, SpikeInv, NEW i \in DOMAIN run, NEW c, NEW answered, NEW refused, NEW objects,
         Proceed(i, c, answered, refused, objects)
  PROVE  SpikeInv'
<1>1. /\ DOMAIN run' = DOMAIN run /\ \A j \in DOMAIN run : j # i => run'[j] = run[j]
      /\ IsRun(run'[i]) /\ run'[i].target = run[i].target /\ run'[i].trigger = run[i].trigger
      /\ run'[i].at = run[i].at /\ run'[i].quiet = run[i].quiet
      /\ run'[i].todo = Left(run[i], c, answered, objects)
      /\ run'[i].got = [d \in DOMAIN run[i].got \cup {c} |->
                          IF d = c THEN objects ELSE run[i].got[d]]
      /\ run'[i].failed = IF answered \/ refused THEN run[i].failed ELSE run[i].failed \cup {c}
      /\ run'[i].totals = [p \in Pod |-> IF c[1] = "pods" /\ p \in NamesOf(objects)
                                          THEN Total(p) ELSE run[i].totals[p]]
      /\ run'[i].deltas = [p \in Pod |-> IF p \in Seen(run[i], c) THEN Delta(run[i], p)
                                         ELSE run[i].deltas[p]]
      /\ samples' = IF Seen(run[i], c) = {} THEN samples ELSE Observed(run[i], Seen(run[i], c))
      /\ UNCHANGED <<now, world, cluster, restarts, counters>>
  BY ProceedRun DEF Inv, Calls
<1>2. RunCounts(run[i])
  BY DEF SpikeInv
<1>3. /\ \A p : Total(p) \in Nat /\ Total(p) = Cardinality(Of(p))
      /\ \A p, t : /\ Cardinality(Before(p, t)) \in Nat
                   /\ Cardinality(Before(p, t)) <= Cardinality(Of(p))
  BY CountTypes, CountsFinite
<1>4. \A p \in Pod : run'[i].totals[p] <= Total(p)
  <2> SUFFICES ASSUME NEW p \in Pod PROVE run'[i].totals[p] <= Total(p)
    OBVIOUS
  <2>1. run[i].totals[p] <= Total(p) /\ Total(p) <= Total(p)
    BY <1>2, <1>3 DEF RunCounts
  <2> QED  BY <1>1, <2>1
<1>5. ASSUME NEW d \in DOMAIN run'[i].got, d[1] = "pods", NEW p \in Pod \cap NamesOf(run'[i].got[d])
      PROVE  Cardinality(Before(p, run'[i].at)) <= run'[i].totals[p]
  <2>1. Cardinality(Before(p, run[i].at)) <= Total(p)
    BY <1>3
  <2>2. CASE d = c
    BY <1>1, <1>5, <2>1, <2>2
  <2>3. CASE d # c
    <3>1. d \in DOMAIN run[i].got /\ run'[i].got[d] = run[i].got[d]
      BY <1>1, <2>3
    <3>2. Cardinality(Before(p, run[i].at)) <= run[i].totals[p]
      BY <1>2, <1>5, <3>1 DEF RunCounts
    <3> QED  BY <1>1, <2>1, <3>2
  <2> QED  BY <2>2, <2>3
<1>6. \A p \in Pod : run'[i].deltas[p] <= Cardinality(Recent(p, run'[i].at))
  BY <1>1, <1>2, DeltaIsRecent DEF RunCounts
<1>7. RunCounts(run'[i])
  BY <1>1, <1>2, <1>4, <1>5, <1>6 DEF RunCounts
<1>8. \A j \in DOMAIN run' : RunCounts(run'[j])
  BY <1>1, <1>7 DEF SpikeInv
<1>9. \A s \in samples' : SampleCounts(s)
  <2>1. \A s \in samples : SampleCounts(s)
    BY DEF SpikeInv
  <2>2. ASSUME NEW p \in Seen(run[i], c), NEW s, s = [pod |-> p, total |-> run[i].totals[p], at |-> run[i].at]
        PROVE  SampleCounts(s)
    <3>1. run[i].at <= now
      BY <1>2 DEF RunCounts
    <3>2. Cardinality(Before(p, run[i].at)) <= run[i].totals[p]
      BY SeenWasListed
    <3> QED  BY <2>2, <3>1, <3>2 DEF SampleCounts
  <2>3. ASSUME NEW s \in Observed(run[i], Seen(run[i], c)) PROVE SampleCounts(s)
    BY <2>1, <2>2 DEF Observed
  <2> QED  BY <1>1, <2>1, <2>3
<1> QED  BY <1>1, <1>8, <1>9, SpikesFrom

(* Every step keeps the counts.                                            *)
LEMMA SpikeNext == Inv /\ SpikeInv /\ [Next]_vars => SpikeInv'
<1> SUFFICES ASSUME Inv, SpikeInv, [Next]_vars PROVE SpikeInv'
  OBVIOUS
<1>1. CASE Tick
  BY <1>1, TickSpikes
<1>2. ASSUME NEW c \in DOMAIN cluster, Change(c) PROVE SpikeInv'
  BY <1>2, ChangeSpikes
<1>3. ASSUME NEW p \in Pod, RestartPod(p) PROVE SpikeInv'
  BY <1>3, RestartSpikes
<1>4. ASSUME NEW i \in DOMAIN run, NEW t \in world.targets, NEW g \in world.triggers, StartRun(i, t, g)
      PROVE  SpikeInv'
  BY <1>4, StartSpikes
<1>5. ASSUME NEW i \in DOMAIN run, NEW c, CallMade(i, c) PROVE SpikeInv'
  BY <1>5, CallProceeds, ProceedSpikes
<1>6. ASSUME NEW i \in DOMAIN run, Finish(i) PROVE SpikeInv'
  BY <1>6, FinishSpikes
<1>7. CASE UNCHANGED vars
  BY <1>7, SpikesKept DEF vars, SpikeInv
<1> QED  BY <1>1, <1>2, <1>3, <1>4, <1>5, <1>6, <1>7 DEF Next, CallMade

(* Only an increase up to the threshold makes a spike.                     *)
LEMMA SpikeNeedsDelta ==
  ASSUME Inv, NEW i \in DOMAIN run, NEW p \in Pod, NEW n, NEW x \in PodObservations(run[i], n),
         <<"POD_RESTART_SPIKE", p, Warning>> \in x.issues
  PROVE  run[i].deltas[p] >= Threshold.restartDelta
<1>1. PICK o \in Found(run[i], "pods", n) :
        x = Observation("Pod", n, o, o.labels, TRUE,
              PodCandidates(o, Missing(run[i], n, o),
                            IF o.name \in Pod THEN run[i].deltas[o.name] ELSE 0, run[i].at))
  BY DEF PodObservations
<1> DEFINE d == IF o.name \in Pod THEN run[i].deltas[o.name] ELSE 0
<1>2. <<"POD_RESTART_SPIKE", p, Warning>> \in PodCandidates(o, Missing(run[i], n, o), d, run[i].at)
  BY <1>1 DEF Observation
<1> DEFINE m == Missing(run[i], n, o)
<1> HIDE DEF d, m
<1>3. o.name = p /\ d >= Threshold.restartDelta
  BY <1>2 DEF PodCandidates, When, Issue, m
<1> QED  BY <1>3 DEF d

(* A POD_RESTART_SPIKE is made of restarts within restart_window before    *)
(* the inspection began, however many inspections overlap and share        *)
(* RestartSampleStore: observe() takes the increase only over a sample     *)
(* that is recent, and one that an overlapping inspection has left counts  *)
(* all restarts from before that inspection.                               *)
THEOREM SpikesAreRecent == Spec => []NoSpikeFromHistory
<1>1. Inv /\ SpikeInv => NoSpikeFromHistory
  <2> SUFFICES ASSUME Inv, SpikeInv, NEW i \in DOMAIN run, NEW p \in Pod, NEW n \in Namespace,
                      NEW x \in PodObservations(run[i], n),
                      <<"POD_RESTART_SPIKE", p, Warning>> \in x.issues
               PROVE  Cardinality(Recent(p, run[i].at)) >= Threshold.restartDelta
    BY Zenon DEF NoSpikeFromHistory, Recent, Of
  <2>1. run[i].deltas[p] >= Threshold.restartDelta
    BY SpikeNeedsDelta
  <2>2. run[i].deltas[p] <= Cardinality(Recent(p, run[i].at))
    BY DEF SpikeInv, RunCounts
  <2>3. run[i].deltas[p] \in Nat
    BY CollectionAssumption DEF Inv, Types
  <2>4. Cardinality(Recent(p, run[i].at)) \in Nat
    BY CountTypes
  <2>5. Threshold.restartDelta \in Nat
    BY Limits
  <2> QED  BY <2>1, <2>2, <2>3, <2>4, <2>5
<1>2. Spec => [](Inv /\ SpikeInv)
  BY InvInit, InvNext, SpikeInit, SpikeNext, PTL DEF Spec
<1> QED  BY <1>1, <1>2, PTL

(* What is listed is of the world at hand.                                 *)
LEMMA ListedTimes ==
  ASSUME Types, NEW kind, NEW o \in Listed(kind)
  PROVE  /\ kind \in {"jobs", "pods", "pvcs", "pvs", "nodes"} => o.since \in Int
         /\ kind = "secrets" => o.until \in Int
<1>1. PICK c \in DOMAIN cluster : c[1] = kind /\ o \in cluster[c]
  BY DEF Listed
<1>2. world \in Worlds /\ c \in DOMAIN world.finds /\ cluster[c] \in world.finds[c]
  BY DEF Types
<1> QED  BY <1>1, <1>2, WorldsAssumption

(* An object left alone never looks healthier later to the evaluators      *)
(* (workload_candidates, pod_candidates, storage_candidates,               *)
(* node_candidates, tls_candidates): over any two times, whatever the      *)
(* thresholds in their order, the worst of its issues does not become less *)
(* severe.                                                                 *)
THEOREM AgeingNeverHeals == Spec => []AgingNeverHeals
<1>1. Types => AgingNeverHeals
  <2> SUFFICES ASSUME Types PROVE AgingNeverHeals
    OBVIOUS
  <2>1. \A t \in Stamp : t \in Nat /\ t \in Int
    BY CollectionAssumption DEF Stamp
  <2>2. \A o \in Listed("jobs"), s, t \in Stamp :
          s <= t => Worst(JobCandidates(o, s)) <= Worst(JobCandidates(o, t))
    BY <2>1, ListedTimes, JobsAge
  <2>3. \A o \in Listed("pods"), s, t \in Stamp :
          s <= t => Worst(PodCandidates(o, FALSE, 0, s)) <= Worst(PodCandidates(o, FALSE, 0, t))
    BY <2>1, ListedTimes, PodsAge
  <2>4. \A o \in Listed("pvcs"), s, t \in Stamp :
          s <= t => Worst(ClaimCandidates(o, Listed("pods"), Listed("storageclasses"), s))
                      <= Worst(ClaimCandidates(o, Listed("pods"), Listed("storageclasses"), t))
    BY <2>1, ListedTimes, ClaimsAge
  <2>5. \A o \in Listed("pvs"), s, t \in Stamp :
          s <= t => Worst(VolumeCandidates(o, s)) <= Worst(VolumeCandidates(o, t))
    BY <2>1, ListedTimes, VolumesAge
  <2>6. \A o \in Listed("nodes"), s, t \in Stamp :
          s <= t => Worst(NodeCandidates(o, NodeFacts(o, Listed("pods")), s))
                      <= Worst(NodeCandidates(o, NodeFacts(o, Listed("pods")), t))
    BY <2>1, ListedTimes, NodesAge
  <2>7. \A o \in {x \in Listed("secrets") : x.from = 0}, s, t \in Stamp :
          s <= t => Worst(CertificateCandidates(o, {}, s)) <= Worst(CertificateCandidates(o, {}, t))
    BY <2>1, ListedTimes, CertificatesAge
  <2> QED  BY <2>2, <2>3, <2>4, <2>5, <2>6, <2>7 DEF AgingNeverHeals
<1>2. TypeOK => Types
  BY DEF TypeOK
<1> QED  BY <1>1, <1>2, CollectionTypes, PTL

-----------------------------------------------------------------------------
(* What an inspection sees.                                                *)

(* An inspection with all calls made, of a cluster that stood still.       *)
Seeing(r) ==
  /\ IsRun(r) /\ Active(r) /\ r.todo = {} /\ Faithful(r) /\ IsTarget(r.target)
  /\ r.failed \subseteq DOMAIN r.got

(* The inspection that would have got every answer differs in what it has  *)
(* found only.                                                             *)
LEMMA IdealFields ==
  ASSUME NEW r, IsRun(r)
  PROVE  /\ Ideal(r).target = r.target /\ Ideal(r).trigger = r.trigger /\ Ideal(r).at = r.at
         /\ Ideal(r).deltas = r.deltas /\ Ideal(r).failed = {}
         /\ DOMAIN Ideal(r).got = AllCalls(r.target)
         /\ \A c \in AllCalls(r.target) : Ideal(r).got[c] = Answer(r.target, c)
<1> DEFINE g == [c \in AllCalls(r.target) |-> Answer(r.target, c)]
<1>1. Ideal(r) = [r EXCEPT !.got = g, !.failed = {}]
  BY DEF Ideal
<1> HIDE DEF g
<1>2. /\ Ideal(r).target = r.target /\ Ideal(r).trigger = r.trigger /\ Ideal(r).at = r.at
      /\ Ideal(r).deltas = r.deltas /\ Ideal(r).failed = {} /\ Ideal(r).got = g
  BY <1>1 DEF IsRun, RunFields
<1> QED  BY <1>2 DEF g

(* It finds what there is.                                                 *)
LEMMA FoundIdeal ==
  ASSUME NEW r, IsRun(r), NEW kind, NEW n
  PROVE  Found(Ideal(r), kind, n) = IF <<kind, n>> \in AllCalls(r.target)
                                      THEN Answer(r.target, <<kind, n>>) ELSE {}
BY IdealFields DEF Found

(* Whether an inspection has found what there is.                          *)
Saw(r, kind, n) ==
  /\ Found(r, kind, n) = Found(Ideal(r), kind, n)
  /\ <<kind, n>> \in DOMAIN r.got \ r.failed <=> <<kind, n>> \in AllCalls(r.target)

(* A listing that has not failed and was not left out has found what there *)
(* is.                                                                     *)
LEMMA SawUnless ==
  ASSUME NEW r, Seeing(r), NEW kind, NEW n, kind \notin Usages,
         <<kind, n>> \notin r.failed, ~IsLeftOut(r, <<kind, n>>)
  PROVE  Saw(r, kind, n)
<1> DEFINE c == <<kind, n>>
<1>1. c[1] = kind
  OBVIOUS
<1> HIDE DEF c
<1>2. CASE c \in AllCalls(r.target)
  <2>1. c \in DOMAIN r.got /\ r.got[c] = Answer(r.target, c)
    BY <1>1, <1>2 DEF Seeing, Faithful, c
  <2> QED  BY <1>2, <2>1, FoundIdeal DEF Saw, Found, Seeing, c
<1>3. CASE c \notin AllCalls(r.target)
  <2>1. c \notin DOMAIN r.got
    BY <1>3 DEF Seeing, Faithful
  <2> QED  BY <1>3, <2>1, FoundIdeal DEF Saw, Found, Seeing, c
<1> QED  BY <1>2, <1>3

(* Neither failed nor fed by a listing that failed.                        *)
Clear(r, n, check) ==
  \A c \in r.failed :
    /\ c[2] \in {n, None} => check \notin FedBy(c, r.target.selector)
    /\ check \in ChecksOfCall(c) =>
         r.target.type = "cluster" /\ c[2] # n /\ (check \in SharedChecks => c[2] # None)

(* The places an evaluation at n is about.                                 *)
Near(r, n, m) == IF r.target.type = "cluster" THEN m = n ELSE n = r.target.ns

AllChecks == Checks \cup {"required_components"}

(* A listing that feeds a clear check, or is reported under it, has found  *)
(* what there is.                                                          *)
LEMMA SawClear ==
  ASSUME NEW r, Seeing(r), NEW n, NEW check \in AllChecks, Clear(r, n, check),
         NEW kind, NEW m, kind \notin Usages \cup {"version"},
         check \in FedBy(<<kind, m>>, r.target.selector) \cup ChecksOfCall(<<kind, m>>),
         \/ Near(r, n, m)
         \/ m = None /\ check \in SharedChecks \cup FedBy(<<kind, m>>, r.target.selector)
  PROVE  Saw(r, kind, m)
<1> DEFINE c == <<kind, m>>
<1>1. c[1] = kind /\ c[2] = m
  OBVIOUS
<1>2. r.target.type # "cluster" /\ n = r.target.ns /\ c \in AllCalls(r.target) => m \in {n, None}
  <2> SUFFICES ASSUME r.target.type # "cluster", n = r.target.ns, c \in AllCalls(r.target)
               PROVE  m \in {n, None}
    OBVIOUS
  <2>1. c \in FirstCalls(r.target)
    BY CallsOfOthers DEF Mattering
  <2> QED  BY <1>1, <2>1, FirstOfOthers DEF Seeing
<1>3. c \notin r.failed
  <2> SUFFICES ASSUME c \in r.failed PROVE FALSE
    OBVIOUS
  <2>1. c \in AllCalls(r.target)
    BY DEF Seeing, Faithful
  <2>2. m \in {n, None}
    BY <1>2, <2>1 DEF Near
  <2>3. /\ check \notin FedBy(c, r.target.selector)
        /\ check \in ChecksOfCall(c) =>
             r.target.type = "cluster" /\ m # n /\ (check \in SharedChecks => m # None)
    BY <1>1, <2>2 DEF Clear
  <2> QED  BY <2>2, <2>3 DEF Near
<1>4. CASE c \notin AllCalls(r.target)
  <2>1. c \notin DOMAIN r.got
    BY <1>4 DEF Seeing, Faithful
  <2> QED  BY <1>4, <2>1, FoundIdeal DEF Saw, Found, Seeing
<1>5. CASE c \in AllCalls(r.target)
  <2>0. m \in {n, None} \/ r.target.type = "cluster"
    BY <1>2, <1>5 DEF Near
  <2>1. ~IsLeftOut(r, c)
    <3>1. Namespaces \notin r.failed
      <4>1. Namespaces[2] = None /\ FedBy(Namespaces, r.target.selector) = AllChecks
        BY DEF Namespaces, FedBy, AllChecks
      <4> QED  BY <4>1 DEF Clear
    <3>2. ~(c = AllPods /\ Nodes \in r.failed)
      <4> SUFFICES ASSUME c = AllPods, Nodes \in r.failed PROVE FALSE
        OBVIOUS
      <4>1. /\ FedBy(c, r.target.selector) = {"metrics.resource"} /\ ChecksOfCall(c) = {"node.health"}
            /\ FedBy(Nodes, r.target.selector) = {"metrics.resource"}
            /\ ChecksOfCall(Nodes) = {"node.health"} /\ Nodes[2] = None /\ m = None
        BY DEF FedBy, ChecksOfCall, AllPods, Nodes
      <4>2. check \notin FedBy(Nodes, r.target.selector)
        BY <4>1 DEF Clear
      <4>3. check = "node.health"
        BY <4>1, <4>2
      <4>4. r.target.type = "cluster" /\ None # n
        BY <4>1, <4>3 DEF Clear
      <4> QED  BY <4>1, <4>3, <4>4 DEF Near, SharedChecks
    <3>3. c # NodeMetrics
      BY DEF NodeMetrics, Usages
    <3>4. ~(r.target.pod # None /\ <<"pods", r.target.ns>> \in r.failed)
      <4> SUFFICES ASSUME r.target.pod # None, <<"pods", r.target.ns>> \in r.failed PROVE FALSE
        OBVIOUS
      <4> DEFINE p == <<"pods", r.target.ns>>
      <4>1. r.target.type = "pod" /\ r.target.ns \in Namespace /\ r.target.type # "cluster"
        BY DEF Seeing, IsTarget
      <4>2. c \in {Version} \cup ({"pods", "references", "podmetrics"} \X {r.target.ns})
        BY <1>5, <4>1, CallsOfOthers DEF Mattering, FirstCalls, On
      <4>3. c \in {<<"pods", r.target.ns>>, <<"references", r.target.ns>>}
        BY <4>2 DEF Version, Usages
      <4>4. ChecksOfCall(c) = {"pod.runtime"} /\ ChecksOfCall(p) = {"pod.runtime"}
        BY <4>3 DEF ChecksOfCall
      <4>5. c = <<"references", r.target.ns>>
        BY <1>3, <4>3
      <4>6. FedBy(c, r.target.selector) = {}
        BY <4>5 DEF FedBy
      <4>7. check = "pod.runtime"
        BY <4>4, <4>6
      <4> QED  BY <4>1, <4>4, <4>7 DEF Clear
    <3> QED  BY <3>1, <3>2, <3>3, <3>4 DEF IsLeftOut, Seeing
  <2> QED  BY <1>3, <2>1, SawUnless
<1> QED  BY <1>4, <1>5

-----------------------------------------------------------------------------
(* The same listings make the same observations.                           *)

(* Two inspections of the same, begun at the same time.                    *)
Alike(r, q) == q.target = r.target /\ q.trigger = r.trigger /\ q.at = r.at /\ q.deltas = r.deltas
Agree(r, q, kinds, n) == \A kind \in kinds : Found(r, kind, n) = Found(q, kind, n)

(* What is related to the pods depends on the listings named.              *)
LEMMA RelatedWorkloads ==
  ASSUME NEW r, NEW q, NEW n, NEW kind \in {"deployments", "statefulsets", "daemonsets", "jobs", "cronjobs"},
         Agree(r, q, {"pods", "replicasets", "jobs"}, n), NEW o
  PROVE  IsRelated(r, n, kind, o) <=> IsRelated(q, n, kind, o)
<1> DEFINE owners(x) == {OwnerOf(p, Found(x, "replicasets", n)) : p \in Found(x, "pods", n)}
<1> DEFINE owning(x) == owners(x) \cup {<<"CronJob", j.owner>> : j \in
                               {k \in Found(x, "jobs", n) : <<"Job", k.name>> \in owners(x)}}
<1>0. /\ Found(r, "pods", n) = Found(q, "pods", n) /\ Found(r, "jobs", n) = Found(q, "jobs", n)
      /\ Found(r, "replicasets", n) = Found(q, "replicasets", n)
  BY DEF Agree
<1>1. owners(r) = owners(q)
  BY <1>0
<1>2. owning(r) = owning(q)
  BY <1>0, <1>1
<1>3. \A x : IsRelated(x, n, kind, o) =
        CASE kind = "deployments" -> <<"Deployment", o.name>> \in owning(x)
          [] kind = "statefulsets" -> <<"StatefulSet", o.name>> \in owning(x)
          [] kind = "daemonsets" -> <<"DaemonSet", o.name>> \in owning(x)
          [] kind = "jobs" -> <<"Job", o.name>> \in owning(x)
          [] kind = "cronjobs" -> <<"CronJob", o.name>> \in owning(x)
  BY DEF IsRelated
<1> HIDE DEF owning
<1> QED  BY <1>2, <1>3

(* The same for what is reached over the network.                          *)
LEMMA RelatedServices ==
  ASSUME NEW r, NEW q, NEW n, NEW kind \in {"services", "slices", "ingresses"},
         Agree(r, q, {"pods", "services", "slices"}, n), NEW o
  PROVE  IsRelated(r, n, kind, o) <=> IsRelated(q, n, kind, o)
<1> DEFINE services(x) ==
        {s.name : s \in {t \in Found(x, "services", n) : \E p \in Found(x, "pods", n) : Selects(t.selector, p)}}
        \cup {s.service : s \in {t \in Found(x, "slices", n) : t.targets \cap NamesOf(Found(x, "pods", n)) # {}}}
<1>0. /\ Found(r, "pods", n) = Found(q, "pods", n) /\ Found(r, "services", n) = Found(q, "services", n)
      /\ Found(r, "slices", n) = Found(q, "slices", n)
  BY DEF Agree
<1>1. services(r) = services(q)
  BY <1>0
<1>3. \A x : IsRelated(x, n, kind, o) =
        CASE kind = "services" -> o.name \in services(x)
          [] kind = "slices" -> o.service \in services(x)
          [] kind = "ingresses" -> Backends(o) \cap services(x) # {}
  BY DEF IsRelated
<1> HIDE DEF services
<1> QED  BY <1>1, <1>3

(* The same for claims.                                                    *)
LEMMA RelatedClaims ==
  ASSUME NEW r, NEW q, NEW n, Agree(r, q, {"pods"}, n), NEW o
  PROVE  IsRelated(r, n, "pvcs", o) <=> IsRelated(q, n, "pvcs", o)
BY DEF IsRelated, Agree

(* What counts depends on what was found and what is related.              *)
LEMMA KeptSame ==
  ASSUME NEW r, NEW q, Alike(r, q), NEW n, NEW kind, Agree(r, q, {kind}, n),
         r.target.selector # {} => \A o : IsRelated(r, n, kind, o) <=> IsRelated(q, n, kind, o)
  PROVE  Kept(r, kind, n) = Kept(q, kind, n)
BY DEF Kept, Alike, Agree

(* Two inspections that have kept the same workloads observe the same of   *)
(* them.                                                                   *)
LEMMA SameWorkloads ==
  ASSUME NEW r, NEW q, Alike(r, q), NEW n,
         \A kind \in {"deployments", "statefulsets", "daemonsets", "jobs", "cronjobs"} :
           Kept(r, kind, n) = Kept(q, kind, n)
  PROVE  WorkloadObservations(r, n) = WorkloadObservations(q, n)
BY DEF WorkloadObservations, Alike

(* The same for pods and what they refer to.                               *)
LEMMA SamePods ==
  ASSUME NEW r, NEW q, Alike(r, q), NEW n, Found(r, "pods", n) = Found(q, "pods", n),
         \A o : Missing(r, n, o) = Missing(q, n, o)
  PROVE  PodObservations(r, n) = PodObservations(q, n)
<1> DEFINE Told(x, o) == Observation("Pod", n, o, o.labels, TRUE,
     PodCandidates(o, Missing(x, n, o), IF o.name \in Pod THEN x.deltas[o.name] ELSE 0, x.at))
<1>1. \A o : Told(r, o) = Told(q, o)
  BY DEF Alike
<1>2. /\ PodObservations(r, n) = {Told(r, o) : o \in Found(r, "pods", n)}
      /\ PodObservations(q, n) = {Told(q, o) : o \in Found(r, "pods", n)}
  BY DEF PodObservations
<1> HIDE DEF Told
<1> QED  BY <1>1, <1>2

(* The same for Services.                                                  *)
LEMMA SameServices ==
  ASSUME NEW r, NEW q, NEW n, Found(r, "pods", n) = Found(q, "pods", n),
         \A kind \in {"services", "slices", "ingresses"} : Kept(r, kind, n) = Kept(q, kind, n)
  PROVE  ServiceObservations(r, n) = ServiceObservations(q, n)
BY DEF ServiceObservations

(* The same for Ingresses.                                                 *)
LEMMA SameIngresses ==
  ASSUME NEW r, NEW q, NEW n,
         Found(r, "ingressclasses", None) = Found(q, "ingressclasses", None),
         \A kind \in {"services", "ingresses"} : Kept(r, kind, n) = Kept(q, kind, n)
  PROVE  IngressObservations(r, n) = IngressObservations(q, n)
BY DEF IngressObservations

(* The same for the Secrets Ingresses name.                                *)
LEMMA SameSecrets ==
  ASSUME NEW r, NEW q, NEW n, Alike(r, q),
         Found(r, "secrets", n) = Found(q, "secrets", n),
         Kept(r, "ingresses", n) = Kept(q, "ingresses", n),
         <<"secrets", n>> \in DOMAIN r.got \ r.failed <=> <<"secrets", n>> \in DOMAIN q.got \ q.failed
  PROVE  TLSObservations(r, n) = TLSObservations(q, n)
BY DEF TLSObservations, Alike

(* The same for claims.                                                    *)
LEMMA SameClaims ==
  ASSUME NEW r, NEW q, NEW n, Alike(r, q), Found(r, "pods", n) = Found(q, "pods", n),
         Found(r, "storageclasses", None) = Found(q, "storageclasses", None),
         Kept(r, "pvcs", n) = Kept(q, "pvcs", n)
  PROVE  StorageObservations(r, n) = StorageObservations(q, n)
BY DEF StorageObservations, Alike

(* The same for nodes.                                                     *)
LEMMA SameNodes ==
  ASSUME NEW r, NEW q, Alike(r, q), Found(r, "nodes", None) = Found(q, "nodes", None),
         Found(r, "allpods", None) = Found(q, "allpods", None)
  PROVE  NodeObservations(r) = NodeObservations(q)
BY DEF NodeObservations, Alike

(* The same for volumes.                                                   *)
LEMMA SameVolumes ==
  ASSUME NEW r, NEW q, Alike(r, q), Found(r, "pvs", None) = Found(q, "pvs", None)
  PROVE  VolumeObservations(r) = VolumeObservations(q)
BY DEF VolumeObservations, Alike

(* The same for the samples of pods.                                       *)
LEMMA SameUsage ==
  ASSUME NEW r, NEW q, Alike(r, q), MeteredPods(r) = MeteredPods(q), Samples(r) = Samples(q)
  PROVE  UsageObservations(r) = UsageObservations(q)
BY DEF UsageObservations, Enriched, Alike

-----------------------------------------------------------------------------
(* The listings each kind of observation is made of.                       *)

(* The inspection without a failed call is alike.                          *)
LEMMA IdealAlike ==
  ASSUME NEW r, IsRun(r)
  PROVE  Alike(r, Ideal(r))
BY IdealFields DEF Alike

(* All listings of one place that feed a clear check.                      *)
LEMMA SawNear ==
  ASSUME NEW r, Seeing(r), NEW n, NEW check \in AllChecks, Clear(r, n, check), NEW m, Near(r, n, m),
         NEW kinds, kinds \cap (Usages \cup {"version"}) = {},
         \A kind \in kinds :
           check \in FedBy(<<kind, m>>, r.target.selector) \cup ChecksOfCall(<<kind, m>>)
  PROVE  Agree(r, Ideal(r), kinds, m) /\ \A kind \in kinds : Saw(r, kind, m)
<1>1. \A kind \in kinds : Saw(r, kind, m)
  <2> SUFFICES ASSUME NEW kind \in kinds PROVE Saw(r, kind, m)
    OBVIOUS
  <2>1. kind \notin Usages \cup {"version"}
    OBVIOUS
  <2> QED  BY <2>1, SawClear
<1> QED  BY <1>1 DEF Agree, Saw

(* If workload.status is clear, the workloads have been observed as they   *)
(* are.                                                                    *)
LEMMA SeesWorkloads ==
  ASSUME NEW r, Seeing(r), NEW n, Clear(r, n, "workload.status"), NEW m, Near(r, n, m)
  PROVE  /\ WorkloadObservations(r, m) = WorkloadObservations(Ideal(r), m)
         /\ Kept(r, "cronjobs", m) = Kept(Ideal(r), "cronjobs", m)
<1> DEFINE q == Ideal(r)
<1> DEFINE workloads == {"deployments", "statefulsets", "daemonsets", "jobs", "cronjobs"}
<1>0. "workload.status" \in AllChecks /\ Alike(r, q)
  BY IdealAlike DEF AllChecks, Checks, NamespaceChecks, Seeing
<1>1. Agree(r, q, workloads \cup {"replicasets"}, m)
  <2>1. \A kind \in workloads \cup {"replicasets"} : "workload.status" \in ChecksOfCall(<<kind, m>>)
    BY DEF ChecksOfCall
  <2>2. (workloads \cup {"replicasets"}) \cap (Usages \cup {"version"}) = {}
    BY DEF Usages
  <2> QED  BY <1>0, <2>1, <2>2, SawNear
<1>2. r.target.selector # {} => Agree(r, q, {"pods"}, m)
  <2> SUFFICES ASSUME r.target.selector # {} PROVE Agree(r, q, {"pods"}, m)
    OBVIOUS
  <2>1. \A kind \in {"pods"} : "workload.status" \in FedBy(<<kind, m>>, r.target.selector)
    BY DEF FedBy, NamespaceChecks
  <2>2. {"pods"} \cap (Usages \cup {"version"}) = {}
    BY DEF Usages
  <2> QED  BY <1>0, <2>1, <2>2, SawNear
<1>3. ASSUME NEW kind \in workloads PROVE Kept(r, kind, m) = Kept(q, kind, m)
  <2>1. r.target.selector # {} => Agree(r, q, {"pods", "replicasets", "jobs"}, m)
    BY <1>1, <1>2 DEF Agree
  <2>2. r.target.selector # {} => \A o : IsRelated(r, m, kind, o) <=> IsRelated(q, m, kind, o)
    BY <2>1, RelatedWorkloads
  <2>3. Agree(r, q, {kind}, m)
    BY <1>1 DEF Agree
  <2> HIDE DEF q
  <2> QED  BY <1>0, <2>2, <2>3, KeptSame
<1> HIDE DEF q
<1>4. WorkloadObservations(r, m) = WorkloadObservations(q, m)
  BY <1>0, <1>3, SameWorkloads
<1> QED  BY <1>3, <1>4 DEF q

(* If pod.runtime is clear, so have the pods.                              *)
LEMMA SeesPods ==
  ASSUME NEW r, Seeing(r), NEW n, Clear(r, n, "pod.runtime"), NEW m, Near(r, n, m)
  PROVE  PodObservations(r, m) = PodObservations(Ideal(r), m)
<1> DEFINE q == Ideal(r)
<1>0. "pod.runtime" \in AllChecks /\ Alike(r, q) /\ q.failed = {} /\ DOMAIN q.got = AllCalls(r.target)
  BY IdealAlike, IdealFields DEF AllChecks, Checks, NamespaceChecks, Seeing
<1>1. /\ Agree(r, q, {"pods", "references"}, m)
      /\ \A kind \in {"pods", "references"} : Saw(r, kind, m)
  <2>1. \A kind \in {"pods", "references"} : "pod.runtime" \in ChecksOfCall(<<kind, m>>)
    BY DEF ChecksOfCall
  <2>2. {"pods", "references"} \cap (Usages \cup {"version"}) = {}
    BY DEF Usages
  <2> QED  BY <1>0, <2>1, <2>2, SawNear
<1>2. /\ Found(r, "pods", m) = Found(q, "pods", m)
      /\ Found(r, "references", m) = Found(q, "references", m)
      /\ <<"references", m>> \in DOMAIN r.got \ r.failed <=>
           <<"references", m>> \in DOMAIN q.got \ q.failed
  BY <1>0, <1>1 DEF Agree, Saw
<1>3. \A o : Missing(r, m, o) = Missing(q, m, o)
  BY <1>2 DEF Missing
<1> HIDE DEF q
<1>4. PodObservations(r, m) = PodObservations(q, m)
  BY <1>0, <1>2, <1>3, SamePods
<1> QED  BY <1>4 DEF q

(* What counts of Services, EndpointSlices and Ingresses.                  *)
LEMMA KeptServices ==
  ASSUME NEW r, NEW q, Alike(r, q), NEW m, NEW kind \in {"services", "slices", "ingresses"},
         Agree(r, q, {kind}, m),
         r.target.selector # {} => Agree(r, q, {"pods", "services", "slices"}, m)
  PROVE  Kept(r, kind, m) = Kept(q, kind, m)
<1>1. r.target.selector # {} => \A o : IsRelated(r, m, kind, o) <=> IsRelated(q, m, kind, o)
  BY RelatedServices
<1> QED  BY <1>1, KeptSame

(* If service.endpoints is clear, so have the Services.                    *)
LEMMA SeesServices ==
  ASSUME NEW r, Seeing(r), NEW n, Clear(r, n, "service.endpoints"), NEW m, Near(r, n, m)
  PROVE  ServiceObservations(r, m) = ServiceObservations(Ideal(r), m)
<1> DEFINE q == Ideal(r)
<1> DEFINE kinds == {"pods", "services", "slices", "ingresses"}
<1>0. "service.endpoints" \in AllChecks /\ Alike(r, q)
  BY IdealAlike DEF AllChecks, Checks, NamespaceChecks, Seeing
<1>1. Agree(r, q, kinds, m)
  <2>1. \A kind \in kinds : "service.endpoints" \in FedBy(<<kind, m>>, r.target.selector)
                                                      \cup ChecksOfCall(<<kind, m>>)
    BY DEF ChecksOfCall, FedBy, NamespaceChecks
  <2>2. kinds \cap (Usages \cup {"version"}) = {}
    BY DEF Usages
  <2> QED  BY <1>0, <2>1, <2>2, SawNear
<1> HIDE DEF q
<1>2. \A kind \in {"services", "slices", "ingresses"} : Kept(r, kind, m) = Kept(q, kind, m)
  BY <1>0, <1>1, KeptServices DEF Agree
<1>3. ServiceObservations(r, m) = ServiceObservations(q, m)
  BY <1>1, <1>2, SameServices DEF Agree
<1> QED  BY <1>3 DEF q

(* If ingress.config_chain is clear, so have the Ingresses.                *)
LEMMA SeesIngresses ==
  ASSUME NEW r, Seeing(r), NEW n, Clear(r, n, "ingress.config_chain"), NEW m, Near(r, n, m)
  PROVE  IngressObservations(r, m) = IngressObservations(Ideal(r), m)
<1> DEFINE q == Ideal(r)
<1> DEFINE kinds == {"services", "slices", "ingresses"}
<1>0. "ingress.config_chain" \in AllChecks /\ Alike(r, q)
  BY IdealAlike DEF AllChecks, Checks, NamespaceChecks, Seeing
<1>1. Agree(r, q, kinds, m)
  <2>1. \A kind \in kinds : "ingress.config_chain" \in FedBy(<<kind, m>>, r.target.selector)
                                                         \cup ChecksOfCall(<<kind, m>>)
    BY DEF ChecksOfCall, FedBy, NamespaceChecks
  <2>2. kinds \cap (Usages \cup {"version"}) = {}
    BY DEF Usages
  <2> QED  BY <1>0, <2>1, <2>2, SawNear
<1>2. r.target.selector # {} => Agree(r, q, {"pods"}, m)
  <2> SUFFICES ASSUME r.target.selector # {} PROVE Agree(r, q, {"pods"}, m)
    OBVIOUS
  <2>1. \A kind \in {"pods"} : "ingress.config_chain" \in FedBy(<<kind, m>>, r.target.selector)
    BY DEF FedBy, NamespaceChecks
  <2>2. {"pods"} \cap (Usages \cup {"version"}) = {}
    BY DEF Usages
  <2> QED  BY <1>0, <2>1, <2>2, SawNear
<1>3. Saw(r, "ingressclasses", None)
  <2>1. "ingress.config_chain" \in ChecksOfCall(<<"ingressclasses", None>>) \cap SharedChecks
    BY DEF ChecksOfCall, SharedChecks
  <2>2. "ingressclasses" \notin Usages \cup {"version"}
    BY DEF Usages
  <2> QED  BY <1>0, <2>1, <2>2, SawClear
<1>4. Found(r, "ingressclasses", None) = Found(q, "ingressclasses", None)
  BY <1>3 DEF Saw
<1> HIDE DEF q
<1>5. \A kind \in {"services", "ingresses"} : Kept(r, kind, m) = Kept(q, kind, m)
  BY <1>0, <1>1, <1>2, KeptServices DEF Agree
<1>6. IngressObservations(r, m) = IngressObservations(q, m)
  BY <1>4, <1>5, SameIngresses
<1> QED  BY <1>6 DEF q

(* If tls.certificate is clear, so have the certificates.                  *)
LEMMA SeesSecrets ==
  ASSUME NEW r, Seeing(r), NEW n, Clear(r, n, "tls.certificate"), NEW m, Near(r, n, m)
  PROVE  TLSObservations(r, m) = TLSObservations(Ideal(r), m)
<1> DEFINE q == Ideal(r)
<1>0. /\ "tls.certificate" \in AllChecks /\ Alike(r, q) /\ q.failed = {}
      /\ DOMAIN q.got = AllCalls(r.target)
  BY IdealAlike, IdealFields DEF AllChecks, Checks, NamespaceChecks, Seeing
<1>1. Agree(r, q, {"secrets", "ingresses"}, m) /\ \A kind \in {"secrets", "ingresses"} : Saw(r, kind, m)
  <2>1. \A kind \in {"secrets", "ingresses"} : "tls.certificate" \in
          FedBy(<<kind, m>>, r.target.selector) \cup ChecksOfCall(<<kind, m>>)
    BY DEF ChecksOfCall, FedBy
  <2>2. {"secrets", "ingresses"} \cap (Usages \cup {"version"}) = {}
    BY DEF Usages
  <2> QED  BY <1>0, <2>1, <2>2, SawNear
<1>2. r.target.selector # {} => Agree(r, q, {"pods", "services", "slices"}, m)
  <2> SUFFICES ASSUME r.target.selector # {} PROVE Agree(r, q, {"pods", "services", "slices"}, m)
    OBVIOUS
  <2>1. \A kind \in {"pods", "services", "slices"} :
          "tls.certificate" \in FedBy(<<kind, m>>, r.target.selector)
    BY DEF FedBy, NamespaceChecks
  <2>2. {"pods", "services", "slices"} \cap (Usages \cup {"version"}) = {}
    BY DEF Usages
  <2> QED  BY <1>0, <2>1, <2>2, SawNear
<1>3. /\ Found(r, "secrets", m) = Found(q, "secrets", m)
      /\ <<"secrets", m>> \in DOMAIN r.got \ r.failed <=>
           <<"secrets", m>> \in DOMAIN q.got \ q.failed
  BY <1>0, <1>1 DEF Saw
<1> HIDE DEF q
<1>4. Kept(r, "ingresses", m) = Kept(q, "ingresses", m)
  <2>1. Agree(r, q, {"ingresses"}, m)
    BY <1>1 DEF Agree
  <2> QED  BY <1>0, <1>2, <2>1, KeptServices
<1>5. TLSObservations(r, m) = TLSObservations(q, m)
  BY <1>0, <1>3, <1>4, SameSecrets
<1> QED  BY <1>5 DEF q

(* If storage.status is clear, so have the claims.                         *)
LEMMA SeesClaims ==
  ASSUME NEW r, Seeing(r), NEW n, Clear(r, n, "storage.status"), NEW m, Near(r, n, m)
  PROVE  StorageObservations(r, m) = StorageObservations(Ideal(r), m)
<1> DEFINE q == Ideal(r)
<1>0. "storage.status" \in AllChecks /\ Alike(r, q)
  BY IdealAlike DEF AllChecks, Checks, NamespaceChecks, Seeing
<1>1. Agree(r, q, {"pods", "pvcs"}, m)
  <2>1. \A kind \in {"pods", "pvcs"} : "storage.status" \in
          FedBy(<<kind, m>>, r.target.selector) \cup ChecksOfCall(<<kind, m>>)
    BY DEF ChecksOfCall, FedBy, NamespaceChecks
  <2>2. {"pods", "pvcs"} \cap (Usages \cup {"version"}) = {}
    BY DEF Usages
  <2> QED  BY <1>0, <2>1, <2>2, SawNear
<1>2. Saw(r, "storageclasses", None)
  <2>1. "storage.status" \in ChecksOfCall(<<"storageclasses", None>>) \cap SharedChecks
    BY DEF ChecksOfCall, SharedChecks
  <2>2. "storageclasses" \notin Usages \cup {"version"}
    BY DEF Usages
  <2> QED  BY <1>0, <2>1, <2>2, SawClear
<1>3. /\ Found(r, "storageclasses", None) = Found(q, "storageclasses", None)
      /\ Found(r, "pods", m) = Found(q, "pods", m)
      /\ Agree(r, q, {"pods"}, m) /\ Agree(r, q, {"pvcs"}, m)
  BY <1>1, <1>2 DEF Saw, Agree
<1> HIDE DEF q
<1>4. Kept(r, "pvcs", m) = Kept(q, "pvcs", m)
  BY <1>0, <1>3, RelatedClaims, KeptSame
<1>5. StorageObservations(r, m) = StorageObservations(q, m)
  BY <1>0, <1>3, <1>4, SameClaims
<1> QED  BY <1>5 DEF q

(* If node.health is clear, so have the nodes.                             *)
LEMMA SeesNodes ==
  ASSUME NEW r, Seeing(r), NEW n, Clear(r, n, "node.health"), Near(r, n, None)
  PROVE  NodeObservations(r) = NodeObservations(Ideal(r))
<1> DEFINE q == Ideal(r)
<1>0. "node.health" \in AllChecks /\ Alike(r, q)
  BY IdealAlike DEF AllChecks, Checks, Seeing
<1>1. Agree(r, q, {"nodes", "allpods"}, None)
  <2>1. \A kind \in {"nodes", "allpods"} : "node.health" \in ChecksOfCall(<<kind, None>>)
    BY DEF ChecksOfCall
  <2>2. {"nodes", "allpods"} \cap (Usages \cup {"version"}) = {}
    BY DEF Usages
  <2> QED  BY <1>0, <2>1, <2>2, SawNear
<1> HIDE DEF q
<1>2. NodeObservations(r) = NodeObservations(q)
  BY <1>0, <1>1, SameNodes DEF Agree
<1> QED  BY <1>2 DEF q

(* If storage.status is clear, so have the volumes.                        *)
LEMMA SeesVolumes ==
  ASSUME NEW r, Seeing(r), NEW n, Clear(r, n, "storage.status"), Near(r, n, None)
  PROVE  VolumeObservations(r) = VolumeObservations(Ideal(r))
<1> DEFINE q == Ideal(r)
<1>0. "storage.status" \in AllChecks /\ Alike(r, q)
  BY IdealAlike DEF AllChecks, Checks, NamespaceChecks, Seeing
<1>1. Agree(r, q, {"pvs"}, None)
  <2>1. \A kind \in {"pvs"} : "storage.status" \in ChecksOfCall(<<kind, None>>)
    BY DEF ChecksOfCall
  <2>2. {"pvs"} \cap (Usages \cup {"version"}) = {}
    BY DEF Usages
  <2> QED  BY <1>0, <2>1, <2>2, SawNear
<1> HIDE DEF q
<1>2. VolumeObservations(r) = VolumeObservations(q)
  BY <1>0, <1>1, SameVolumes DEF Agree
<1> QED  BY <1>2 DEF q

(* Metrics that have been found are those there are; only that there are   *)
(* none may be due to the Metrics API.                                     *)
LEMMA SeesMetered ==
  ASSUME NEW r, Seeing(r), NEW n, Clear(r, n, "metrics.resource"),
         r.target.type # "cluster" => n = r.target.ns
  PROVE  MeteredPods(r) = MeteredPods(Ideal(r))
<1>0. "metrics.resource" \in AllChecks /\ Ideal(r).target = r.target
  BY IdealFields DEF AllChecks, Checks, NamespaceChecks, Seeing
<1>1. CASE r.target.type = "cluster"
  <2>1. "metrics.resource" \in FedBy(<<"allpods", None>>, r.target.selector)
    BY DEF FedBy
  <2>2. "allpods" \notin Usages \cup {"version"}
    BY DEF Usages
  <2>3. Saw(r, "allpods", None)
    BY <1>0, <2>1, <2>2, SawClear
  <2> QED  BY <1>0, <1>1, <2>3 DEF MeteredPods, Saw
<1>2. CASE r.target.type # "cluster"
  <2>1. "metrics.resource" \in FedBy(<<"pods", r.target.ns>>, r.target.selector)
    BY DEF FedBy, NamespaceChecks
  <2>2. "pods" \notin Usages \cup {"version"}
    BY DEF Usages
  <2>3. Near(r, n, r.target.ns)
    BY <1>2 DEF Near
  <2>4. Saw(r, "pods", r.target.ns)
    BY <1>0, <2>1, <2>2, <2>3, SawClear
  <2> QED  BY <1>0, <1>2, <2>4 DEF MeteredPods, Saw
<1> QED  BY <1>1, <1>2

(* Samples that have been found are those there are.                       *)
LEMMA SeesSamples ==
  ASSUME NEW r, Seeing(r), NEW n, Clear(r, n, "metrics.resource"), Samples(r) # {}
  PROVE  Samples(r) = Samples(Ideal(r))
<1> DEFINE m == IF r.target.type = "cluster" THEN None ELSE r.target.ns
<1> DEFINE c == <<"podmetrics", m>>
<1>0. Ideal(r).target = r.target
  BY IdealFields DEF Seeing
<1>1. Samples(r) = Found(r, "podmetrics", m) /\ Samples(Ideal(r)) = Found(Ideal(r), "podmetrics", m)
  BY <1>0 DEF Samples
<1>2. c \in DOMAIN r.got /\ r.got[c] # {} /\ Samples(r) = r.got[c]
  BY <1>1 DEF Found
<1>3. c \in AllCalls(r.target)
  BY <1>2 DEF Seeing, Faithful
<1>4. c \notin r.failed
  <2>1. ChecksOfCall(c) = {"metrics.resource"} /\ "metrics.resource" \in SharedChecks
    BY DEF ChecksOfCall, SharedChecks
  <2>2. c[2] = m
    OBVIOUS
  <2> HIDE DEF c
  <2>3. c \in r.failed => r.target.type = "cluster" /\ m # None
    BY <2>1, <2>2 DEF Clear
  <2> QED  BY <2>3
<1>5. r.got[c] = Answer(r.target, c)
  BY <1>2, <1>4 DEF Seeing, Faithful
<1> QED  BY <1>1, <1>2, <1>3, <1>5, FoundIdeal DEF Seeing

(* Then the usage of pods has been observed as it is.                      *)
LEMMA SeesUsage ==
  ASSUME NEW r, Seeing(r), NEW n, Clear(r, n, "metrics.resource"),
         r.target.type # "cluster" => n = r.target.ns, Samples(r) = Samples(Ideal(r))
  PROVE  UsageObservations(r) = UsageObservations(Ideal(r))
BY SeesMetered, SameUsage, IdealAlike DEF Seeing

-----------------------------------------------------------------------------
(* The observations of a check.                                            *)

WorkloadKinds == {"Deployment", "StatefulSet", "DaemonSet", "Job", "CronJob"}

(* What observations are about.                                            *)
LEMMA Shapes ==
  ASSUME NEW r
  PROVE  /\ \A x \in NodeObservations(r) : x.kind = "Node" /\ x.ns = None
         /\ \A x \in VolumeObservations(r) : x.kind = "PersistentVolume" /\ x.ns = None
         /\ \A x \in VersionObservations(r) : x.kind = "KubernetesVersion" /\ x.ns = None /\ x.issues = {}
         /\ \A x \in NodeUsageObservations(r) : x.kind = "NodeMetric" /\ x.ns = None /\ x.issues = {}
         /\ \A x \in UsageObservations(r) : x.kind = "PodMetric" /\ \E o \in Samples(r) : x.ns = o.ns
<1>1. \A x \in NodeObservations(r) : x.kind = "Node" /\ x.ns = None
  BY DEF NodeObservations, Observation
<1>2. \A x \in VolumeObservations(r) : x.kind = "PersistentVolume" /\ x.ns = None
  BY DEF VolumeObservations, Observation
<1>3. \A x \in VersionObservations(r) : x.kind = "KubernetesVersion" /\ x.ns = None /\ x.issues = {}
  BY DEF VersionObservations, Observation
<1>4. \A x \in NodeUsageObservations(r) : x.kind = "NodeMetric" /\ x.ns = None /\ x.issues = {}
  BY DEF NodeUsageObservations, Observation
<1>5. \A x \in UsageObservations(r) : x.kind = "PodMetric" /\ \E o \in Samples(r) : x.ns = o.ns
  BY DEF UsageObservations, Observation
<1> QED  BY <1>1, <1>2, <1>3, <1>4, <1>5

(* The same for the observations of a namespace.                           *)
LEMMA ShapesIn ==
  ASSUME NEW r, NEW n
  PROVE  /\ \A x \in WorkloadObservations(r, n) : x.kind \in WorkloadKinds /\ x.ns = n
         /\ \A x \in PodObservations(r, n) : x.kind = "Pod" /\ x.ns = n
         /\ \A x \in ServiceObservations(r, n) : x.kind = "Service" /\ x.ns = n
         /\ \A x \in IngressObservations(r, n) : x.kind = "Ingress" /\ x.ns = n
         /\ \A x \in TLSObservations(r, n) : x.kind = "TLSSecret" /\ x.ns = n
         /\ \A x \in StorageObservations(r, n) : x.kind = "PersistentVolumeClaim" /\ x.ns = n
<1>6. \A x \in WorkloadObservations(r, n) : x.kind \in WorkloadKinds /\ x.ns = n
  BY DEF WorkloadObservations, Workload, WorkloadKinds, Observation
<1>7. \A x \in PodObservations(r, n) : x.kind = "Pod" /\ x.ns = n
  BY DEF PodObservations, Observation
<1>8. \A x \in ServiceObservations(r, n) : x.kind = "Service" /\ x.ns = n
  BY DEF ServiceObservations, Observation
<1>9. \A x \in IngressObservations(r, n) : x.kind = "Ingress" /\ x.ns = n
  BY DEF IngressObservations, Observation
<1>10. \A x \in TLSObservations(r, n) : x.kind = "TLSSecret" /\ x.ns = n
  <2>1. \A x \in TLSObservations(r, n) : \E o, issues : x = Observation("TLSSecret", n, o, {}, TRUE, issues)
    BY Zenon DEF TLSObservations
  <2> SUFFICES ASSUME NEW x \in TLSObservations(r, n) PROVE x.kind = "TLSSecret" /\ x.ns = n
    OBVIOUS
  <2> PICK o, issues : x = Observation("TLSSecret", n, o, {}, TRUE, issues)
    BY <2>1
  <2> QED  BY DEF Observation
<1>11. \A x \in StorageObservations(r, n) : x.kind = "PersistentVolumeClaim" /\ x.ns = n
  BY DEF StorageObservations, Observation
<1> QED  BY <1>6, <1>7, <1>8, <1>9, <1>10, <1>11

(* The checks of the kinds.                                                *)
LEMMA KindChecks ==
  /\ \A kind \in WorkloadKinds : CheckOfKind(kind) = "workload.status"
  /\ CheckOfKind("Pod") = "pod.runtime" /\ CheckOfKind("Service") = "service.endpoints"
  /\ CheckOfKind("Ingress") = "ingress.config_chain" /\ CheckOfKind("TLSSecret") = "tls.certificate"
  /\ CheckOfKind("PersistentVolumeClaim") = "storage.status"
  /\ CheckOfKind("PersistentVolume") = "storage.status" /\ CheckOfKind("Node") = "node.health"
  /\ CheckOfKind("PodMetric") = "metrics.resource" /\ CheckOfKind("NodeMetric") = "metrics.resource"
  /\ CheckOfKind("KubernetesVersion") = "kubernetes.version"
BY DEF CheckOfKind, WorkloadKinds

(* The observations an evaluation at n is made of, and an issue of them.   *)
SeenAt(r, n) ==
  IF r.target.type = "cluster" THEN {o \in Observations(r) : o.ns = n} ELSE Observations(r)
HasIssue(r, n, check, z) ==
  \E o \in SeenAt(r, n) : CheckOfKind(o.kind) = check /\ z \in o.issues

(* Two inspections have observed the same for a check at n.                *)
SameAt(r, q, n, check) ==
  /\ check = "workload.status" =>
       \A m : Near(r, n, m) => WorkloadObservations(r, m) = WorkloadObservations(q, m)
  /\ check = "pod.runtime" => \A m : Near(r, n, m) => PodObservations(r, m) = PodObservations(q, m)
  /\ check = "service.endpoints" =>
       \A m : Near(r, n, m) => ServiceObservations(r, m) = ServiceObservations(q, m)
  /\ check = "ingress.config_chain" =>
       \A m : Near(r, n, m) => IngressObservations(r, m) = IngressObservations(q, m)
  /\ check = "tls.certificate" =>
       \A m : Near(r, n, m) => TLSObservations(r, m) = TLSObservations(q, m)
  /\ check = "storage.status" =>
       /\ \A m : Near(r, n, m) => StorageObservations(r, m) = StorageObservations(q, m)
       /\ Near(r, n, None) => VolumeObservations(r) = VolumeObservations(q)
  /\ check = "node.health" => (Near(r, n, None) => NodeObservations(r) = NodeObservations(q))
  /\ check = "metrics.resource" => UsageObservations(r) = UsageObservations(q)

(* That is symmetric.                                                      *)
LEMMA SameBack ==
  ASSUME NEW r, NEW q, q.target = r.target, NEW n, NEW check, SameAt(r, q, n, check)
  PROVE  SameAt(q, r, n, check)
BY DEF SameAt, Near

(* What one finds of a check the other finds.                              *)
LEMMA SameIssue ==
  ASSUME NEW r, NEW q, q.target = r.target, NEW n, r.target.type # "cluster" => n = r.target.ns,
         NEW check, SameAt(r, q, n, check), NEW z, HasIssue(r, n, check, z)
  PROVE  HasIssue(q, n, check, z)
<1> PICK o \in SeenAt(r, n) : CheckOfKind(o.kind) = check /\ z \in o.issues
  BY DEF HasIssue
<1>1. o \in Observations(r) /\ (r.target.type = "cluster" => o.ns = n)
  BY DEF SeenAt
<1>2. \A m : o.ns = m => Near(r, n, m)
  BY <1>1 DEF Near
<1>3. SUFFICES o \in Observations(q)
  BY <1>1 DEF HasIssue, SeenAt
<1>4. CASE o \in NodeObservations(r)
  BY <1>2, <1>4, Shapes, KindChecks DEF SameAt, Observations
<1>5. CASE o \in VolumeObservations(r)
  BY <1>2, <1>5, Shapes, KindChecks DEF SameAt, Observations
<1>6. CASE o \in VersionObservations(r) \cup NodeUsageObservations(r)
  BY <1>6, Shapes
<1>7. CASE o \in UsageObservations(r)
  BY <1>7, Shapes, KindChecks DEF SameAt, Observations
<1>8. ASSUME NEW m \in Namespace, o \in WorkloadObservations(r, m)
      PROVE  o \in Observations(q)
  <2>1. check = "workload.status" /\ Near(r, n, m)
    BY <1>2, <1>8, ShapesIn, KindChecks
  <2>2. o \in WorkloadObservations(q, m)
    BY <1>8, <2>1 DEF SameAt
  <2> QED  BY <2>2 DEF Observations
<1>9. ASSUME NEW m \in Namespace, o \in PodObservations(r, m)
      PROVE  o \in Observations(q)
  <2>1. check = "pod.runtime" /\ Near(r, n, m)
    BY <1>2, <1>9, ShapesIn, KindChecks
  <2>2. o \in PodObservations(q, m)
    BY <1>9, <2>1 DEF SameAt
  <2> QED  BY <2>2 DEF Observations
<1>10. ASSUME NEW m \in Namespace, o \in ServiceObservations(r, m)
       PROVE  o \in Observations(q)
  <2>1. check = "service.endpoints" /\ Near(r, n, m)
    BY <1>2, <1>10, ShapesIn, KindChecks
  <2>2. o \in ServiceObservations(q, m)
    BY <1>10, <2>1 DEF SameAt
  <2> QED  BY <2>2 DEF Observations
<1>11. ASSUME NEW m \in Namespace, o \in IngressObservations(r, m)
       PROVE  o \in Observations(q)
  <2>1. check = "ingress.config_chain" /\ Near(r, n, m)
    BY <1>2, <1>11, ShapesIn, KindChecks
  <2>2. o \in IngressObservations(q, m)
    BY <1>11, <2>1 DEF SameAt
  <2> QED  BY <2>2 DEF Observations
<1>12. ASSUME NEW m \in Namespace, o \in TLSObservations(r, m)
       PROVE  o \in Observations(q)
  <2>1. check = "tls.certificate" /\ Near(r, n, m)
    BY <1>2, <1>12, ShapesIn, KindChecks
  <2>2. o \in TLSObservations(q, m)
    BY <1>12, <2>1 DEF SameAt
  <2> QED  BY <2>2 DEF Observations
<1>13. ASSUME NEW m \in Namespace, o \in StorageObservations(r, m)
       PROVE  o \in Observations(q)
  <2>1. check = "storage.status" /\ Near(r, n, m)
    BY <1>2, <1>13, ShapesIn, KindChecks
  <2>2. o \in StorageObservations(q, m)
    BY <1>13, <2>1 DEF SameAt
  <2> QED  BY <2>2 DEF Observations
<1> QED  BY <1>1, <1>4, <1>5, <1>6, <1>7, <1>8, <1>9, <1>10, <1>11, <1>12, <1>13 DEF Observations

(* What is clear has been observed as it is.                               *)
LEMMA ClearIsSame ==
  ASSUME NEW r, Seeing(r), NEW n, r.target.type # "cluster" => n = r.target.ns,
         NEW check, Clear(r, n, check),
         check = "metrics.resource" => Samples(r) = Samples(Ideal(r))
  PROVE  SameAt(r, Ideal(r), n, check)
BY SeesWorkloads, SeesPods, SeesServices, SeesIngresses, SeesSecrets, SeesClaims, SeesNodes,
   SeesVolumes, SeesUsage DEF SameAt

-----------------------------------------------------------------------------
(* Evaluations.                                                            *)

(* What is evaluated, and what fails.                                      *)
NamesIn(r) == ({o.ns : o \in Observations(r)} \cup {f[2] : f \in Failures(r)}) \ {None}
Evaluated(r, n, check) ==
  IF r.target.type = "cluster"
    THEN (n = None /\ check \in Checks) \/ (n \in NamesIn(r) /\ check \in NamespaceChecks)
    ELSE n = r.target.ns /\ check \in Checks
Fails(r, n, check) ==
  IF r.target.type = "cluster"
    THEN <<check, n>> \in Failures(r) \/ (check \in SharedChecks /\ <<check, None>> \in Failures(r))
    ELSE \E f \in Failures(r) : f[1] = check
EvaluationAt(r, n, check) == Evaluate(n, check, SeenAt(r, n), Fails(r, n, check))
RequiredAt(r) == RequiredEvaluation(r, Observations(r), Failures(r))

(* A failure is a pair of a check and a namespace, or None.                *)
LEMMA FailurePairs ==
  ASSUME NEW r, NEW f \in Failures(r)
  PROVE  f = <<f[1], f[2]>>
<1>1. \/ \E c \in r.failed : f \in ChecksOfCall(c) \X {c[2]}
      \/ \E n : f = <<"workload.status", n>>
  BY DEF Failures
<1>2. ASSUME NEW A, NEW B, f \in A \X B PROVE f = <<f[1], f[2]>>
  BY <1>2
<1> QED  BY <1>1, <1>2

(* Evaluations(r): the required components, and each check of each place.  *)
LEMMA EvaluationsAre ==
  ASSUME NEW r, IsTarget(r.target)
  PROVE  \A e : e \in Evaluations(r) <=>
                  \/ e = RequiredAt(r)
                  \/ \E n, check : Evaluated(r, n, check) /\ e = EvaluationAt(r, n, check)
<1> DEFINE seen == Observations(r)
<1> DEFINE failures == Failures(r)
<1> DEFINE OfCluster(check) ==
      Evaluate(None, check, {o \in seen : o.ns = None}, <<check, None>> \in failures)
<1> DEFINE OfName(n, check) ==
      Evaluate(n, check, {o \in seen : o.ns = n},
               \/ <<check, n>> \in failures
               \/ check \in SharedChecks /\ <<check, None>> \in failures)
<1> DEFINE OfAll(check) == Evaluate(r.target.ns, check, seen, \E f \in failures : f[1] = check)
<1>0. Evaluations(r) =
        {RequiredAt(r)} \cup
        IF r.target.type = "cluster" /\ NamesIn(r) # {}
          THEN {OfCluster(check) : check \in Checks}
               \cup {OfName(n, check) : n \in NamesIn(r), check \in NamespaceChecks}
          ELSE {OfAll(check) : check \in Checks}
  BY DEF Evaluations, NamesIn, RequiredAt
<1>1. CASE r.target.type = "cluster" /\ NamesIn(r) # {}
  <2>1. \A n, check : EvaluationAt(r, n, check) = OfName(n, check)
    BY <1>1 DEF EvaluationAt, SeenAt, Fails, Evaluate, Evaluation
  <2>2. \A check : EvaluationAt(r, None, check) = OfCluster(check)
    BY <1>1 DEF EvaluationAt, SeenAt, Fails, Evaluate, Evaluation
  <2>3. \A n, check : Evaluated(r, n, check) <=>
          (n = None /\ check \in Checks) \/ (n \in NamesIn(r) /\ check \in NamespaceChecks)
    BY <1>1 DEF Evaluated
  <2> HIDE DEF OfCluster, OfName, OfAll
  <2>4. \A e : e \in Evaluations(r) <=>
          \/ e = RequiredAt(r)
          \/ \E check \in Checks : e = OfCluster(check)
          \/ \E n \in NamesIn(r), check \in NamespaceChecks : e = OfName(n, check)
    BY <1>0, <1>1
  <2> QED  BY <2>1, <2>2, <2>3, <2>4
<1>2. CASE r.target.type = "cluster" /\ NamesIn(r) = {}
  <2>1. SeenAt(r, None) = seen
    BY <1>2 DEF SeenAt, NamesIn
  <2>2. \A f \in failures : f[2] = None /\ f = <<f[1], f[2]>>
    BY <1>2, FailurePairs DEF NamesIn
  <2>3. \A check : Fails(r, None, check) <=> <<check, None>> \in failures
    BY <1>2 DEF Fails
  <2>4. \A check : <<check, None>> \in failures <=> \E f \in failures : f[1] = check
    BY <2>2
  <2>5. \A check : Evaluate(None, check, seen, Fails(r, None, check)) = OfAll(check)
    <3>1. r.target.ns = None
      BY <1>2 DEF IsTarget
    <3> QED  BY <2>3, <2>4, <3>1 DEF Evaluate, Evaluation
  <2>6. \A check : EvaluationAt(r, None, check) = OfAll(check)
    BY <2>1, <2>5 DEF EvaluationAt
  <2>7. \A n, check : Evaluated(r, n, check) <=> n = None /\ check \in Checks
    BY <1>2 DEF Evaluated
  <2> HIDE DEF OfCluster, OfName, OfAll
  <2>8. \A e : e \in Evaluations(r) <=> e = RequiredAt(r) \/ \E check \in Checks : e = OfAll(check)
    BY <1>0, <1>2
  <2> QED  BY <2>6, <2>7, <2>8
<1>3. CASE r.target.type # "cluster"
  <2>1. \A check : EvaluationAt(r, r.target.ns, check) = OfAll(check)
    BY <1>3 DEF EvaluationAt, SeenAt, Fails
  <2>2. \A n, check : Evaluated(r, n, check) <=> n = r.target.ns /\ check \in Checks
    BY <1>3 DEF Evaluated
  <2> HIDE DEF OfCluster, OfName, OfAll
  <2>3. \A e : e \in Evaluations(r) <=> e = RequiredAt(r) \/ \E check \in Checks : e = OfAll(check)
    BY <1>0, <1>3
  <2> QED  BY <2>1, <2>2, <2>3
<1> QED  BY <1>1, <1>2, <1>3

(* What an evaluation says.                                                *)
LEMMA EvaluationSays ==
  ASSUME NEW r, NEW n, NEW check
  PROVE  /\ EvaluationAt(r, n, check).ns = n /\ EvaluationAt(r, n, check).check = check
         /\ \A z : z \in EvaluationAt(r, n, check).issues <=>
                     ~Fails(r, n, check) /\ HasIssue(r, n, check, z)
         /\ Fails(r, n, check) => EvaluationAt(r, n, check).status = "failed"
         /\ ~Fails(r, n, check) /\ (\A z : ~HasIssue(r, n, check, z)) /\ Skips(check, SeenAt(r, n))
              => EvaluationAt(r, n, check).status = "skipped"
<1> DEFINE issues == UNION {o.issues : o \in {p \in SeenAt(r, n) : CheckOfKind(p.kind) = check}}
<1>1. \A z : z \in issues <=> HasIssue(r, n, check, z)
  BY DEF HasIssue
<1>2. EvaluationAt(r, n, check) = Evaluation(n, check, issues, Fails(r, n, check), Skips(check, SeenAt(r, n)))
  BY DEF EvaluationAt, Evaluate
<1> HIDE DEF issues
<1>3. CASE Fails(r, n, check)
  BY <1>2, <1>3 DEF Evaluation
<1>4. CASE ~Fails(r, n, check)
  <2>1. /\ EvaluationAt(r, n, check).ns = n /\ EvaluationAt(r, n, check).check = check
        /\ EvaluationAt(r, n, check).issues = issues
    BY <1>2, <1>4 DEF Evaluation
  <2>2. issues = {} /\ Skips(check, SeenAt(r, n)) => EvaluationAt(r, n, check).status = "skipped"
    BY <1>2, <1>4 DEF Evaluation
  <2> QED  BY <1>1, <1>4, <2>1, <2>2
<1> QED  BY <1>3, <1>4

(* What the evaluation of the required components says.                    *)
LEMMA RequiredSays ==
  ASSUME NEW r
  PROVE  /\ RequiredAt(r).ns = r.target.ns /\ RequiredAt(r).check = "required_components"
         /\ RequiredAt(r).issues = IF RequiredFails(Failures(r)) \/ r.target.type # "cluster" THEN {}
                                   ELSE RequiredIssues(r, Observations(r))
         /\ RequiredFails(Failures(r)) => RequiredAt(r).status = "failed"
         /\ r.target.type # "cluster" => RequiredAt(r).status \in {"failed", "skipped"}
<1> DEFINE issues == RequiredIssues(r, Observations(r))
<1> DEFINE failed == RequiredFails(Failures(r))
<1> HIDE DEF issues, failed
<1>1. RequiredAt(r) = Evaluation(r.target.ns, "required_components",
             IF r.target.type = "cluster" THEN issues ELSE {}, failed,
             r.target.type # "cluster" \/ world.required = {})
  BY DEF RequiredAt, RequiredEvaluation, issues, failed
<1>2. failed \in BOOLEAN
  BY DEF failed, RequiredFails
<1>3. CASE failed
  BY <1>1, <1>3 DEF Evaluation, issues, failed
<1>4. CASE ~failed
  BY <1>1, <1>4 DEF Evaluation, issues, failed
<1> QED  BY <1>2, <1>3, <1>4

(* The issues an inspection finds for a check at n.                        *)
LEMMA IssuesFound ==
  ASSUME NEW r, IsTarget(r.target), NEW n, NEW check \in Checks,
         r.target.type = "cluster" => n = None \/ check \in NamespaceChecks,
         r.target.type # "cluster" => n = r.target.ns
  PROVE  \A z : z \in IssuesAt(Evaluations(r), n, check) <=>
                  ~Fails(r, n, check) /\ HasIssue(r, n, check, z)
<1> SUFFICES ASSUME NEW z
             PROVE  z \in IssuesAt(Evaluations(r), n, check) <=>
                      ~Fails(r, n, check) /\ HasIssue(r, n, check, z)
  OBVIOUS
<1>1. z \in IssuesAt(Evaluations(r), n, check) <=>
        \E e \in Evaluations(r) : e.ns = n /\ e.check = check /\ z \in e.issues
  BY DEF IssuesAt
<1>2. ASSUME NEW e \in Evaluations(r), e.ns = n, e.check = check, z \in e.issues
      PROVE  ~Fails(r, n, check) /\ HasIssue(r, n, check, z)
  <2>1. e # RequiredAt(r)
    <3>1. "required_components" \notin Checks
      BY DEF Checks, NamespaceChecks
    <3> QED  BY <1>2, <3>1, RequiredSays
  <2>2. PICK m, k : e = EvaluationAt(r, m, k)
    BY <2>1, EvaluationsAre
  <2>3. m = n /\ k = check
    BY <1>2, <2>2, EvaluationSays
  <2> QED  BY <1>2, <2>2, <2>3, EvaluationSays
<1>3. ASSUME ~Fails(r, n, check), HasIssue(r, n, check, z)
      PROVE  \E e \in Evaluations(r) : e.ns = n /\ e.check = check /\ z \in e.issues
  <2>1. Evaluated(r, n, check)
    <3>1. PICK o \in Observations(r) : r.target.type = "cluster" => o.ns = n
      BY <1>3 DEF HasIssue, SeenAt
    <3>2. r.target.type = "cluster" /\ n # None => n \in NamesIn(r)
      BY <3>1 DEF NamesIn
    <3> QED  BY <3>2 DEF Evaluated
  <2>2. EvaluationAt(r, n, check) \in Evaluations(r)
    BY <2>1, EvaluationsAre
  <2> QED  BY <1>3, <2>2, EvaluationSays
<1> QED  BY <1>1, <1>2, <1>3

-----------------------------------------------------------------------------
(* A failed call and an invalid schedule are failures.                     *)
LEMMA FailedCalls ==
  ASSUME NEW r, NEW c \in r.failed, NEW check \in ChecksOfCall(c)
  PROVE  <<check, c[2]>> \in Failures(r)
BY DEF Failures

(* An invalid schedule is a failure of workload.status.                    *)
LEMMA InvalidSchedules ==
  ASSUME NEW r, NEW m \in Namespace, NEW o \in Kept(r, "cronjobs", m), ScheduleInvalid(o)
  PROVE  <<"workload.status", m>> \in Failures(r)
BY DEF Failures

(* Without a failed call only the schedules are left.                      *)
LEMMA IdealFailures ==
  ASSUME NEW r, IsRun(r), NEW f \in Failures(Ideal(r))
  PROVE  \E m \in Namespace : \E o \in Kept(Ideal(r), "cronjobs", m) :
           ScheduleInvalid(o) /\ f = <<"workload.status", m>>
BY IdealFields DEF Failures

(* A check that has not failed is clear unless a failed listing feeds it.  *)
LEMMA ClearUnless ==
  ASSUME NEW r, NEW n, NEW check, ~Fails(r, n, check),
         \A c \in r.failed : c[2] \in {n, None} => check \notin FedBy(c, r.target.selector)
  PROVE  Clear(r, n, check)
<1> SUFFICES ASSUME NEW c \in r.failed, check \in ChecksOfCall(c)
             PROVE  r.target.type = "cluster" /\ c[2] # n /\ (check \in SharedChecks => c[2] # None)
  BY DEF Clear
<1>1. <<check, c[2]>> \in Failures(r)
  BY FailedCalls
<1>2. r.target.type = "cluster"
  <2>1. <<check, c[2]>>[1] = check
    OBVIOUS
  <2> QED  BY <1>1, <2>1 DEF Fails
<1> QED  BY <1>1, <1>2 DEF Fails

(* It has then not failed either in the inspection without a failed call.  *)
LEMMA FailsAlike ==
  ASSUME NEW r, Seeing(r), NEW n, r.target.type # "cluster" => n = r.target.ns, NEW check,
         Clear(r, n, check), ~Fails(r, n, check)
  PROVE  ~Fails(Ideal(r), n, check)
<1> SUFFICES ASSUME Fails(Ideal(r), n, check) PROVE FALSE
  OBVIOUS
<1>1. Ideal(r).target = r.target
  BY IdealFields DEF Seeing
<1>2. PICK f \in Failures(Ideal(r)) :
        f[1] = check /\ (r.target.type = "cluster" => f[2] = n \/ check \in SharedChecks)
  <2>1. CASE r.target.type = "cluster"
    <3>1. PICK m \in {n, None} :
            <<check, m>> \in Failures(Ideal(r)) /\ (m = n \/ check \in SharedChecks)
      BY <1>1, <2>1 DEF Fails
    <3> QED  BY <3>1
  <2>2. CASE r.target.type # "cluster"
    BY <1>1, <2>2 DEF Fails
  <2> QED  BY <2>1, <2>2
<1>3. PICK m \in Namespace : \E o \in Kept(Ideal(r), "cronjobs", m) :
        ScheduleInvalid(o) /\ f = <<"workload.status", m>>
  BY IdealFailures DEF Seeing
<1>4. check = "workload.status" /\ (r.target.type = "cluster" => m = n)
  BY <1>2, <1>3 DEF SharedChecks
<1>5. Near(r, n, m)
  BY <1>4 DEF Near
<1>6. Kept(r, "cronjobs", m) = Kept(Ideal(r), "cronjobs", m)
  BY <1>4, <1>5, SeesWorkloads
<1>7. <<"workload.status", m>> \in Failures(r)
  BY <1>3, <1>6, InvalidSchedules
<1>8. <<"workload.status", m>>[1] = "workload.status"
  OBVIOUS
<1> QED  BY <1>4, <1>7, <1>8 DEF Fails

-----------------------------------------------------------------------------
(* Metrics.                                                                *)

(* Samples are of pods, which are in a namespace.                          *)
LEMMA SampledNamespaces ==
  ASSUME Types, NEW r, Seeing(r), NEW o \in Samples(Ideal(r))
  PROVE  o.ns \in Namespace
<1>1. \A c \in DOMAIN cluster : c[1] = "podmetrics" => \A x \in cluster[c] : x.ns \in Namespace
  BY TargetsAssumption DEF Types
<1>2. PICK n : o \in Found(Ideal(r), "podmetrics", n)
  BY DEF Samples
<1> DEFINE c == <<"podmetrics", n>>
<1>3. c \in AllCalls(r.target) /\ o \in Answer(r.target, c)
  BY <1>2, FoundIdeal DEF Seeing
<1>4. Matters(c)
  BY <1>3, CallsOfCluster, CallsOfOthers DEF Mattering
<1>5. CASE c = AllMetrics
  <2>1. AllMetrics # AllPods /\ AllMetrics[1] = "podmetrics"
    BY DEF AllPods, AllMetrics
  <2>2. Answer(r.target, AllMetrics) = Listed("podmetrics")
    BY ONLY <2>1 DEF Answer
  <2>3. o \in Listed("podmetrics")
    BY <1>3, <1>5, <2>2
  <2> QED  BY <1>1, <2>3 DEF Listed
<1>6. CASE c # AllMetrics
  <2>1. c # AllPods /\ c[1] = "podmetrics"
    BY DEF AllPods
  <2>2. c \in DOMAIN cluster
    BY <1>4, <1>6, <2>1 DEF Matters
  <2>3. Answer(r.target, c) = {x \in cluster[c] : r.target.pod \in {x.name, None}}
    BY <1>6, <2>1 DEF Answer
  <2> QED  BY <1>1, <1>3, <2>1, <2>2, <2>3
<1> QED  BY <1>5, <1>6

(* An issue of a metric is one of a pod's sample.                          *)
LEMMA MetricIssue ==
  ASSUME NEW r, NEW n, NEW z, HasIssue(r, n, "metrics.resource", z)
  PROVE  \E x \in UsageObservations(r) : r.target.type = "cluster" => x.ns = n
<1> PICK o \in SeenAt(r, n) : CheckOfKind(o.kind) = "metrics.resource" /\ z \in o.issues
  BY DEF HasIssue
<1>1. o \in Observations(r) /\ (r.target.type = "cluster" => o.ns = n)
  BY DEF SeenAt
<1>2. ASSUME NEW m PROVE o \notin WorkloadObservations(r, m) \cup PodObservations(r, m)
        \cup ServiceObservations(r, m) \cup IngressObservations(r, m) \cup TLSObservations(r, m)
        \cup StorageObservations(r, m)
  BY ShapesIn, KindChecks
<1>3. o \notin NodeObservations(r) \cup VolumeObservations(r) \cup VersionObservations(r)
               \cup NodeUsageObservations(r)
  BY Shapes, KindChecks
<1> QED  BY <1>1, <1>2, <1>3 DEF Observations

(* What a check of metrics has seen.                                       *)
LEMMA MetricsSeen ==
  ASSUME NEW r, NEW n, ~Skips("metrics.resource", SeenAt(r, n))
  PROVE  \/ UsageObservations(r) # {}
         \/ NodeUsageObservations(r) # {} /\ (r.target.type = "cluster" => n = None)
<1> PICK o \in SeenAt(r, n) : CheckOfKind(o.kind) = "metrics.resource"
  BY DEF Skips
<1>1. o \in Observations(r) /\ (r.target.type = "cluster" => o.ns = n)
  BY DEF SeenAt
<1>2. ASSUME NEW m PROVE o \notin WorkloadObservations(r, m) \cup PodObservations(r, m)
        \cup ServiceObservations(r, m) \cup IngressObservations(r, m) \cup TLSObservations(r, m)
        \cup StorageObservations(r, m)
  BY ShapesIn, KindChecks
<1>3. o \notin NodeObservations(r) \cup VolumeObservations(r) \cup VersionObservations(r)
  BY Shapes, KindChecks
<1>4. o \in UsageObservations(r) \cup NodeUsageObservations(r)
  BY <1>1, <1>2, <1>3 DEF Observations
<1> QED  BY <1>1, <1>4, Shapes

(* Only an inspection of a cluster asks for the metrics of nodes.          *)
LEMMA NodeUsageOfCluster ==
  ASSUME NEW r, Seeing(r), NodeUsageObservations(r) # {}
  PROVE  r.target.type = "cluster" /\ NodeMetrics \in DOMAIN r.got
<1>1. NodeMetrics \in DOMAIN r.got
  BY DEF NodeUsageObservations, Found, NodeMetrics
<1>2. NodeMetrics \in AllCalls(r.target)
  BY <1>1 DEF Seeing, Faithful
<1>3. NodeMetrics[1] = "nodemetrics"
  BY DEF NodeMetrics
<1> QED  BY <1>1, <1>2, <1>3, CallsOfOthers, FirstOfOthers DEF Mattering, Seeing

-----------------------------------------------------------------------------
(* Both inspections find the same for a check that is reported as passed   *)
(* or abnormal.                                                            *)
LEMMA SamplesAreSeen ==
  ASSUME Types, NEW r, Seeing(r), NEW n, Evaluated(r, n, "metrics.resource"),
         EvaluationAt(r, n, "metrics.resource").status \in {"passed", "abnormal"},
         Clear(r, n, "metrics.resource"), Samples(r) = {}
  PROVE  \A z : ~HasIssue(r, n, "metrics.resource", z) /\ ~HasIssue(Ideal(r), n, "metrics.resource", z)
<1>0. Ideal(r).target = r.target
  BY IdealFields DEF Seeing
<1>1. UsageObservations(r) = {}
  BY DEF UsageObservations
<1>2. \A z : ~HasIssue(r, n, "metrics.resource", z)
  BY <1>1, MetricIssue
<1>3. ~Skips("metrics.resource", SeenAt(r, n))
  BY <1>2, EvaluationSays
<1>4. r.target.type = "cluster" /\ n = None
  BY <1>1, <1>3, MetricsSeen, NodeUsageOfCluster
<1>5. \A x \in UsageObservations(Ideal(r)) : x.ns # None
  BY Shapes, SampledNamespaces, TargetsAssumption
<1>6. \A z : ~HasIssue(Ideal(r), n, "metrics.resource", z)
  BY <1>0, <1>4, <1>5, MetricIssue
<1> QED  BY <1>2, <1>6

(* A check with a result has found the issues there are.                   *)
LEMMA EvaluationIsRight ==
  ASSUME Types, NEW r, Seeing(r), NEW n, NEW check, Evaluated(r, n, check),
         EvaluationAt(r, n, check).status \in {"passed", "abnormal"},
         ~Fed(r, EvaluationAt(r, n, check))
  PROVE  \A z : z \in EvaluationAt(r, n, check).issues <=>
                  z \in IssuesAt(Evaluations(Ideal(r)), n, check)
<1> DEFINE q == Ideal(r)
<1>0. q.target = r.target /\ IsTarget(r.target)
  BY IdealFields DEF Seeing
<1>1. ~Fails(r, n, check)
  BY EvaluationSays
<1>2. Clear(r, n, check)
  <2>1. EvaluationAt(r, n, check).ns = n /\ EvaluationAt(r, n, check).check = check
    BY EvaluationSays
  <2> QED  BY <1>1, <2>1, ClearUnless DEF Fed
<1>3. /\ r.target.type # "cluster" => n = r.target.ns
      /\ r.target.type = "cluster" => n = None \/ check \in NamespaceChecks
      /\ check \in Checks
  BY DEF Evaluated, Checks
<1>4. ~Fails(q, n, check)
  BY <1>1, <1>2, <1>3, FailsAlike
<1>5. \A z : HasIssue(r, n, check, z) <=> HasIssue(q, n, check, z)
  <2>1. CASE check = "metrics.resource" /\ Samples(r) = {}
    BY <1>2, <2>1, SamplesAreSeen
  <2>2. CASE ~(check = "metrics.resource" /\ Samples(r) = {})
    <3>1. check = "metrics.resource" => Samples(r) = Samples(q)
      BY <1>2, <2>2, SeesSamples
    <3>2. SameAt(r, q, n, check)
      BY <1>2, <1>3, <3>1, ClearIsSame
    <3> HIDE DEF q
    <3>3. SameAt(q, r, n, check)
      BY <1>0, <3>2, SameBack
    <3>4. \A z : HasIssue(r, n, check, z) => HasIssue(q, n, check, z)
      BY <1>0, <1>3, <3>2, SameIssue
    <3>5. \A z : HasIssue(q, n, check, z) => HasIssue(r, n, check, z)
      BY <1>0, <1>3, <3>3, SameIssue
    <3> QED  BY <3>4, <3>5
  <2> QED  BY <2>1, <2>2
<1>6. \A z : z \in EvaluationAt(r, n, check).issues <=> HasIssue(r, n, check, z)
  BY <1>1, EvaluationSays
<1> HIDE DEF q
<1>7. \A z : z \in IssuesAt(Evaluations(q), n, check) <=> HasIssue(q, n, check, z)
  BY <1>0, <1>3, <1>4, IssuesFound
<1> QED  BY <1>5, <1>6, <1>7 DEF q

-----------------------------------------------------------------------------
(* Required components.                                                    *)

RequiredKinds == {"Deployment", "StatefulSet", "DaemonSet", "Pod", "Service"}
ListingOf(kind) ==
  CASE kind = "Deployment" -> "deployments"
    [] kind = "StatefulSet" -> "statefulsets"
    [] kind = "DaemonSet" -> "daemonsets"
    [] kind = "Pod" -> "pods"
    [] kind = "Service" -> "services"

(* The labels of a kind of object that have been observed at n.            *)
LabelsAt(r, n, kind) == {o.labels : o \in {x \in Observations(r) : x.ns = n /\ x.kind = kind}}

(* They are those of the objects found.                                    *)
LEMMA LabelsOf ==
  ASSUME NEW r, r.target.selector = {}, NEW kind \in RequiredKinds, NEW n \in Namespace
  PROVE  LabelsAt(r, n, kind) = {o.labels : o \in Found(r, ListingOf(kind), n)}
<1>0. \A k : Kept(r, k, n) = Found(r, k, n)
  BY DEF Kept
<1>1. ASSUME NEW x \in Observations(r), x.ns = n, x.kind = kind
      PROVE  \E o \in Found(r, ListingOf(kind), n) : x.labels = o.labels
  <2>0. kind \notin {"Node", "PersistentVolume", "KubernetesVersion", "NodeMetric", "PodMetric",
                     "Ingress", "TLSSecret", "PersistentVolumeClaim"}
    BY DEF RequiredKinds
  <2>1. PICK m \in Namespace :
          x \in WorkloadObservations(r, m) \cup PodObservations(r, m) \cup ServiceObservations(r, m)
    BY <1>1, <2>0, Shapes, ShapesIn DEF Observations
  <2>2. m = n
    BY <1>1, <2>1, ShapesIn
  <2>3. CASE x \in PodObservations(r, n)
    <3>1. kind = "Pod"
      BY <1>1, <2>3, ShapesIn
    <3> QED  BY <2>3, <3>1 DEF PodObservations, Observation, ListingOf
  <2>4. CASE x \in ServiceObservations(r, n)
    <3>1. kind = "Service"
      BY <1>1, <2>4, ShapesIn
    <3> QED  BY <1>0, <2>4, <3>1 DEF ServiceObservations, Observation, ListingOf
  <2>5. CASE x \in WorkloadObservations(r, n)
    BY <1>0, <1>1, <2>5 DEF WorkloadObservations, Workload, Observation, ListingOf, RequiredKinds
  <2> QED  BY <2>1, <2>2, <2>3, <2>4, <2>5
<1>2. ASSUME NEW o \in Found(r, ListingOf(kind), n)
      PROVE  \E x \in Observations(r) : x.ns = n /\ x.kind = kind /\ x.labels = o.labels
  <2>1. CASE kind = "Pod"
    <3> DEFINE x == Observation("Pod", n, o, o.labels, TRUE,
          PodCandidates(o, Missing(r, n, o), IF o.name \in Pod THEN r.deltas[o.name] ELSE 0, r.at))
    <3>1. x \in PodObservations(r, n)
      BY <1>2, <2>1 DEF PodObservations, ListingOf
    <3>2. x.ns = n /\ x.kind = kind /\ x.labels = o.labels
      BY <2>1 DEF Observation
    <3> HIDE DEF x
    <3> QED  BY <3>1, <3>2 DEF Observations
  <2>2. CASE kind = "Service"
    <3> DEFINE facts == ServiceFacts(o, Found(r, "pods", n), Kept(r, "slices", n),
                                     Kept(r, "ingresses", n))
    <3> DEFINE x == Observation("Service", n, o, o.labels, TRUE, ServiceCandidates(o, facts))
    <3>1. x \in ServiceObservations(r, n)
      BY <1>0, <1>2, <2>2 DEF ServiceObservations, ListingOf
    <3>2. x.ns = n /\ x.kind = kind /\ x.labels = o.labels
      BY <2>2 DEF Observation
    <3> HIDE DEF x
    <3> QED  BY <3>1, <3>2 DEF Observations
  <2>3. CASE kind \in {"Deployment", "StatefulSet", "DaemonSet"}
    <3> DEFINE x == Workload(kind, n, o, IF kind = "DaemonSet" THEN DaemonSetCandidates(o)
                                         ELSE ReplicaCandidates(o))
    <3>1. x \in WorkloadObservations(r, n)
      BY <1>0, <1>2, <2>3 DEF WorkloadObservations, ListingOf
    <3>2. x.ns = n /\ x.kind = kind /\ x.labels = o.labels
      BY DEF Workload, Observation
    <3> HIDE DEF x
    <3> QED  BY <3>1, <3>2 DEF Observations
  <2> QED  BY <2>1, <2>2, <2>3 DEF RequiredKinds
<1> QED  BY <1>1, <1>2 DEF LabelsAt

-----------------------------------------------------------------------------
(* A listing of required components is reported under their check.         *)
LEMMA ListingChecks ==
  ASSUME NEW kind \in RequiredKinds, NEW n
  PROVE  /\ CheckOfKind(kind) \in ChecksOfCall(<<ListingOf(kind), n>>)
         /\ ListingOf(kind) \notin Usages \cup {"allpods"}
BY DEF RequiredKinds, ListingOf, ChecksOfCall, CheckOfKind, Usages

(* Unless a check of a required component has failed, what it takes to see *)
(* them has been seen.                                                     *)
LEMMA RequiredSeen ==
  ASSUME Types, NEW r, Seeing(r), r.target.type = "cluster", Namespaces \notin r.failed,
         NEW kind, kind \notin Usages \cup {"allpods"}, NEW n, <<kind, n>> \notin r.failed
  PROVE  Found(r, kind, n) = Found(Ideal(r), kind, n)
<1>1. <<kind, n>> # AllPods /\ <<kind, n>> # NodeMetrics
  BY DEF AllPods, NodeMetrics, Usages
<1>2. r.target.pod = None /\ r.todo = {}
  BY DEF Seeing, IsTarget
<1>3. ~IsLeftOut(r, <<kind, n>>)
  BY <1>1, <1>2 DEF IsLeftOut
<1> QED  BY <1>3, SawUnless DEF Saw

(* Nor has it failed in the inspection without a failed call.              *)
LEMMA RequiredFailsAlike ==
  ASSUME Types, NEW r, Seeing(r), r.target.type = "cluster", Namespaces \notin r.failed,
         ~RequiredFails(Failures(r))
  PROVE  ~RequiredFails(Failures(Ideal(r)))
<1> SUFFICES ASSUME NEW p \in world.required, NEW q \in world.required,
                    <<CheckOfKind(p.kind), q.ns>> \in Failures(Ideal(r))
             PROVE  FALSE
  BY DEF RequiredFails
<1>1. PICK m \in Namespace : \E o \in Kept(Ideal(r), "cronjobs", m) :
        ScheduleInvalid(o) /\ <<CheckOfKind(p.kind), q.ns>> = <<"workload.status", m>>
  BY IdealFailures DEF Seeing
<1>2. CheckOfKind(p.kind) = "workload.status" /\ q.ns = m
  BY <1>1
<1>3. <<"workload.status", m>> \notin Failures(r)
  BY <1>2 DEF RequiredFails
<1>4. <<"cronjobs", m>> \notin r.failed
  <2>1. "workload.status" \in ChecksOfCall(<<"cronjobs", m>>)
    BY DEF ChecksOfCall
  <2> QED  BY <1>3, <2>1, FailedCalls
<1>5. "cronjobs" \notin Usages \cup {"allpods"}
  BY DEF Usages
<1>6. Found(r, "cronjobs", m) = Found(Ideal(r), "cronjobs", m)
  BY <1>4, <1>5, RequiredSeen
<1>7. r.target.selector = {} /\ Ideal(r).target.selector = {}
  BY IdealFields DEF Seeing, IsTarget
<1>8. Kept(r, "cronjobs", m) = Kept(Ideal(r), "cronjobs", m)
  BY <1>6, <1>7 DEF Kept
<1> QED  BY <1>1, <1>3, <1>8, InvalidSchedules

(* What is missing depends on the labels observed.                         *)
LEMMA RequiredBy ==
  ASSUME NEW r, NEW q,
         \A p \in world.required : LabelsAt(r, p.ns, p.kind) = LabelsAt(q, p.ns, p.kind)
  PROVE  RequiredIssues(r, Observations(r)) = RequiredIssues(q, Observations(q))
<1> DEFINE Lacks(x, p) == \A o \in Observations(x) :
        ~(o.ns = p.ns /\ o.kind = p.kind /\ SelectorMatches(p.selector, o.labels))
<1>1. \A x, p : Lacks(x, p) <=>
        \A labels \in LabelsAt(x, p.ns, p.kind) : ~SelectorMatches(p.selector, labels)
  BY DEF LabelsAt
<1>2. \A p \in world.required : Lacks(r, p) <=> Lacks(q, p)
  BY <1>1
<1>3. \A x : RequiredIssues(x, Observations(x)) =
        {<<"REQUIRED_COMPONENT_MISSING", p.name, Critical>> : p \in {p \in world.required : Lacks(x, p)}}
  BY DEF RequiredIssues
<1> HIDE DEF Lacks
<1> QED  BY <1>2, <1>3

(* The components reported as missing are those that are missing.          *)
LEMMA RequiredIsRight ==
  ASSUME Types, NEW r, Seeing(r), r.target.type = "cluster", Namespaces \notin r.failed,
         ~RequiredFails(Failures(r))
  PROVE  RequiredAt(r).issues = RequiredAt(Ideal(r)).issues
<1> DEFINE q == Ideal(r)
<1>0. /\ q.target = r.target /\ r.target.selector = {}
  BY IdealFields DEF Seeing, IsTarget
<1>1. \A p \in world.required : p.kind \in RequiredKinds /\ p.ns \in Namespace
  BY TargetsAssumption DEF Types, RequiredKinds
<1>2. ASSUME NEW p \in world.required
      PROVE  LabelsAt(r, p.ns, p.kind) = LabelsAt(q, p.ns, p.kind)
  <2>1. <<ListingOf(p.kind), p.ns>> \notin r.failed
    <3>1. <<CheckOfKind(p.kind), p.ns>> \notin Failures(r)
      BY DEF RequiredFails
    <3> QED  BY <1>1, <3>1, FailedCalls, ListingChecks
  <2>2. Found(r, ListingOf(p.kind), p.ns) = Found(q, ListingOf(p.kind), p.ns)
    BY <1>1, <2>1, ListingChecks, RequiredSeen
  <2> HIDE DEF q
  <2>3. q.target.selector = {}
    BY <1>0
  <2>4. /\ LabelsAt(r, p.ns, p.kind) = {o.labels : o \in Found(r, ListingOf(p.kind), p.ns)}
        /\ LabelsAt(q, p.ns, p.kind) = {o.labels : o \in Found(q, ListingOf(p.kind), p.ns)}
    BY <1>0, <1>1, <2>3, LabelsOf
  <2> QED  BY <2>2, <2>4
<1>3. ~RequiredFails(Failures(q))
  BY RequiredFailsAlike
<1> HIDE DEF q
<1>4. RequiredIssues(r, Observations(r)) = RequiredIssues(q, Observations(q))
  BY <1>2, RequiredBy
<1>5. /\ RequiredAt(r).issues = RequiredIssues(r, Observations(r))
      /\ RequiredAt(q).issues = RequiredIssues(q, Observations(q))
  BY <1>0, <1>3, RequiredSays
<1> QED  BY <1>4, <1>5 DEF q

(* The missing components an inspection reports.                           *)
LEMMA RequiredFound ==
  ASSUME NEW r, IsTarget(r.target)
  PROVE  IssuesAt(Evaluations(r), r.target.ns, "required_components") = RequiredAt(r).issues
<1>1. ASSUME NEW e \in Evaluations(r), e.check = "required_components" PROVE e = RequiredAt(r)
  <2> SUFFICES ASSUME NEW n, NEW check, Evaluated(r, n, check), e = EvaluationAt(r, n, check)
               PROVE  FALSE
    BY <1>1, EvaluationsAre
  <2>1. check = "required_components"
    BY <1>1, EvaluationSays
  <2> QED  BY <2>1 DEF Evaluated, Checks, NamespaceChecks
<1>2. {f \in Evaluations(r) : f.ns = r.target.ns /\ f.check = "required_components"} = {RequiredAt(r)}
  BY <1>1, EvaluationsAre, RequiredSays
<1>3. {e.issues : e \in {RequiredAt(r)}} = {RequiredAt(r).issues}
  OBVIOUS
<1>4. UNION {RequiredAt(r).issues} = RequiredAt(r).issues
  OBVIOUS
<1> QED  BY <1>2, <1>3, <1>4 DEF IssuesAt

-----------------------------------------------------------------------------
(* An evaluation with a result, whichever it is, has found what there is.  *)
LEMMA RightOfRun ==
  ASSUME Types, NEW r, Seeing(r), NEW e \in Evaluations(r),
         e.status \in {"passed", "abnormal"}, ~Fed(r, e)
  PROVE  e.issues = IssuesAt(Evaluations(Ideal(r)), e.ns, e.check)
<1>0. IsTarget(r.target) /\ Ideal(r).target = r.target
  BY IdealFields DEF Seeing
<1>1. CASE e = RequiredAt(r)
  <2>1. e.ns = r.target.ns /\ e.check = "required_components"
    BY <1>1, RequiredSays
  <2>2. r.target.type = "cluster" /\ ~RequiredFails(Failures(r))
    BY <1>1, RequiredSays
  <2>3. Namespaces \notin r.failed
    <3>1. Namespaces[2] = None /\ "required_components" \in FedBy(Namespaces, r.target.selector)
      BY DEF Namespaces, FedBy
    <3> QED  BY <2>1, <3>1 DEF Fed
  <2>4. e.issues = RequiredAt(Ideal(r)).issues
    BY <1>1, <2>2, <2>3, RequiredIsRight
  <2> QED  BY <1>0, <2>1, <2>4, RequiredFound
<1>2. ASSUME NEW n, NEW check, Evaluated(r, n, check), e = EvaluationAt(r, n, check)
      PROVE  e.issues = IssuesAt(Evaluations(Ideal(r)), e.ns, e.check)
  <2>1. e.ns = n /\ e.check = check
    BY <1>2, EvaluationSays
  <2>2. \A z : z \in e.issues <=> z \in IssuesAt(Evaluations(Ideal(r)), n, check)
    BY <1>2, EvaluationIsRight
  <2>3. \A z : z \in e.issues <=> z \in IssuesAt(Evaluations(Ideal(r)), e.ns, e.check)
    BY <2>1, <2>2
  <2> QED  BY <2>3
<1> QED  BY <1>0, <1>1, <1>2, EvaluationsAre

-----------------------------------------------------------------------------
(* The inspections the properties are about have all calls made.           *)
LEMMA BlindSees ==
  ASSUME Inv, CallsInv, NEW i \in DOMAIN run, IsBlind(run[i])
  PROVE  Seeing(run[i])
<1>1. Active(run[i]) /\ run[i].todo = {} /\ run[i].quiet
  BY DEF IsBlind, Collected
<1>2. IsTarget(run[i].target)
  BY <1>1, ActiveTarget
<1>3. Faithful(run[i])
  BY <1>1, CallsByRun DEF CallsKept
<1>4. IsRun(run[i]) /\ run[i].failed \subseteq DOMAIN run[i].got
  BY DEF Inv, Types, Calls
<1> QED  BY <1>1, <1>2, <1>3, <1>4 DEF Seeing

(* A check that an inspection reports as passed or abnormal has exactly    *)
(* the issues an inspection without a failed call finds for it, for any    *)
(* cluster, target, policy and failed calls, unless a failed listing that  *)
(* is reported under another check feeds this one (FedBy): what            *)
(* KubernetesResourceCollector.collect makes of failed calls               *)
(* (collection_failures) and what evaluate_collection makes of them.       *)
THEOREM CompletedChecksAreRight == Spec => []CompletedIsRight
<1>1. Spec => [](Inv /\ CallsInv)
  BY InvInit, InvNext, CallsInit, CallsNext, PTL DEF Spec
<1>2. Inv /\ CallsInv => CompletedIsRight
  <2> SUFFICES ASSUME Inv, CallsInv, NEW i \in DOMAIN run, IsBlind(run[i]),
                      NEW e \in Evaluations(run[i]), e.status \in {"passed", "abnormal"},
                      ~Fed(run[i], e)
               PROVE  e.issues = IssuesAt(Evaluations(Ideal(run[i])), e.ns, e.check)
    BY DEF CompletedIsRight
  <2>1. Seeing(run[i])
    BY BlindSees
  <2> QED  BY <2>1, RightOfRun DEF Inv
<1> QED  BY <1>1, <1>2, PTL

-----------------------------------------------------------------------------
(* What has an issue is evaluated.                                         *)
LEMMA IssueEvaluated ==
  ASSUME NEW r, NEW n, NEW check \in Checks,
         r.target.type = "cluster" => n = None \/ check \in NamespaceChecks,
         r.target.type # "cluster" => n = r.target.ns,
         NEW z, HasIssue(r, n, check, z)
  PROVE  Evaluated(r, n, check)
<1>1. PICK o \in Observations(r) : r.target.type = "cluster" => o.ns = n
  BY DEF HasIssue, SeenAt
<1>2. r.target.type = "cluster" /\ n # None => n \in NamesIn(r)
  BY <1>1 DEF NamesIn
<1> QED  BY <1>2 DEF Evaluated

(* The calls made for a namespace of a cluster are reported under checks   *)
(* of the namespace.                                                       *)
LEMMA ChecksOfNamespace ==
  ASSUME NEW t, t.type = "cluster", NEW c \in AllCalls(t), c[2] # None
  PROVE  ChecksOfCall(c) \subseteq NamespaceChecks
<1>1. Version[2] = None /\ Namespaces[2] = None
  BY DEF Version, Namespaces
<1>2. c \in ClusterCalls(t, NamesOf(cluster[Namespaces]))
  BY <1>1, CallsOfCluster
<1>3. PICK n : c \in NamespaceCalls(t, n)
  BY <1>2 DEF ClusterCalls, IngressClasses, StorageClasses, Nodes, AllPods, AllMetrics, NodeMetrics
<1>4. c[1] \in Listings
  BY <1>3 DEF NamespaceCalls, On
<1> QED  BY <1>4 DEF Listings, ChecksOfCall, NamespaceChecks

(* The checks of a call.                                                   *)
LEMMA SomeCheck ==
  ASSUME NEW c
  PROVE  ChecksOfCall(c) # {} /\ ChecksOfCall(c) \subseteq Checks
BY DEF ChecksOfCall, Checks, NamespaceChecks

(* Where all checks have succeeded no call has failed.                     *)
LEMMA NoneFailed ==
  ASSUME NEW r, Seeing(r), r.target.type = "cluster",
         \A e \in Evaluations(r) : e.status # "failed"
  PROVE  r.failed = {}
<1> SUFFICES ASSUME NEW c \in r.failed PROVE FALSE
  OBVIOUS
<1>1. PICK check \in ChecksOfCall(c) : check \in Checks
  BY SomeCheck
<1>2. c \in AllCalls(r.target) /\ IsTarget(r.target)
  BY DEF Seeing, Faithful
<1>3. <<check, c[2]>> \in Failures(r)
  BY FailedCalls
<1>4. Evaluated(r, c[2], check)
  <2>1. CASE c[2] = None
    BY <1>1, <2>1 DEF Evaluated
  <2>2. CASE c[2] # None
    <3>1. check \in NamespaceChecks
      BY <1>1, <1>2, <2>2, ChecksOfNamespace
    <3>2. <<check, c[2]>>[2] = c[2]
      OBVIOUS
    <3>3. c[2] \in NamesIn(r)
      BY <1>3, <2>2, <3>2 DEF NamesIn
    <3> QED  BY <3>1, <3>3 DEF Evaluated
  <2> QED  BY <2>1, <2>2
<1>5. Fails(r, c[2], check)
  BY <1>3 DEF Fails
<1>6. EvaluationAt(r, c[2], check) \in Evaluations(r)
  BY <1>2, <1>4, EvaluationsAre
<1> QED  BY <1>5, <1>6, EvaluationSays

(* Where the check of metrics has not been skipped either, all samples     *)
(* there are have been seen.                                               *)
LEMMA AllSampled ==
  ASSUME NEW r, Seeing(r), r.target.type = "cluster", r.failed = {},
         EvaluationAt(r, None, "metrics.resource").status # "skipped",
         ~Fails(r, None, "metrics.resource")
  PROVE  Samples(r) = Samples(Ideal(r))
<1>0. Ideal(r).target = r.target
  BY IdealFields DEF Seeing
<1>1. CASE Samples(r) # {}
  <2>1. Clear(r, None, "metrics.resource")
    BY DEF Clear
  <2> QED  BY <1>1, <2>1, SeesSamples
<1>2. CASE Samples(r) = {}
  <2>1. UsageObservations(r) = {}
    BY <1>2 DEF UsageObservations
  <2>2. ~Skips("metrics.resource", SeenAt(r, None))
    BY <2>1, MetricIssue, EvaluationSays
  <2>3. NodeMetrics \in DOMAIN r.got
    BY <2>1, <2>2, MetricsSeen, NodeUsageOfCluster
  <2>4. /\ Samples(r) = Found(r, "podmetrics", None)
        /\ Samples(Ideal(r)) = Found(Ideal(r), "podmetrics", None)
    BY <1>0 DEF Samples
  <2>5. AllMetrics = <<"podmetrics", None>>
    BY DEF AllMetrics
  <2>6. CASE AllMetrics \in DOMAIN r.got
    <3>1. r.got[AllMetrics] = Answer(r.target, AllMetrics) /\ AllMetrics \in AllCalls(r.target)
      BY <2>3, <2>6 DEF Seeing, Faithful
    <3> QED  BY <2>4, <2>5, <2>6, <3>1, FoundIdeal DEF Found, Seeing
  <2>7. CASE AllMetrics \notin DOMAIN r.got
    <3>1. ~IsLeftOut(r, AllMetrics)
      <4>1. AllMetrics # AllPods /\ AllMetrics # NodeMetrics
        BY DEF AllMetrics, AllPods, NodeMetrics
      <4>2. r.target.pod = None
        BY DEF Seeing, IsTarget
      <4> QED  BY <4>1, <4>2 DEF IsLeftOut, Seeing
    <3>2. AllMetrics \notin AllCalls(r.target)
      BY <2>7, <3>1 DEF Seeing, Faithful
    <3> QED  BY <2>4, <2>5, <2>7, <3>2, FoundIdeal DEF Found, Seeing
  <2> QED  BY <2>6, <2>7
<1> QED  BY <1>1, <1>2

(* The status of an evaluation.                                            *)
LEMMA Statuses ==
  ASSUME NEW r, IsTarget(r.target), NEW e \in Evaluations(r)
  PROVE  e.status \in {"failed", "abnormal", "skipped", "passed"}
<1>1. ASSUME NEW n, NEW check, NEW issues, NEW failed, NEW skipped
      PROVE  Evaluation(n, check, issues, failed, skipped).status
               \in {"failed", "abnormal", "skipped", "passed"}
  BY DEF Evaluation
<1>2. \E n, check, issues, failed, skipped : e = Evaluation(n, check, issues, failed, skipped)
  <2>1. CASE e = RequiredAt(r)
    BY <2>1 DEF RequiredAt, RequiredEvaluation
  <2>2. CASE \E n, check : e = EvaluationAt(r, n, check)
    BY <2>2 DEF EvaluationAt, Evaluate
  <2> QED  BY <2>1, <2>2, EvaluationsAre
<1> QED  BY <1>1, <1>2

(* An inspection that has succeeded has found what there is.               *)
LEMMA SucceededOfRun ==
  ASSUME Types, NEW r, Seeing(r), RunStatus({e.status : e \in Evaluations(r)}) = "succeeded"
  PROVE  UNION {e.issues : e \in Evaluations(r)} = UNION {e.issues : e \in Evaluations(Ideal(r))}
<1> DEFINE q == Ideal(r)
<1>0. IsTarget(r.target) /\ q.target = r.target
  BY IdealFields DEF Seeing
<1>1. \A e \in Evaluations(r) : e.status \in {"passed", "abnormal"}
  <2>1. {e.status : e \in Evaluations(r)} \cap {"failed", "skipped"} = {}
    BY DEF RunStatus
  <2> QED  BY <1>0, <2>1, Statuses
<1>2. RequiredAt(r) \in Evaluations(r)
  BY <1>0, EvaluationsAre
<1>3. r.target.type = "cluster" /\ ~RequiredFails(Failures(r))
  BY <1>1, <1>2, RequiredSays
<1>4. r.failed = {}
  BY <1>1, <1>3, NoneFailed
<1>5. \A e \in Evaluations(r) : e.issues = IssuesAt(Evaluations(q), e.ns, e.check)
  BY <1>1, <1>4, RightOfRun DEF Fed
<1> HIDE DEF q
<1>6. ASSUME NEW e \in Evaluations(r), NEW z \in e.issues
      PROVE  \E f \in Evaluations(q) : z \in f.issues
  BY <1>5, <1>6 DEF IssuesAt
<1>7. ASSUME NEW f \in Evaluations(q), NEW z \in f.issues
      PROVE  \E e \in Evaluations(r) : z \in e.issues
  <2>1. CASE f = RequiredAt(q)
    <3>1. RequiredAt(r).issues = RequiredAt(q).issues
      BY <1>3, <1>4, RequiredIsRight DEF q
    <3> QED  BY <1>2, <1>7, <2>1, <3>1
  <2>2. ASSUME NEW n, NEW check, Evaluated(q, n, check), f = EvaluationAt(q, n, check)
        PROVE  \E e \in Evaluations(r) : z \in e.issues
    <3>1. HasIssue(q, n, check, z)
      BY <1>7, <2>2, EvaluationSays
    <3>2. check \in Checks /\ (n = None \/ check \in NamespaceChecks)
      BY <1>0, <1>3, <2>2 DEF Evaluated, Checks
    <3>3. Clear(r, n, check)
      BY <1>4 DEF Clear
    <3>4. Samples(r) = Samples(q)
      <4>1. Evaluated(r, None, "metrics.resource")
        BY <1>3 DEF Evaluated, Checks, NamespaceChecks
      <4>2. EvaluationAt(r, None, "metrics.resource") \in Evaluations(r)
        BY <1>0, <4>1, EvaluationsAre
      <4>3. ~Fails(r, None, "metrics.resource")
        BY <1>1, <4>2, EvaluationSays
      <4> QED  BY <1>1, <1>3, <1>4, <4>2, <4>3, AllSampled DEF q
    <3>5. SameAt(q, r, n, check)
      <4>1. SameAt(r, q, n, check)
        BY <1>3, <3>3, <3>4, ClearIsSame DEF q
      <4> QED  BY <1>0, <4>1, SameBack
    <3>6. HasIssue(r, n, check, z)
      BY <1>0, <1>3, <3>1, <3>5, SameIssue
    <3>7. Evaluated(r, n, check)
      BY <1>3, <3>2, <3>6, IssueEvaluated
    <3>8. EvaluationAt(r, n, check) \in Evaluations(r)
      BY <1>0, <3>7, EvaluationsAre
    <3>9. ~Fails(r, n, check)
      BY <1>1, <3>8, EvaluationSays
    <3> QED  BY <3>6, <3>8, <3>9, EvaluationSays
  <2> QED  BY <1>0, <2>1, <2>2, EvaluationsAre
<1> QED  BY <1>6, <1>7 DEF q

(* An inspection _aggregate_run_status calls succeeded has found all the   *)
(* issues there are: no call of it has failed (each is reported under a    *)
(* check that is evaluated), and metrics that are not there have made a    *)
(* check skipped.                                                          *)
THEOREM SucceededRunsSawAll == Spec => []SucceededSawAll
<1>1. Spec => [](Inv /\ CallsInv)
  BY InvInit, InvNext, CallsInit, CallsNext, PTL DEF Spec
<1>2. Inv /\ CallsInv => SucceededSawAll
  <2> SUFFICES ASSUME Inv, CallsInv, NEW i \in DOMAIN run, IsBlind(run[i]),
                      RunStatus({e.status : e \in Evaluations(run[i])}) = "succeeded"
               PROVE  UNION {e.issues : e \in Evaluations(run[i])}
                        = UNION {e.issues : e \in Evaluations(Ideal(run[i]))}
    BY DEF SucceededSawAll
  <2>1. Seeing(run[i])
    BY BlindSees
  <2> QED  BY <2>1, SucceededOfRun DEF Inv
<1> QED  BY <1>1, <1>2, PTL
=============================================================================
