----------------------------- MODULE Deployment -----------------------------
(* The lifecycle of one inference service: the management calls of         *)
(* services/infer, the queue of change events, the controller that         *)
(* reconciles them on the cluster (internal/controller) and the consumer   *)
(* that applies the controller's status reports to the row.                *)
(*                                                                         *)
(* A call reads the row, commits its fields in one UPDATE, publishes the   *)
(* whole desired state built from the row it READ, and records the change  *)
(* in the deployment trail.  Calls run in any number of goroutines; the    *)
(* controller handles one change at a time.                                *)
EXTENDS Integers, Sequences, FiniteSets

CONSTANTS
    Calls,      \* request goroutines, over all replicas
    Consumers,  \* number of status consumers, one per server replica
    Versions,   \* registered versions of the model
    Counts,     \* replica counts
    Layouts,    \* serving topologies
    Keep,       \* a field an UPDATE leaves alone, or a diff omits
    Nothing,    \* no StormService
    NoWeights,  \* an empty weight path: the engine serves the mount's root
    MaxOps,     \* bound on the calls made
    MaxReports, \* bound on the reports queued: the controller waits at it
    MaxFaults   \* bound on failed statements and publishes, and restarts

ASSUME ConstantsAssumption ==
    /\ IsFiniteSet(Calls)
    /\ {MaxOps, MaxFaults} \subseteq Nat
    /\ {MaxReports, Consumers} \subseteq Nat \ {0}
    /\ Keep \notin Versions /\ Keep \notin Counts
    /\ Keep \notin Layouts /\ Keep \notin BOOLEAN
    /\ NoWeights \notin Versions

VARIABLES
    row,        \* the service's row in inference_services
    trail,      \* deployment_events: the non-empty before sides
    call,       \* what each request goroutine is doing
    changes,    \* the queue of infer.services.changes
    ctl,        \* the change the controller is reconciling, and how far
    cluster,    \* the StormService and whether a PodAutoscaler stands by it
    reports,    \* the queue of infer.services.status
    told,       \* history: changes whose failed report was published
    lost,       \* history: changes that went with their queue
    last,       \* history: the last change accepted by the broker
    overlap,    \* history: did two calls ever run at once
    ops,
    faults

vars == <<row, trail, call, changes, ctl, cluster, reports, told, lost, last,
          overlap, ops, faults>>

-----------------------------------------------------------------------------
\* "absent" is no row, the others are infer_model.go's.
Reportable == {"queued", "starting", "running", "failed"}
States == Reportable \cup {"absent", "pending", "deploying", "terminated"}
Settled == {"absent", "running", "failed", "terminated"}

Ids == 0 .. MaxOps

Rows == [state : States, version : Versions, replicas : Counts,
         layout : Layouts, autoscaled : BOOLEAN]

Writes == [state : States \cup {Keep}, version : Versions \cup {Keep},
           replicas : Counts \cup {Keep}, layout : Layouts \cup {Keep},
           autoscaled : BOOLEAN \cup {Keep}]

Diffs == [version : Versions \cup {Keep}, replicas : Counts \cup {Keep}]
EmptyDiff == [version |-> Keep, replicas |-> Keep]

Specs == [version : Versions, weights : Versions \cup {NoWeights},
          replicas : Counts, layout : Layouts]

\* A change with spec Nothing is a delete; the three event types upsert,
\* update_version and rollback are reconciled alike.
Events == [id : Ids, spec : Specs \cup {Nothing}, scaler : BOOLEAN]
NoEvent == [id |-> 0, spec |-> Nothing, scaler |-> FALSE]

Ops == {"create", "scale", "version", "topology", "autoscaling", "rollback",
        "delete"}

Unchanged == [state |-> Keep, version |-> Keep, replicas |-> Keep,
              layout |-> Keep, autoscaled |-> Keep]

\* Writes every field of the request, the ones left out included.
PickAlways(new, old) == new

Pick(new, old) == IF new = Keep THEN old ELSE new

\* The row after an UPDATE of the fields in w; also `updated := *row`.
Merge(r, w) ==
    [state |-> Pick(w.state, r.state),
     version |-> Pick(w.version, r.version),
     replicas |-> Pick(w.replicas, r.replicas),
     layout |-> Pick(w.layout, r.layout),
     autoscaled |-> Pick(w.autoscaled, r.autoscaled)]

\* specDiff's before side: the fields an event changed.
Diff(before, after) ==
    [version |-> IF before.version = after.version THEN Keep ELSE before.version,
     replicas |-> IF before.replicas = after.replicas THEN Keep ELSE before.replicas]

\* serviceSpec has no weights in its before side, so a rollback event's
\* weight path is empty.
SpecOf(op, r) ==
    [version |-> r.version,
     weights |-> IF op = "rollback" THEN NoWeights ELSE r.version,
     replicas |-> r.replicas, layout |-> r.layout]

Idle(c) == call[c].pc = "idle"
Fault == faults < MaxFaults /\ faults' = faults + 1
NoFault == UNCHANGED faults

NoCall == [pc |-> "idle", op |-> "none", before |-> Nothing, write |-> Unchanged]

CallType == [pc : {"idle", "read", "committed"}, op : Ops \cup {"none"},
             before : Rows \cup {Nothing}, write : Writes]

TypeOK ==
    /\ row \in Rows
    /\ trail \subseteq Diffs
    /\ call \in [Calls -> CallType]
    /\ \A c \in Calls : ~Idle(c) => call[c].before \in Rows /\ call[c].op \in Ops
    /\ changes \in Seq(Events)
    /\ ctl \in [pc : {"idle", "applying", "scaling", "waiting", "started",
                      "failing"},
                evt : Events \cup {NoEvent}]
    /\ ctl.pc # "idle" => ctl.evt \in Events
    /\ cluster \in [storm : Specs \cup {Nothing}, scaler : BOOLEAN]
    /\ reports \in Seq(Reportable)
    /\ told \subseteq Ids /\ lost \subseteq Ids
    /\ last \in [op : Ops \cup {"none"}, evt : Events \cup {NoEvent}]
    /\ overlap \in BOOLEAN
    /\ ops \in 0 .. MaxOps
    /\ faults \in 0 .. MaxFaults

\* No service yet; row holds what the create will ask for.
Fresh ==
    /\ row.state = "absent"
    /\ trail = {}
    /\ cluster = [storm |-> Nothing, scaler |-> FALSE]
    /\ last = [op |-> "none", evt |-> NoEvent]

\* A service that runs what its row says, after an update of its version and
\* one of its policy.
Established ==
    /\ row.state = "running"
    /\ \E v \in Versions \ {row.version} : trail = {[EmptyDiff EXCEPT !.version = v]}
    /\ cluster = [storm |-> SpecOf("autoscaling", row), scaler |-> row.autoscaled]
    /\ last = [op |-> "autoscaling",
               evt |-> [id |-> 0, spec |-> cluster.storm, scaler |-> cluster.scaler]]

Init ==
    /\ row \in Rows
    /\ Fresh \/ Established
    /\ call = [c \in Calls |-> NoCall]
    /\ changes = <<>>
    /\ ctl = [pc |-> "idle", evt |-> NoEvent]
    /\ reports = <<>>
    /\ told = {}
    /\ lost = {}
    /\ overlap = FALSE
    /\ ops = 0
    /\ faults = 0

-----------------------------------------------------------------------------
(* Management calls.  findService and the state check read the row; the    *)
(* state is not checked again when the UPDATE runs.                        *)

\* Idle goroutines are alike: any one serves the next request.
Free(c) == Idle(c) /\ c = CHOOSE d \in Calls : Idle(d)

Begin(c, op, w) ==
    /\ Free(c)
    /\ ops < MaxOps
    /\ ops' = ops + 1
    /\ overlap' = (overlap \/ \E d \in Calls : ~Idle(d))
    /\ call' = [call EXCEPT ![c] =
                  [pc |-> "read", op |-> op, before |-> row, write |-> w]]
    /\ UNCHANGED <<row, trail, changes, ctl, cluster, reports, told, lost, last, faults>>

Exists == row.state # "absent"
Updatable == Exists /\ row.state # "terminated"

\* NameTaken counts terminated rows too.
CreateInferenceService(c) ==
    ~Exists /\ Begin(c, "create", [Unchanged EXCEPT !.state = "pending"])

ScaleInferenceService(c) ==
    \E n \in Counts : Updatable /\ Begin(c, "scale", [Unchanged EXCEPT !.replicas = n])

UpdateInferenceServiceVersion(c) ==
    \E v \in Versions :
      /\ Updatable
      /\ Begin(c, "version", [Unchanged EXCEPT !.version = v, !.state = "deploying"])

\* A request without a replica count keeps the stored one.
UpdateInferenceServiceTopology(c) ==
    \E t \in Layouts, n \in Counts \cup {Keep} :
      /\ Updatable
      /\ Begin(c, "topology", [Unchanged EXCEPT !.layout = t, !.replicas = n,
                                                !.state = "pending"])

UpdateInferenceServiceAutoscaling(c) ==
    \E b \in BOOLEAN :
      Updatable /\ Begin(c, "autoscaling", [Unchanged EXCEPT !.autoscaled = b])

\* Only the fields the chosen event changed are restored.
RollbackDeployment(c) ==
    \E d \in trail :
      /\ Updatable
      /\ Begin(c, "rollback", [Unchanged EXCEPT !.version = d.version,
                                                !.replicas = d.replicas,
                                                !.state = "deploying"])

\* An already terminated service succeeds with no further step.
DeleteInferenceService(c) ==
    Updatable /\ Begin(c, "delete", [Unchanged EXCEPT !.state = "terminated"])

Goto(c, pc) == call' = [call EXCEPT ![c].pc = pc]
Return(c) == call' = [call EXCEPT ![c] = NoCall]

\* UpdateReplicas, UpdateModelVersion, UpdateTopology, UpdateAutoscaling,
\* ApplyRollbackState and MarkTerminated update by id only.
Commit(c) ==
    /\ call[c].pc = "read"
    /\ call[c].op = "create" => ~Exists
    /\ row' = Merge(row, call[c].write)
    /\ Goto(c, "committed")
    /\ NoFault
    /\ UNCHANGED <<trail, changes, ctl, cluster, reports, told, lost, last, overlap, ops>>

\* The INSERT meets the row of a concurrent create.
DuplicateName(c) ==
    /\ call[c].pc = "read"
    /\ call[c].op = "create" /\ Exists
    /\ Return(c)
    /\ UNCHANGED <<row, trail, changes, ctl, cluster, reports, told, lost,
                   last, overlap, ops, faults>>

\* The UPDATE fails, or the replica stops before it.
CommitFails(c) ==
    /\ call[c].pc = "read"
    /\ Return(c)
    /\ Fault
    /\ UNCHANGED <<row, trail, changes, ctl, cluster, reports, told, lost,
                   last, overlap, ops>>

\* The effective policy is set on three of the events only.
EventOf(c) ==
    LET op == call[c].op
        updated == Merge(call[c].before, call[c].write)
    IN  [id |-> last.evt.id + 1,
         spec |-> IF op = "delete" THEN Nothing ELSE SpecOf(op, updated),
         scaler |-> op \in {"create", "topology", "autoscaling"} /\ updated.autoscaled]

\* recordLifecycleEvent: a scale reads the row again for its after side, an
\* autoscaling change is not recorded.
AfterSide(c) ==
    IF call[c].op = "scale" THEN row ELSE Merge(call[c].before, call[c].write)

BeforeSide(c) ==
    CASE call[c].op \in {"create", "autoscaling"} -> EmptyDiff
      [] call[c].op = "delete" -> [version |-> call[c].before.version,
                                   replicas |-> call[c].before.replicas]
      [] OTHER -> Diff(call[c].before, AfterSide(c))

\* The insert is best effort.
RecordLifecycleEvent(c) ==
    \/ trail' = trail \cup ({BeforeSide(c)} \ {EmptyDiff}) /\ NoFault
    \/ UNCHANGED trail /\ Fault

PublishChange(c) ==
    /\ call[c].pc = "committed"
    /\ changes' = Append(changes, EventOf(c))
    /\ last' = [op |-> call[c].op, evt |-> EventOf(c)]
    /\ RecordLifecycleEvent(c)
    /\ Return(c)
    /\ UNCHANGED <<row, ctl, cluster, reports, told, lost, overlap, ops>>

\* A create is compensated (best effort), a delete is recorded and succeeds,
\* the others answer with an error; a replica that stops here publishes
\* nothing either.
PublishFails(c) ==
    /\ call[c].pc = "committed"
    /\ Fault
    /\ \/ /\ call[c].op = "create"
          /\ row' = [row EXCEPT !.state = "terminated"]
       \/ UNCHANGED row
    /\ \/ /\ call[c].op = "delete"
          /\ trail' = trail \cup {BeforeSide(c)}
       \/ UNCHANGED trail
    /\ Return(c)
    /\ UNCHANGED <<changes, ctl, cluster, reports, told, lost, last, overlap, ops>>

-----------------------------------------------------------------------------
(* The controller: one consumer with a prefetch of one.                    *)

callVars == <<trail, call, last, overlap, ops>>

CtlGoto(pc) == ctl' = [ctl EXCEPT !.pc = pc]
CtlDone == ctl' = [pc |-> "idle", evt |-> NoEvent]

Room == Len(reports) < MaxReports

\* A status publish that fails is logged, and the reconcile goes on.
Publish(state) ==
    \/ Room /\ reports' = Append(reports, state) /\ NoFault
    \/ UNCHANGED reports /\ Fault

NextIs(kind) ==
    /\ ctl.pc = "idle"
    /\ changes # <<>>
    /\ kind = "delete" <=> Head(changes).spec = Nothing

\* deletePodAutoscaler ignores its own failure.
DeleteScaler ==
    \/ cluster'.scaler = FALSE /\ NoFault
    \/ cluster'.scaler = cluster.scaler /\ Fault

\* An object that is gone already is an error, and the change comes back.
ApplyDeleteAgain ==
    /\ NextIs("delete")
    /\ cluster.storm # Nothing
    /\ \E s \in {FALSE, cluster.scaler} :
         cluster' = [storm |-> Nothing, scaler |-> s]
    /\ DeleteScaler
    /\ changes' = Tail(changes)
    /\ UNCHANGED <<row, ctl, reports, told, lost, callVars>>

\* applyDelete: any other failure puts the change back at the head of the
\* queue, which leaves everything as it was.
ApplyDelete ==
    /\ NextIs("delete")
    /\ \E s \in {FALSE, cluster.scaler} :
         cluster' = [storm |-> Nothing, scaler |-> s]
    /\ DeleteScaler
    /\ changes' = Tail(changes)
    /\ UNCHANGED <<row, ctl, reports, told, lost, callVars>>

ReportQueued ==
    /\ NextIs("upsert")
    /\ Publish("queued")
    /\ ctl' = [pc |-> "applying", evt |-> Head(changes)]
    /\ changes' = Tail(changes)
    /\ UNCHANGED <<row, cluster, told, lost, callVars>>

\* Leaves a StormService that exists as it is.
ApplyStormOnce ==
    /\ ctl.pc = "applying"
    /\ cluster' = IF cluster.storm = Nothing THEN [cluster EXCEPT !.storm = ctl.evt.spec]
                  ELSE cluster
    /\ CtlGoto("scaling")
    /\ UNCHANGED <<row, changes, reports, told, lost, faults, callVars>>

ApplyStorm ==
    /\ ctl.pc = "applying"
    /\ cluster' = [cluster EXCEPT !.storm = ctl.evt.spec]
    /\ CtlGoto("scaling")
    /\ UNCHANGED <<row, changes, reports, told, lost, faults, callVars>>

\* A PodAutoscaler that cannot be written is removed and reported as a
\* failure; without a policy the replicas are pinned.
ApplyScaler ==
    /\ ctl.pc = "scaling"
    /\ \/ /\ ctl.evt.scaler
          /\ cluster' = [cluster EXCEPT !.scaler = TRUE]
          /\ CtlGoto("waiting") /\ NoFault
       \/ /\ \E s \in {FALSE, cluster.scaler} : cluster' = [cluster EXCEPT !.scaler = s]
          /\ DeleteScaler
          /\ \/ ~ctl.evt.scaler /\ CtlGoto("waiting")
             \/ CtlGoto("failing")
    /\ UNCHANGED <<row, changes, reports, told, lost, callVars>>

\* awaitEngineReady: a pod is placed, then an engine answers.  An older pod
\* may answer before the newest one is placed: then nothing is reported.
ReportStarting ==
    /\ ctl.pc = "waiting"
    /\ Publish("starting") \/ UNCHANGED <<reports, faults>>
    /\ CtlGoto("started")
    /\ UNCHANGED <<row, changes, cluster, told, lost, callVars>>

\* Returns once the engine answers.
ReportRunningNot ==
    /\ ctl.pc = "started"
    /\ CtlDone
    /\ UNCHANGED <<row, changes, cluster, reports, told, lost, faults, callVars>>

ReportRunning ==
    /\ ctl.pc = "started"
    /\ Publish("running")
    /\ CtlDone
    /\ UNCHANGED <<row, changes, cluster, told, lost, callVars>>

\* A manifest is refused, a pod can never start, the engine does not answer
\* in time.
ReconcileFails ==
    /\ ctl.pc \in {"applying", "scaling", "waiting", "started"}
    /\ CtlGoto("failing")
    /\ UNCHANGED <<row, changes, cluster, reports, told, lost, faults, callVars>>

\* reportFailure: permanent once reported, retried when the report is lost.
ReportFailure ==
    /\ ctl.pc = "failing"
    /\ Room
    /\ reports' = Append(reports, "failed")
    /\ told' = told \cup {ctl.evt.id}
    /\ CtlDone
    /\ UNCHANGED <<row, changes, cluster, lost, faults, callVars>>

\* The change is rejected although nobody heard of it.
ReportFailureFailsDropped ==
    /\ ctl.pc = "failing"
    /\ CtlDone
    /\ Fault
    /\ UNCHANGED <<row, changes, cluster, reports, told, lost, callVars>>

ReportFailureFails ==
    /\ ctl.pc = "failing"
    /\ changes' = <<ctl.evt>> \o changes
    /\ CtlDone
    /\ Fault
    /\ UNCHANGED <<row, cluster, reports, told, lost, callVars>>

\* The changes the broker has accepted and nobody has finished.
Outstanding == IF ctl.pc = "idle" THEN changes ELSE <<ctl.evt>> \o changes

\* The queue goes with its last consumer, when the controller stops or its
\* connection is lost.  The step is the subscription that declares the queue
\* again: what was published since it went is dropped with what it held.  A
\* handler outlives its connection, so the change in hand may have been
\* finished before the step; it is dropped in hand when the controller stopped.
LoseChanges ==
    /\ Outstanding # <<>>
    /\ lost' = lost \cup {Outstanding[i].id : i \in 1 .. Len(Outstanding)}
    /\ changes' = <<>>
    /\ CtlDone
    /\ Fault
    /\ UNCHANGED <<row, cluster, reports, told, callVars>>

-----------------------------------------------------------------------------
(* The status consumers of the server replicas share one queue; each holds *)
(* one report at a time, so any of the oldest reports may be applied next. *)
(* An UPDATE that fails, or one of several replicas that stops, puts its   *)
(* report back.                                                            *)

\* ApplyStatus updates by id, whatever the state.
ApplyStatus ==
    \E i \in 1 .. Len(reports) :
      /\ i <= Consumers
      /\ row' = [row EXCEPT !.state = reports[i]]
      /\ reports' = SubSeq(reports, 1, i - 1) \o SubSeq(reports, i + 1, Len(reports))
      /\ UNCHANGED <<changes, ctl, cluster, told, lost, faults, callVars>>

\* The last status consumer goes, and the queue with it.
LoseReports ==
    /\ reports # <<>>
    /\ reports' = <<>>
    /\ Fault
    /\ UNCHANGED <<row, changes, ctl, cluster, told, lost, callVars>>

-----------------------------------------------------------------------------
CallStarts(c) ==
    \/ CreateInferenceService(c)
    \/ ScaleInferenceService(c)
    \/ UpdateInferenceServiceVersion(c)
    \/ UpdateInferenceServiceTopology(c)
    \/ UpdateInferenceServiceAutoscaling(c)
    \/ RollbackDeployment(c)
    \/ DeleteInferenceService(c)

CallProceeds(c) ==
    \/ Commit(c)
    \/ DuplicateName(c)
    \/ CommitFails(c)
    \/ PublishChange(c)
    \/ PublishFails(c)

Reconcile ==
    \/ ApplyDelete
    \/ ReportQueued
    \/ ApplyStorm
    \/ ApplyScaler
    \/ ReportStarting
    \/ ReportRunning
    \/ ReconcileFails
    \/ ReportFailure
    \/ ReportFailureFails

Next ==
    \/ \E c \in Calls : CallStarts(c) \/ CallProceeds(c)
    \/ Reconcile
    \/ LoseChanges
    \/ ApplyStatus
    \/ LoseReports

\* A started call ends, the controller's loop runs and every wait in it has a
\* timeout, and a consumer's loop runs.  Nobody has to make a call.
Fairness ==
    /\ \A c \in Calls : WF_vars(CallProceeds(c))
    /\ WF_vars(Reconcile)
    /\ WF_vars(ApplyStatus)

Spec == Init /\ [][Next]_vars /\ Fairness

-----------------------------------------------------------------------------
Stream == INSTANCE ChangeStream
            WITH Changes <- Events, waiting <- Outstanding,
                 served <- cluster.storm, rejected <- told

\* The cluster takes changes in the order they were accepted, one at a time,
\* and none ends unserved unless the platform was told or its queue was lost.
ChangesInOrder == Stream!Spec

\* Once everything is drained, whatever calls overlapped and whatever failed,
\* what the last change asked for is what runs, unless that change was reported
\* as failed or went with its queue.  When no two calls overlapped and nothing
\* failed it is also what the row says, but for the weights of a rollback.
Drained ==
    /\ Outstanding = <<>> /\ reports = <<>>
    /\ \A c \in Calls : Idle(c)

LastChangeLands ==
    Drained /\ last.evt.id \notin told \cup lost
        => /\ cluster.storm = last.evt.spec
           /\ faults = 0 /\ ~overlap /\ last.op \notin {"none", "delete"}
                => cluster.storm = SpecOf(last.op, row)

\* The controller's queue drains whatever is refused on the way.
StreamDrains == []<>(Outstanding = <<>>)

\* With one consumer and no fault the row does not stay in a passing state.
RolloutSettles == <>[](faults > 0 \/ row.state \in Settled)

\* "a deleted service's late report" is skipped: a terminated row stays so.
TerminatedIsFinal == [][row.state = "terminated" => row'.state = "terminated"]_vars

\* When a delete is final after all: the row is terminated, and nothing is on
\* its way but other deletes, whether calls, changes or reports.  Then no call
\* can start, the row stays terminated, and nothing is built again.
DeletedForGood ==
    /\ row.state = "terminated" /\ reports = <<>>
    /\ ctl.pc = "idle" /\ \A i \in 1 .. Len(changes) : changes[i].spec = Nothing
    /\ \A c \in Calls : Idle(c) \/ call[c].op = "delete"

DeletionIsFinal ==
    [][DeletedForGood =>
          DeletedForGood' /\ cluster'.storm \in {Nothing, cluster.storm}]_vars
=============================================================================
