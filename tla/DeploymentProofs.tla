-------------------------- MODULE DeploymentProofs --------------------------
(* Theorems of module Deployment, for every set of request goroutines,     *)
(* versions, counts and layouts and every bound: the type invariant, that  *)
(* the changes reach the cluster as ChangeStream promises, that the last   *)
(* one lands, with calls made one after the other as the row says, and     *)
(* when a deletion is final.                                               *)
EXTENDS Deployment, FiniteSetTheorems, SequenceTheorems, TLAPS

-----------------------------------------------------------------------------
(* The inductive invariant, in named parts. *)

Busy == {c \in Calls : ~Idle(c)}

\* A call publishes at most once, so the numbers of the changes are bounded.
CountInv == last.evt.id + Cardinality(Busy) <= ops

\* No change is numbered above the last one accepted, whether it waits, has
\* failed or was lost.
IdInv ==
    /\ \A i \in 1 .. Len(Outstanding) : Outstanding[i].id <= last.evt.id
    /\ \A n \in told \cup lost : n <= last.evt.id

\* Once applied, the change in hand is what runs.
ServedInv ==
    ctl.pc \in {"scaling", "waiting", "started"} => cluster.storm = ctl.evt.spec

IInv == TypeOK /\ CountInv /\ IdInv /\ ServedInv

-----------------------------------------------------------------------------
(* Sequences of changes. *)

LEMMA SplitHead ==
    ASSUME NEW S, NEW s \in Seq(S), s # <<>>
    PROVE  /\ Head(s) \in S
           /\ Tail(s) \in Seq(S)
           /\ <<Head(s)>> \o Tail(s) = s
           /\ s[1] = Head(s)
  BY HeadTailProperties, EmptySeq

LEMMA PushFront ==
    ASSUME NEW S, NEW s \in Seq(S), NEW e \in S
    PROVE  /\ <<e>> \o s \in Seq(S)
           /\ <<e>> \o s # <<>>
           /\ Head(<<e>> \o s) = e
           /\ (<<e>> \o s)[1] = e
           /\ Tail(<<e>> \o s) = s
           /\ Len(<<e>> \o s) = Len(s) + 1
           /\ \A i \in 1 .. Len(s) : (<<e>> \o s)[i + 1] = s[i]
  OBVIOUS

LEMMA PushBoth ==
    ASSUME NEW S, NEW s \in Seq(S), NEW e \in S, NEW f \in S
    PROVE  <<e>> \o Append(s, f) = Append(<<e>> \o s, f)
  OBVIOUS

LEMMA PushBack ==
    ASSUME NEW S, NEW s \in Seq(S), NEW e \in S
    PROVE  /\ Append(s, e) \in Seq(S)
           /\ Len(Append(s, e)) = Len(s) + 1
           /\ Append(s, e)[Len(s) + 1] = e
           /\ \A i \in 1 .. Len(s) : Append(s, e)[i] = s[i]
  OBVIOUS

\* Removing one report leaves a sequence of reports.
LEMMA RemoveOne ==
    ASSUME NEW S, NEW s \in Seq(S), NEW i \in 1 .. Len(s)
    PROVE  SubSeq(s, 1, i - 1) \o SubSeq(s, i + 1, Len(s)) \in Seq(S)
  <1>1. SubSeq(s, 1, i - 1) \in Seq(S)
    BY SubSeqProperties
  <1>2. SubSeq(s, i + 1, Len(s)) \in Seq(S)
    BY SubSeqProperties
  <1> QED
    BY <1>1, <1>2, ConcatProperties

\* What is left after the head ends as the sequence did.
LEMMA LastOfTail ==
    ASSUME NEW S, NEW s \in Seq(S), s # <<>>
    PROVE  /\ Tail(s) = <<>> => Len(s) = 1
           /\ Tail(s) # <<>> => Tail(s)[Len(Tail(s))] = s[Len(s)]
  <1> DEFINE t == Tail(s)
             n == Len(t)
  <1>1. t \in Seq(S) /\ n = Len(s) - 1 /\ \A i \in 1 .. n : t[i] = s[i + 1]
    BY HeadTailProperties
  <1>2. Len(s) \in Nat \ {0}
    BY EmptySeq
  <1>3. t = <<>> => n = 0
    BY EmptySeq
  <1>4. t # <<>> => n \in Nat \ {0}
    BY <1>1, EmptySeq
  <1> HIDE DEF t, n
  <1>5. ASSUME t # <<>> PROVE t[n] = s[Len(s)]
    <2>1. n \in 1 .. n /\ n + 1 = Len(s)
      BY <1>1, <1>2, <1>4, <1>5
    <2> QED
      BY <1>1, <2>1
  <1>6. ASSUME t = <<>> PROVE Len(s) = 1
    <2> DEFINE m == Len(s)
    <2>1. m \in Nat /\ n = m - 1 /\ n = 0
      BY <1>1, <1>2, <1>3, <1>6
    <2> HIDE DEF m
    <2>2. m = 1
      BY <2>1
    <2> QED
      BY <2>2 DEF m
  <1> QED
    BY <1>5, <1>6 DEF t, n

LEMMA OutstandingTyped ==
    ASSUME TypeOK
    PROVE  Outstanding \in Seq(Events)
  BY PushFront DEF TypeOK, Outstanding

\* The changes waiting are numbered up to the last one accepted.
LEMMA WaitingBelow ==
    ASSUME TypeOK, IdInv
    PROVE  \A i \in 1 .. Len(Outstanding) :
             Outstanding[i].id \in Nat /\ Outstanding[i].id <= last.evt.id
  <1> SUFFICES ASSUME NEW i \in 1 .. Len(Outstanding)
               PROVE  Outstanding[i].id \in Nat /\ Outstanding[i].id <= last.evt.id
    OBVIOUS
  <1>1. Outstanding[i] \in Events
    BY OutstandingTyped
  <1>2. \A e \in Events : e.id \in Nat
    BY ConstantsAssumption DEF Events, Ids
  <1> QED
    BY <1>1, <1>2 DEF IdInv

-----------------------------------------------------------------------------
(* Rows, writes and events. *)

LEMMA MergeTyped ==
    ASSUME NEW r \in Rows, NEW w \in Writes
    PROVE  Merge(r, w) \in Rows
  BY DEF Rows, Writes, Merge, Pick, States

LEMMA SpecTyped ==
    ASSUME NEW r \in Rows, NEW op
    PROVE  SpecOf(op, r) \in Specs
  BY DEF Rows, Specs, SpecOf

LEMMA DiffTyped ==
    ASSUME NEW r \in Rows, NEW s \in Rows
    PROVE  /\ Diff(r, s) \in Diffs
           /\ EmptyDiff \in Diffs
           /\ [version |-> r.version, replicas |-> r.replicas] \in Diffs
           /\ \A v \in Versions : [EmptyDiff EXCEPT !.version = v] \in Diffs
  BY DEF Rows, Diffs, Diff, EmptyDiff

LEMMA UnchangedTyped == Unchanged \in Writes /\ NoCall \in CallType /\ NoCall.pc = "idle"
  BY DEF Unchanged, Writes, NoCall, CallType

LEMMA EventTyped ==
    ASSUME TypeOK, NEW c \in Calls, ~Idle(c), CountInv, ops <= MaxOps
    PROVE  EventOf(c) \in Events /\ EventOf(c).id = last.evt.id + 1
  <1>1. IsFiniteSet(Busy) /\ c \in Busy
    BY ConstantsAssumption, FS_Subset DEF Busy
  <1>2. Cardinality(Busy) \in Nat /\ Cardinality(Busy) # 0
    BY <1>1, FS_CardinalityType, FS_EmptySet
  <1>3. last.evt.id \in Nat /\ last.evt.id + 1 \in Ids
    <2>1. last.evt.id \in Ids /\ ops \in Nat /\ MaxOps \in Nat
      BY ConstantsAssumption DEF TypeOK, Ids, Events, NoEvent
    <2> QED
      BY <1>2, <2>1 DEF CountInv, Ids
  <1>4. Merge(call[c].before, call[c].write) \in Rows
    BY MergeTyped DEF TypeOK, CallType, Idle
  <1>5. \A op : SpecOf(op, Merge(call[c].before, call[c].write)) \in Specs
    BY <1>4, SpecTyped
  <1>6. Merge(call[c].before, call[c].write).autoscaled \in BOOLEAN
    BY <1>4 DEF Rows
  <1> QED
    BY <1>3, <1>5, <1>6 DEF EventOf, Events

-----------------------------------------------------------------------------
(* Type correctness. *)

LEMMA TypedInit == Init => TypeOK
  <1> SUFFICES ASSUME Init PROVE TypeOK
    OBVIOUS
  <1>1. trail \subseteq Diffs
    BY DiffTyped DEF Init, Fresh, Established
  <1>2. cluster \in [storm : Specs \cup {Nothing}, scaler : BOOLEAN]
    <2>1. SpecOf("autoscaling", row) \in Specs /\ row.autoscaled \in BOOLEAN
      BY SpecTyped DEF Init, Rows
    <2>2. CASE Fresh
      BY <2>2 DEF Fresh
    <2>3. CASE Established
      BY <2>1, <2>3 DEF Established
    <2> QED
      BY <2>2, <2>3 DEF Init
  <1>3. last \in [op : Ops \cup {"none"}, evt : Events \cup {NoEvent}]
    <2>1. [id |-> 0, spec |-> cluster.storm, scaler |-> cluster.scaler] \in Events
      BY <1>2, ConstantsAssumption DEF Events, Ids
    <2> QED
      BY <2>1 DEF Init, Fresh, Established, Ops
  <1>4. /\ call \in [Calls -> CallType]
        /\ \A c \in Calls : ~Idle(c) => call[c].before \in Rows /\ call[c].op \in Ops
    BY UnchangedTyped DEF Init, Idle
  <1>5. changes \in Seq(Events) /\ reports \in Seq(Reportable)
    BY DEF Init
  <1>6. ops \in 0 .. MaxOps /\ faults \in 0 .. MaxFaults
    BY ConstantsAssumption DEF Init
  <1> QED
    BY <1>1, <1>2, <1>3, <1>4, <1>5, <1>6 DEF Init, TypeOK

\* What a management call may do to the variables it shares.
LEMMA TypedBegin ==
    ASSUME TypeOK, NEW c \in Calls, NEW op \in Ops, NEW w \in Writes, Begin(c, op, w)
    PROVE  TypeOK'
  <1>1. ops' \in 0 .. MaxOps
    BY ConstantsAssumption DEF TypeOK, Begin
  <1>2. overlap' \in BOOLEAN
    BY DEF TypeOK, Begin
  <1>3. [pc |-> "read", op |-> op, before |-> row, write |-> w] \in CallType
    BY DEF TypeOK, CallType
  <1>4. call' \in [Calls -> CallType]
    BY <1>3 DEF TypeOK, Begin
  <1>5. \A d \in Calls : ~Idle(d)' => call'[d].before \in Rows /\ call'[d].op \in Ops
    BY DEF TypeOK, Begin, Idle
  <1> QED
    BY <1>1, <1>2, <1>4, <1>5 DEF TypeOK, Begin

LEMMA TypedStarts ==
    ASSUME TypeOK, NEW c \in Calls, CallStarts(c)
    PROVE  TypeOK'
  <1>1. CASE CreateInferenceService(c)
    <2>1. [Unchanged EXCEPT !.state = "pending"] \in Writes
      BY DEF Unchanged, Writes, States, Reportable
    <2> QED
      BY <1>1, <2>1, TypedBegin DEF CreateInferenceService, Ops
  <1>2. CASE ScaleInferenceService(c)
    <2>1. \A n \in Counts : [Unchanged EXCEPT !.replicas = n] \in Writes
      BY DEF Unchanged, Writes
    <2> QED
      BY <1>2, <2>1, TypedBegin DEF ScaleInferenceService, Ops
  <1>3. CASE UpdateInferenceServiceVersion(c)
    <2>1. \A v \in Versions :
            [Unchanged EXCEPT !.version = v, !.state = "deploying"] \in Writes
      BY DEF Unchanged, Writes, States, Reportable
    <2> QED
      BY <1>3, <2>1, TypedBegin DEF UpdateInferenceServiceVersion, Ops
  <1>4. CASE UpdateInferenceServiceTopology(c)
    <2>1. \A t \in Layouts, n \in Counts \cup {Keep} :
            [Unchanged EXCEPT !.layout = t, !.replicas = n, !.state = "pending"] \in Writes
      BY DEF Unchanged, Writes, States, Reportable
    <2> QED
      BY <1>4, <2>1, TypedBegin DEF UpdateInferenceServiceTopology, Ops
  <1>5. CASE UpdateInferenceServiceAutoscaling(c)
    <2>1. \A b \in BOOLEAN : [Unchanged EXCEPT !.autoscaled = b] \in Writes
      BY DEF Unchanged, Writes
    <2> QED
      BY <1>5, <2>1, TypedBegin DEF UpdateInferenceServiceAutoscaling, Ops
  <1>6. CASE RollbackDeployment(c)
    <2>1. \A d \in Diffs :
            [Unchanged EXCEPT !.version = d.version, !.replicas = d.replicas,
                              !.state = "deploying"] \in Writes
      BY DEF Unchanged, Writes, States, Reportable, Diffs
    <2>2. \A d \in trail : d \in Diffs
      BY DEF TypeOK
    <2> QED
      BY <1>6, <2>1, <2>2, TypedBegin DEF RollbackDeployment, Ops
  <1>7. CASE DeleteInferenceService(c)
    <2>1. [Unchanged EXCEPT !.state = "terminated"] \in Writes
      BY DEF Unchanged, Writes, States, Reportable
    <2> QED
      BY <1>7, <2>1, TypedBegin DEF DeleteInferenceService, Ops
  <1> QED
    BY <1>1, <1>2, <1>3, <1>4, <1>5, <1>6, <1>7 DEF CallStarts

\* A returned call leaves the others as they were.
LEMMA ReturnTyped ==
    ASSUME TypeOK, NEW c \in Calls, Return(c)
    PROVE  /\ call' \in [Calls -> CallType]
           /\ \A d \in Calls : ~Idle(d)' => call'[d].before \in Rows /\ call'[d].op \in Ops
  BY UnchangedTyped DEF TypeOK, Return, Idle

LEMMA FaultTyped ==
    ASSUME TypeOK, Fault \/ NoFault
    PROVE  faults' \in 0 .. MaxFaults
  BY ConstantsAssumption DEF TypeOK, Fault, NoFault

LEMMA BeforeSideTyped ==
    ASSUME TypeOK, NEW c \in Calls, ~Idle(c)
    PROVE  BeforeSide(c) \in Diffs
  <1>1. call[c].before \in Rows /\ Merge(call[c].before, call[c].write) \in Rows
    BY MergeTyped DEF TypeOK, CallType
  <1>2. AfterSide(c) \in Rows
    BY <1>1 DEF AfterSide, TypeOK
  <1> QED
    BY <1>1, <1>2, DiffTyped DEF BeforeSide

LEMMA TypedCalls ==
    ASSUME TypeOK, CountInv, NEW c \in Calls, CallProceeds(c)
    PROVE  TypeOK'
  <1>1. CASE Commit(c)
    <2>1. row' \in Rows
      BY <1>1, MergeTyped DEF TypeOK, CallType, Commit, Idle
    <2>2. call' \in [Calls -> CallType]
      BY <1>1 DEF TypeOK, CallType, Commit, Goto
    <2>3. \A d \in Calls : ~Idle(d)' => call'[d].before \in Rows /\ call'[d].op \in Ops
      BY <1>1 DEF TypeOK, CallType, Commit, Goto, Idle
    <2> QED
      BY <1>1, <2>1, <2>2, <2>3, FaultTyped DEF TypeOK, Commit
  <1>2. CASE DuplicateName(c)
    BY <1>2, ReturnTyped DEF TypeOK, DuplicateName
  <1>3. CASE CommitFails(c)
    BY <1>3, ReturnTyped, FaultTyped DEF TypeOK, CommitFails
  <1>4. CASE PublishChange(c)
    <2>1. ~Idle(c) /\ call[c].op \in Ops
      BY <1>4 DEF PublishChange, Idle, TypeOK
    <2>2. EventOf(c) \in Events
      BY <2>1, EventTyped, ConstantsAssumption DEF TypeOK
    <2>3. changes' \in Seq(Events)
      BY <1>4, <2>2, PushBack DEF TypeOK, PublishChange
    <2>4. last' \in [op : Ops \cup {"none"}, evt : Events \cup {NoEvent}]
      BY <1>4, <2>1, <2>2 DEF PublishChange
    <2>5. trail' \subseteq Diffs /\ (Fault \/ NoFault)
      BY <1>4, <2>1, BeforeSideTyped DEF TypeOK, PublishChange, RecordLifecycleEvent
    <2> QED
      BY <1>4, <2>3, <2>4, <2>5, ReturnTyped, FaultTyped DEF TypeOK, PublishChange
  <1>5. CASE PublishFails(c)
    <2>1. ~Idle(c)
      BY <1>5 DEF PublishFails, Idle
    <2>2. row' \in Rows
      BY <1>5 DEF TypeOK, PublishFails, Rows, States
    <2>3. trail' \subseteq Diffs
      BY <1>5, <2>1, BeforeSideTyped DEF TypeOK, PublishFails
    <2> QED
      BY <1>5, <2>2, <2>3, ReturnTyped, FaultTyped DEF TypeOK, PublishFails
  <1> QED
    BY <1>1, <1>2, <1>3, <1>4, <1>5 DEF CallProceeds

LEMMA PublishTyped ==
    ASSUME TypeOK, NEW s \in Reportable, Publish(s)
    PROVE  reports' \in Seq(Reportable) /\ faults' \in 0 .. MaxFaults
  <1>1. CASE Room /\ reports' = Append(reports, s) /\ NoFault
    BY <1>1, PushBack, FaultTyped DEF TypeOK
  <1>2. CASE UNCHANGED reports /\ Fault
    BY <1>2, FaultTyped DEF TypeOK
  <1> QED
    BY <1>1, <1>2 DEF Publish

Hand == [pc : {"idle", "applying", "scaling", "waiting", "started", "failing"},
         evt : Events \cup {NoEvent}]

LEMMA HandTyped ==
    ASSUME TypeOK
    PROVE  /\ CtlDone => ctl' \in Hand /\ ctl'.pc = "idle"
           /\ \A pc \in {"scaling", "waiting", "started", "failing"} :
                CtlGoto(pc) => ctl' \in Hand /\ ctl'.evt = ctl.evt /\ ctl'.pc = pc
  BY DEF TypeOK, Hand, CtlDone, CtlGoto

Bearable == [storm : Specs \cup {Nothing}, scaler : BOOLEAN]

\* What the controller leaves behind is typed; it makes no call.
LEMMA ControllerTyped ==
    ASSUME TypeOK, UNCHANGED callVars,
           row' \in Rows, changes' \in Seq(Events), cluster' \in Bearable,
           ctl' \in Hand, ctl'.pc # "idle" => ctl'.evt \in Events,
           reports' \in Seq(Reportable), told' \subseteq Ids, lost' \subseteq Ids,
           faults' \in 0 .. MaxFaults
    PROVE  TypeOK'
  <1>1. /\ call' \in [Calls -> CallType]
        /\ \A d \in Calls : ~Idle(d)' => call'[d].before \in Rows /\ call'[d].op \in Ops
    BY DEF TypeOK, callVars, Idle
  <1>2. trail' = trail /\ last' = last /\ overlap' = overlap /\ ops' = ops
    BY DEF callVars
  <1> QED
    BY <1>1, <1>2 DEF TypeOK, Bearable, Hand

LEMMA AsBefore ==
    ASSUME TypeOK
    PROVE  /\ row \in Rows /\ changes \in Seq(Events) /\ cluster \in Bearable
           /\ ctl \in Hand /\ (ctl.pc # "idle" => ctl.evt \in Events)
           /\ reports \in Seq(Reportable) /\ told \subseteq Ids /\ lost \subseteq Ids
           /\ faults \in 0 .. MaxFaults
  BY DEF TypeOK, Bearable, Hand

LEMMA DeletedTyped ==
    ASSUME TypeOK, DeleteScaler
    PROVE  faults' \in 0 .. MaxFaults
  BY FaultTyped DEF DeleteScaler

\* What ApplyScaler does to the cluster.
LEMMA ScalerCases ==
    ASSUME ApplyScaler
    PROVE  \/ cluster' = [cluster EXCEPT !.scaler = TRUE]
           \/ \E s \in {FALSE, cluster.scaler} : cluster' = [cluster EXCEPT !.scaler = s]
  BY DEF ApplyScaler

LEMMA TypedReconcile ==
    ASSUME TypeOK, Reconcile
    PROVE  TypeOK'
  <1>1. CASE ApplyDelete
    <2>1. changes' \in Seq(Events)
      BY <1>1, SplitHead DEF TypeOK, ApplyDelete, NextIs
    <2>2. cluster' \in Bearable
      <3>1. PICK s \in {FALSE, cluster.scaler} : cluster' = [storm |-> Nothing, scaler |-> s]
        BY <1>1 DEF ApplyDelete
      <3> QED
        BY <3>1, AsBefore DEF Bearable
    <2> QED
      BY <1>1, <2>1, <2>2, DeletedTyped, AsBefore, ControllerTyped DEF ApplyDelete
  <1>2. CASE ReportQueued
    <2>1. changes' \in Seq(Events) /\ Head(changes) \in Events
      BY <1>2, SplitHead DEF TypeOK, ReportQueued, NextIs
    <2>2. ctl' \in Hand /\ ctl'.evt \in Events
      BY <1>2, <2>1 DEF ReportQueued, Hand
    <2>3. reports' \in Seq(Reportable) /\ faults' \in 0 .. MaxFaults
      BY <1>2, PublishTyped DEF ReportQueued, Reportable
    <2> QED
      BY <1>2, <2>1, <2>2, <2>3, AsBefore, ControllerTyped DEF ReportQueued
  <1>3. CASE ApplyStorm
    <2>1. cluster' \in Bearable
      BY <1>3, AsBefore DEF Bearable, ApplyStorm, Events
    <2> QED
      BY <1>3, <2>1, HandTyped, AsBefore, ControllerTyped DEF ApplyStorm
  <1>4. CASE ApplyScaler
    <2>1. cluster' \in Bearable
      BY <1>4, AsBefore, ScalerCases DEF Bearable
    <2>2. ctl' \in Hand /\ ctl'.evt = ctl.evt
      BY <1>4, HandTyped DEF ApplyScaler
    <2>3. faults' \in 0 .. MaxFaults
      BY <1>4, DeletedTyped, FaultTyped DEF ApplyScaler
    <2> QED
      BY <1>4, <2>1, <2>2, <2>3, AsBefore, ControllerTyped DEF ApplyScaler
  <1>5. CASE ReportStarting
    <2>1. reports' \in Seq(Reportable) /\ faults' \in 0 .. MaxFaults
      BY <1>5, PublishTyped DEF ReportStarting, Reportable, TypeOK
    <2> QED
      BY <1>5, <2>1, HandTyped, AsBefore, ControllerTyped DEF ReportStarting
  <1>6. CASE ReportRunning
    <2>1. reports' \in Seq(Reportable) /\ faults' \in 0 .. MaxFaults
      BY <1>6, PublishTyped DEF ReportRunning, Reportable
    <2> QED
      BY <1>6, <2>1, HandTyped, AsBefore, ControllerTyped DEF ReportRunning
  <1>7. CASE ReconcileFails
    BY <1>7, AsBefore, HandTyped, ControllerTyped DEF ReconcileFails
  <1>8. CASE ReportFailure
    <2>1. reports' \in Seq(Reportable)
      BY <1>8, PushBack DEF TypeOK, ReportFailure, Reportable
    <2>2. told' \subseteq Ids
      BY <1>8 DEF TypeOK, ReportFailure, Events
    <2> QED
      BY <1>8, <2>1, <2>2, HandTyped, AsBefore, ControllerTyped DEF ReportFailure
  <1>9. CASE ReportFailureFails
    <2>1. changes' \in Seq(Events)
      BY <1>9, PushFront DEF TypeOK, ReportFailureFails
    <2> QED
      BY <1>9, <2>1, HandTyped, FaultTyped, AsBefore, ControllerTyped DEF ReportFailureFails
  <1> QED
    BY <1>1, <1>2, <1>3, <1>4, <1>5, <1>6, <1>7, <1>8, <1>9 DEF Reconcile

LEMMA TypedNext ==
    ASSUME TypeOK, CountInv, [Next]_vars
    PROVE  TypeOK'
  <1>1. CASE LoseChanges
    <2>1. changes' \in Seq(Events)
      BY <1>1 DEF LoseChanges
    <2>2. lost' \subseteq Ids
      <3>1. \A i \in 1 .. Len(Outstanding) : Outstanding[i].id \in Ids
        <4> SUFFICES ASSUME NEW i \in 1 .. Len(Outstanding)
                     PROVE  Outstanding[i].id \in Ids
          OBVIOUS
        <4>1. Outstanding[i] \in Events
          BY OutstandingTyped
        <4> QED
          BY <4>1 DEF Events
      <3> QED
        BY <1>1, <3>1 DEF LoseChanges, TypeOK
    <2> QED
      BY <1>1, <2>1, <2>2, AsBefore, HandTyped, FaultTyped, ControllerTyped DEF LoseChanges
  <1>2. CASE ApplyStatus
    <2>1. PICK i \in 1 .. Len(reports) :
             /\ row' = [row EXCEPT !.state = reports[i]]
             /\ reports' = SubSeq(reports, 1, i - 1) \o SubSeq(reports, i + 1, Len(reports))
             /\ UNCHANGED <<changes, ctl, cluster, told, lost, faults, callVars>>
      BY <1>2 DEF ApplyStatus
    <2>2. reports[i] \in States
      BY DEF TypeOK, States
    <2>3. row' \in Rows
      BY <2>1, <2>2 DEF TypeOK, Rows
    <2>4. reports' \in Seq(Reportable)
      BY <2>1, RemoveOne DEF TypeOK
    <2> QED
      BY <2>1, <2>3, <2>4, AsBefore, ControllerTyped
  <1>3. CASE LoseReports
    <2>1. reports' \in Seq(Reportable)
      BY <1>3 DEF LoseReports
    <2> QED
      BY <1>3, <2>1, AsBefore, FaultTyped, ControllerTyped DEF LoseReports
  <1>4. CASE UNCHANGED vars
    BY <1>4 DEF TypeOK, vars, Idle
  <1> QED
    BY <1>1, <1>2, <1>3, <1>4, TypedStarts, TypedCalls, TypedReconcile DEF Next

-----------------------------------------------------------------------------
(* The numbers of the changes. *)

LEMMA BusyFinite == IsFiniteSet(Busy) /\ Cardinality(Busy) \in Nat
  BY ConstantsAssumption, FS_Subset, FS_CardinalityType DEF Busy

\* A call that returns makes room for one number.
LEMMA BusyReturn ==
    ASSUME TypeOK, NEW c \in Calls, ~Idle(c), Return(c)
    PROVE  Cardinality(Busy') = Cardinality(Busy) - 1
  <1>1. \A d \in Calls : call'[d] = IF d = c THEN NoCall ELSE call[d]
    BY DEF TypeOK, Return
  <1>2. Busy' = Busy \ {c} /\ c \in Busy
    BY <1>1, UnchangedTyped DEF Busy, Idle
  <1> QED
    BY <1>2, BusyFinite, FS_RemoveElement

LEMMA LastTyped ==
    ASSUME TypeOK
    PROVE  last.evt.id \in Nat /\ ops \in Nat /\ ops <= MaxOps
  BY ConstantsAssumption DEF TypeOK, Events, NoEvent, Ids

LEMMA CountBegin ==
    ASSUME TypeOK, CountInv, NEW c \in Calls, CallStarts(c)
    PROVE  CountInv'
  <1>0. PICK op \in Ops : \E w : Begin(c, op, w)
    BY DEF CallStarts, CreateInferenceService, ScaleInferenceService,
           UpdateInferenceServiceVersion, UpdateInferenceServiceTopology,
           UpdateInferenceServiceAutoscaling, RollbackDeployment,
           DeleteInferenceService, Ops
  <1>1. PICK w : Begin(c, op, w)
    BY <1>0
  <1>2. \A d \in Calls : d # c => call'[d] = call[d]
    BY <1>1 DEF TypeOK, Begin
  <1>3. Idle(c) /\ call'[c].pc = "read"
    BY <1>1 DEF TypeOK, Begin, Free
  <1>4. Busy' = Busy \cup {c} /\ c \notin Busy
    BY <1>2, <1>3 DEF Busy, Idle
  <1>5. Cardinality(Busy') = Cardinality(Busy) + 1
    BY <1>4, BusyFinite, FS_AddElement
  <1>6. ops' = ops + 1 /\ last' = last
    BY <1>1 DEF Begin
  <1> QED
    BY <1>5, <1>6, BusyFinite, LastTyped DEF CountInv

LEMMA CountCalls ==
    ASSUME TypeOK, CountInv, NEW c \in Calls, CallProceeds(c)
    PROVE  CountInv'
  <1>1. CASE Commit(c)
    <2>1. \A d \in Calls : Idle(d)' <=> Idle(d)
      BY <1>1 DEF TypeOK, Commit, Goto, Idle
    <2>2. Busy' = Busy
      BY <2>1 DEF Busy
    <2> QED
      BY <1>1, <2>2 DEF CountInv, Commit
  <1>2. CASE DuplicateName(c) \/ CommitFails(c) \/ PublishFails(c)
    <2>1. ~Idle(c) /\ Return(c) /\ last' = last /\ ops' = ops
      BY <1>2 DEF DuplicateName, CommitFails, PublishFails, Idle
    <2> QED
      BY <2>1, BusyReturn, BusyFinite, LastTyped DEF CountInv
  <1>3. CASE PublishChange(c)
    <2>1. ~Idle(c) /\ Return(c) /\ last'.evt = EventOf(c) /\ ops' = ops
      BY <1>3 DEF PublishChange, Idle
    <2>2. last'.evt.id = last.evt.id + 1
      BY <2>1, EventTyped, LastTyped
    <2> QED
      BY <2>1, <2>2, BusyReturn, BusyFinite, LastTyped DEF CountInv
  <1> QED
    BY <1>1, <1>2, <1>3 DEF CallProceeds

LEMMA CountNext ==
    ASSUME TypeOK, CountInv, [Next]_vars
    PROVE  CountInv'
  <1>1. CASE UNCHANGED <<call, last, ops>>
    BY <1>1 DEF CountInv, Busy, Idle
  <1>2. Reconcile \/ LoseChanges \/ ApplyStatus \/ LoseReports \/ UNCHANGED vars
          => UNCHANGED <<call, last, ops>>
    BY DEF Reconcile, ApplyDelete, ReportQueued, ApplyStorm, ApplyScaler,
           ReportStarting, ReportRunning, ReconcileFails, ReportFailure,
           ReportFailureFails, LoseChanges, ApplyStatus, LoseReports, callVars, vars
  <1> QED
    BY <1>1, <1>2, CountBegin, CountCalls DEF Next

-----------------------------------------------------------------------------
(* What a step does to the stream of changes. *)

Stays == UNCHANGED <<Outstanding, cluster.storm, told, lost>>

\* The oldest change leaves.
Leaves == Outstanding # <<>> /\ Outstanding' = Tail(Outstanding)

LEMMA CallsStream ==
    ASSUME TypeOK, CountInv, NEW c \in Calls, CallStarts(c) \/ CallProceeds(c)
    PROVE  \/ Stays /\ last' = last
           \/ /\ PublishChange(c)
              /\ Outstanding' = Append(Outstanding, EventOf(c))
              /\ UNCHANGED <<cluster.storm, told, lost>>
  <1>1. CASE PublishChange(c)
    <2>1. EventOf(c) \in Events
      BY <1>1, EventTyped, LastTyped DEF PublishChange, Idle
    <2>2. changes' = Append(changes, EventOf(c)) /\ ctl' = ctl
      BY <1>1 DEF PublishChange
    <2>3. Outstanding' = Append(Outstanding, EventOf(c))
      BY <2>1, <2>2, PushBoth DEF Outstanding, TypeOK
    <2> QED
      BY <1>1, <2>3 DEF PublishChange
  <1>2. CASE CallStarts(c)
    <2>1. UNCHANGED <<changes, ctl, cluster, told, lost, last>>
      BY <1>2 DEF CallStarts, CreateInferenceService, ScaleInferenceService,
             UpdateInferenceServiceVersion, UpdateInferenceServiceTopology,
             UpdateInferenceServiceAutoscaling, RollbackDeployment,
             DeleteInferenceService, Begin
    <2> QED
      BY <2>1 DEF Stays, Outstanding
  <1>3. CASE Commit(c) \/ DuplicateName(c) \/ CommitFails(c) \/ PublishFails(c)
    BY <1>3 DEF Commit, DuplicateName, CommitFails, PublishFails, Stays, Outstanding
  <1> QED
    BY <1>1, <1>2, <1>3 DEF CallProceeds

\* The step of the abstract stream behind a step of the controller.
Moves ==
    \/ Stays
    \/ /\ Outstanding # <<>>
       /\ cluster'.storm = Outstanding[1].spec
       /\ UNCHANGED <<Outstanding, told, lost>>
    \/ /\ Leaves
       /\ told' = told \cup {Outstanding[1].id}
       /\ UNCHANGED <<cluster.storm, lost>>
    \/ /\ Leaves
       /\ cluster.storm = Outstanding[1].spec
       /\ UNCHANGED <<cluster.storm, told, lost>>
    \/ /\ Leaves
       /\ cluster'.storm = Outstanding[1].spec
       /\ UNCHANGED <<told, lost>>
    \/ /\ Outstanding # <<>> /\ Outstanding' = <<>>
       /\ lost' = lost \cup {Outstanding[i].id : i \in 1 .. Len(Outstanding)}
       /\ UNCHANGED <<cluster.storm, told>>

\* With a change in hand, it is the oldest.
LEMMA InHand ==
    ASSUME TypeOK, ctl.pc # "idle"
    PROVE  /\ Outstanding # <<>>
           /\ Outstanding[1] = ctl.evt
           /\ Tail(Outstanding) = changes
  BY PushFront DEF TypeOK, Outstanding

LEMMA ScalerKeepsStorm ==
    ASSUME TypeOK, ApplyScaler
    PROVE  cluster'.storm = cluster.storm
  BY ScalerCases DEF TypeOK

LEMMA ControllerStream ==
    ASSUME TypeOK, ServedInv, Reconcile \/ LoseChanges \/ ApplyStatus \/ LoseReports
    PROVE  Moves /\ ServedInv'
  <1>1. CASE ApplyDelete
    <2>1. ctl.pc = "idle" /\ ctl' = ctl /\ changes # <<>> /\ changes' = Tail(changes)
      BY <1>1 DEF ApplyDelete, NextIs
    <2>2. Head(changes).spec = Nothing /\ cluster'.storm = Nothing /\ told' = told /\ lost' = lost
      BY <1>1 DEF ApplyDelete, NextIs
    <2>3. Outstanding = changes /\ Outstanding' = changes' /\ changes[1] = Head(changes)
      BY <2>1, SplitHead DEF Outstanding, TypeOK
    <2> QED
      BY <2>1, <2>2, <2>3 DEF Moves, Leaves, ServedInv
  <1>2. CASE ReportQueued
    <2>1. /\ ctl.pc = "idle" /\ changes # <<>> /\ changes' = Tail(changes)
          /\ ctl'.pc = "applying" /\ ctl'.evt = Head(changes)
          /\ cluster' = cluster /\ told' = told /\ lost' = lost
      BY <1>2 DEF ReportQueued, NextIs
    <2>2. Outstanding' = Outstanding
      BY <2>1, SplitHead DEF Outstanding, TypeOK
    <2> QED
      BY <2>1, <2>2 DEF Moves, Stays, ServedInv
  <1>3. CASE ApplyStorm
    <2>1. /\ ctl.pc # "idle" /\ ctl'.pc = "scaling" /\ ctl'.evt = ctl.evt
          /\ cluster'.storm = ctl.evt.spec /\ changes' = changes /\ told' = told /\ lost' = lost
      BY <1>3 DEF TypeOK, ApplyStorm, CtlGoto
    <2>2. Outstanding' = Outstanding
      BY <2>1 DEF Outstanding
    <2> QED
      BY <2>1, <2>2, InHand DEF Moves, ServedInv
  <1>4. CASE ApplyScaler \/ ReportStarting \/ ReconcileFails
    <2>1. /\ ctl.pc # "idle" /\ ctl'.pc \in {"waiting", "started", "failing"}
          /\ ctl'.evt = ctl.evt /\ changes' = changes /\ told' = told /\ lost' = lost
      BY <1>4, HandTyped DEF ApplyScaler, ReportStarting, ReconcileFails
    <2>2. cluster'.storm = cluster.storm
      BY <1>4, ScalerKeepsStorm DEF ReportStarting, ReconcileFails
    <2>3. ctl'.pc # "failing" => ctl.pc \in {"scaling", "waiting"}
      BY <1>4, HandTyped DEF TypeOK, ApplyScaler, ReportStarting, ReconcileFails, CtlGoto
    <2>4. Outstanding' = Outstanding
      BY <2>1 DEF Outstanding
    <2> QED
      BY <2>1, <2>2, <2>3, <2>4 DEF Moves, Stays, ServedInv
  <1>5. CASE ReportRunning
    <2>1. ctl.pc = "started" /\ ctl'.pc = "idle" /\ UNCHANGED <<changes, cluster, told, lost>>
      BY <1>5, HandTyped DEF ReportRunning
    <2>2. Outstanding' = changes
      BY <2>1 DEF Outstanding
    <2> QED
      BY <2>1, <2>2, InHand DEF Moves, Leaves, ServedInv
  <1>6. CASE ReportFailure
    <2>1. /\ ctl.pc = "failing" /\ ctl'.pc = "idle" /\ UNCHANGED <<changes, cluster, lost>>
          /\ told' = told \cup {ctl.evt.id}
      BY <1>6, HandTyped DEF ReportFailure
    <2>2. Outstanding' = changes
      BY <2>1 DEF Outstanding
    <2> QED
      BY <2>1, <2>2, InHand DEF Moves, Leaves, ServedInv
  <1>7. CASE ReportFailureFails
    <2>1. /\ ctl.pc = "failing" /\ ctl'.pc = "idle" /\ UNCHANGED <<cluster, told, lost>>
          /\ changes' = <<ctl.evt>> \o changes
      BY <1>7, HandTyped DEF ReportFailureFails
    <2>2. Outstanding' = Outstanding
      BY <2>1 DEF Outstanding
    <2> QED
      BY <2>1, <2>2 DEF Moves, Stays, ServedInv
  <1>8. CASE LoseChanges
    <2>1. changes' = <<>> /\ ctl'.pc = "idle" /\ UNCHANGED <<cluster, told>>
      BY <1>8, HandTyped DEF LoseChanges
    <2>2. Outstanding' = <<>>
      BY <2>1 DEF Outstanding
    <2> QED
      BY <1>8, <2>1, <2>2 DEF Moves, ServedInv, LoseChanges
  <1>9. CASE ApplyStatus \/ LoseReports
    <2>1. UNCHANGED <<changes, ctl, cluster, told, lost>>
      BY <1>9 DEF ApplyStatus, LoseReports
    <2> QED
      BY <2>1 DEF Moves, Stays, ServedInv, Outstanding
  <1> QED
    BY <1>1, <1>2, <1>3, <1>4, <1>5, <1>6, <1>7, <1>8, <1>9 DEF Reconcile

LEMMA ServedNext ==
    ASSUME TypeOK, ServedInv, [Next]_vars
    PROVE  ServedInv'
  <1>1. CASE UNCHANGED <<ctl, cluster>>
    BY <1>1 DEF ServedInv
  <1>2. ASSUME NEW c \in Calls, CallStarts(c) \/ CallProceeds(c)
        PROVE  UNCHANGED <<ctl, cluster>>
    BY <1>2 DEF CallStarts, CreateInferenceService, ScaleInferenceService,
           UpdateInferenceServiceVersion, UpdateInferenceServiceTopology,
           UpdateInferenceServiceAutoscaling, RollbackDeployment,
           DeleteInferenceService, Begin, CallProceeds, Commit, DuplicateName,
           CommitFails, PublishChange, PublishFails
  <1> QED
    BY <1>1, <1>2, ControllerStream DEF Next, vars

LEMMA IdNext ==
    ASSUME TypeOK, CountInv, IdInv, ServedInv, [Next]_vars
    PROVE  IdInv'
  <1> DEFINE Out == Outstanding
  <1>1. Out \in Seq(Events) /\ last.evt.id \in Nat
    BY OutstandingTyped, LastTyped
  <1>2. CASE last' = last /\ UNCHANGED <<Outstanding, told, lost>>
    BY <1>2 DEF IdInv
  <1>3. CASE /\ last' = last /\ Leaves /\ lost' = lost
             /\ told' \subseteq told \cup {Outstanding[1].id}
    <2>1. /\ Len(Outstanding') = Len(Out) - 1
          /\ \A i \in 1 .. Len(Outstanding') : Outstanding'[i] = Out[i + 1]
          /\ 1 \in 1 .. Len(Out)
      BY <1>1, <1>3, HeadTailProperties DEF Leaves
    <2> QED
      BY <1>1, <1>3, <2>1 DEF IdInv
  <1>4. CASE /\ last' = last /\ Outstanding' = <<>> /\ told' = told
             /\ lost' = lost \cup {Out[i].id : i \in 1 .. Len(Out)}
    BY <1>4 DEF IdInv
  <1>5. ASSUME NEW c \in Calls, PublishChange(c),
               Outstanding' = Append(Outstanding, EventOf(c)),
               UNCHANGED <<told, lost>>
        PROVE  IdInv'
    <2>1. EventOf(c) \in Events /\ EventOf(c).id = last.evt.id + 1
      BY <1>5, EventTyped, LastTyped DEF PublishChange, Idle
    <2>2. last'.evt.id = last.evt.id + 1
      BY <1>5, <2>1 DEF PublishChange
    <2>3. /\ Len(Outstanding') = Len(Out) + 1
          /\ Outstanding'[Len(Out) + 1] = EventOf(c)
          /\ \A i \in 1 .. Len(Out) : Outstanding'[i] = Out[i]
      BY <1>1, <1>5, <2>1, PushBack
    <2>4. \A i \in 1 .. Len(Out) : Out[i].id \in Nat /\ Out[i].id <= last.evt.id
      BY WaitingBelow
    <2>5. \A i \in 1 .. Len(Outstanding') : i \in 1 .. Len(Out) \/ i = Len(Out) + 1
      BY <1>1, <2>3
    <2>6. \A i \in 1 .. Len(Outstanding') : Outstanding'[i].id <= last'.evt.id
      BY <1>1, <2>1, <2>2, <2>3, <2>4, <2>5
    <2>7. \A n \in told' \cup lost' : n <= last'.evt.id
      <3> SUFFICES ASSUME NEW n \in told' \cup lost' PROVE n <= last'.evt.id
        OBVIOUS
      <3>1. n \in Nat /\ n <= last.evt.id
        BY <1>5 DEF IdInv, TypeOK, Ids
      <3> QED
        BY <1>1, <2>2, <3>1
    <2> QED
      BY <2>6, <2>7 DEF IdInv
  <1>6. Reconcile \/ LoseChanges \/ ApplyStatus \/ LoseReports => last' = last
    BY DEF Reconcile, ApplyDelete, ReportQueued, ApplyStorm, ApplyScaler,
           ReportStarting, ReportRunning, ReconcileFails, ReportFailure,
           ReportFailureFails, LoseChanges, ApplyStatus, LoseReports, callVars
  <1>7. UNCHANGED vars => last' = last /\ UNCHANGED <<Outstanding, told, lost>>
    BY DEF vars, Outstanding
  <1>8. CASE Reconcile \/ LoseChanges \/ ApplyStatus \/ LoseReports
    BY <1>2, <1>3, <1>4, <1>6, <1>8, ControllerStream DEF Moves, Stays
  <1>9. CASE \E c \in Calls : CallStarts(c) \/ CallProceeds(c)
    BY <1>2, <1>5, <1>9, CallsStream DEF Stays
  <1> QED
    BY <1>2, <1>7, <1>8, <1>9 DEF Next

-----------------------------------------------------------------------------
(* The theorems. *)

LEMMA InitInvariant == Init => IInv
  <1> SUFFICES ASSUME Init PROVE IInv
    OBVIOUS
  <1>1. TypeOK
    BY TypedInit
  <1>2. CountInv
    <2>1. Busy = {}
      BY UnchangedTyped DEF Init, Busy, Idle
    <2>2. last.evt.id = 0 /\ ops = 0
      BY DEF Init, Fresh, Established, NoEvent
    <2> QED
      BY <2>1, <2>2, FS_EmptySet DEF CountInv
  <1>3. IdInv
    BY DEF Init, IdInv, Outstanding
  <1>4. ServedInv
    BY DEF Init, ServedInv
  <1> QED
    BY <1>1, <1>2, <1>3, <1>4 DEF IInv

LEMMA NextInvariant == IInv /\ [Next]_vars => IInv'
  BY TypedNext, CountNext, IdNext, ServedNext DEF IInv

LEMMA Invariant == Spec => []IInv
  BY InitInvariant, NextInvariant, PTL DEF Spec

\* TypeOK: whatever the calls, the queues and the failures do, the row, the
\* queues and the cluster keep their types, and no number of a change passes
\* the number of calls.
THEOREM TypeCorrect == Spec => []TypeOK
<1>1. IInv => TypeOK
  BY DEF IInv
<1> QED
  BY <1>1, Invariant, PTL

LEMMA InitStream == Init => Stream!Init
  <1> SUFFICES ASSUME Init PROVE Stream!Init
    OBVIOUS
  <1>1. NoEvent \in Events /\ NoEvent.spec = Nothing
    BY ConstantsAssumption DEF NoEvent, Events, Ids
  <1>2. cluster.storm \in {e.spec : e \in Events}
    <2>1. CASE Fresh
      BY <1>1, <2>1 DEF Fresh
    <2>2. CASE Established
      <3>1. last.evt \in Events /\ last.evt.spec = cluster.storm
        <4>1. TypeOK
          BY TypedInit
        <4>2. NoEvent \in Events
          BY <1>1
        <4> QED
          BY <2>2, <4>1, <4>2 DEF TypeOK, Established
      <3> QED
        BY <3>1
    <2> QED
      BY <2>1, <2>2 DEF Init
  <1> QED
    BY <1>2 DEF Init, Stream!Init, Outstanding

LEMMA NextStream == IInv /\ [Next]_vars => [Stream!Next]_(Stream!svars)
  <1> SUFFICES ASSUME IInv, [Next]_vars PROVE [Stream!Next]_(Stream!svars)
    OBVIOUS
  <1>1. TypeOK /\ CountInv /\ IdInv /\ ServedInv
    BY DEF IInv
  <1>2. Stays => UNCHANGED Stream!svars
    BY DEF Stays, Stream!svars
  <1>3. Moves => [Stream!Next]_(Stream!svars)
    BY <1>2 DEF Moves, Leaves, Stream!Next, Stream!Serve, Stream!Reject,
                Stream!Finish, Stream!ServeAndFinish, Stream!Lose,
                Stream!Ids
  <1>4. CASE Reconcile \/ LoseChanges \/ ApplyStatus \/ LoseReports
    BY <1>1, <1>3, <1>4, ControllerStream
  <1>5. CASE UNCHANGED vars
    BY <1>2, <1>5 DEF vars, Stays, Outstanding
  <1>6. ASSUME NEW c \in Calls, CallStarts(c) \/ CallProceeds(c)
        PROVE  [Stream!Next]_(Stream!svars)
    <2>1. CASE Stays
      BY <1>2, <2>1
    <2>2. CASE /\ PublishChange(c)
               /\ Outstanding' = Append(Outstanding, EventOf(c))
               /\ UNCHANGED <<cluster.storm, told, lost>>
      <3>1. EventOf(c) \in Events /\ EventOf(c).id = last.evt.id + 1
        BY <1>1, <2>2, EventTyped, LastTyped DEF PublishChange, Idle
      <3>2. Outstanding \in Seq(Events) /\ last.evt.id \in Nat
        BY <1>1, OutstandingTyped, LastTyped
      <3>3. \A i \in 1 .. Len(Outstanding) :
              Outstanding[i].id \in Nat /\ Outstanding[i].id <= last.evt.id
        BY <1>1, WaitingBelow
      <3>4. \A i \in 1 .. Len(Outstanding) : Outstanding[i].id # EventOf(c).id
        BY <3>1, <3>2, <3>3
      <3>5. EventOf(c).id \notin told \cup lost
        BY <1>1, <3>1, <3>2 DEF IdInv, TypeOK, Ids
      <3>6. Stream!Accept(EventOf(c))
        BY <2>2, <3>4, <3>5 DEF Stream!Accept, Stream!Ids
      <3> QED
        BY <3>1, <3>6 DEF Stream!Next
    <2> QED
      BY <1>1, <1>6, <2>1, <2>2, CallsStream
  <1> QED
    BY <1>4, <1>5, <1>6 DEF Next

\* ChangesInOrder: the publishers, the queue and the controller implement the
\* change stream: the cluster takes changes one at a time in the order the
\* broker accepted them, and none ends unserved without a failed report.
THEOREM ImplementsChangeStream == Spec => ChangesInOrder
<1>1. Spec => Init /\ [][Next]_vars
  BY DEF Spec
<1> QED
  BY <1>1, Invariant, InitStream, NextStream, PTL DEF ChangesInOrder, Stream!Spec

-----------------------------------------------------------------------------
(* Calls that do not overlap.  The invariant, in named parts. *)

\* The rows of a service that differ in nothing a change carries.
Alike(r, s) ==
    r.version = s.version /\ r.replicas = s.replicas /\ r.layout = s.layout

OneCall == ~overlap => \A c, d \in Calls : Idle(c) \/ Idle(d) \/ c = d

\* The last change accepted is the last one waiting, or runs, or was reported
\* or lost, whatever failed and whichever calls overlapped.
LastServed ==
    IF Outstanding = <<>>
    THEN last.evt.id \in told \cup lost \/ cluster.storm = last.evt.spec
    ELSE Outstanding[Len(Outstanding)] = last.evt

\* A call's row is still the one it read, or the one it wrote; between calls
\* it is the one the last change was made from.
CallFollowsRow ==
    faults = 0 /\ ~overlap => \A c \in Calls :
        /\ call[c].pc = "read" => Alike(row, call[c].before)
        /\ call[c].pc = "committed" =>
             Alike(row, Merge(call[c].before, call[c].write))

LastFollowsRow ==
    /\ faults = 0 /\ ~overlap
    /\ \A c \in Calls : call[c].pc # "committed"
    /\ last.op \notin {"none", "delete"}
    => last.evt.spec = SpecOf(last.op, row)

SerialInv == IInv /\ OneCall /\ LastServed /\ CallFollowsRow /\ LastFollowsRow

LEMMA AlikeSpec ==
    ASSUME NEW r, NEW s, Alike(r, s)
    PROVE  \A op : SpecOf(op, r) = SpecOf(op, s)
  BY DEF Alike, SpecOf

LEMMA AlikeMerge ==
    ASSUME NEW r, NEW s, Alike(r, s), NEW w
    PROVE  Alike(Merge(r, w), Merge(s, w))
  BY DEF Alike, Merge

\* Faults are counted, and never forgotten.
LEMMA FaultCount ==
    ASSUME TypeOK, [Next]_vars
    PROVE  Fault \/ faults' = faults
  <1>1. ASSUME NEW c \in Calls, CallStarts(c) PROVE faults' = faults
    BY <1>1 DEF CallStarts, CreateInferenceService, ScaleInferenceService,
           UpdateInferenceServiceVersion, UpdateInferenceServiceTopology,
           UpdateInferenceServiceAutoscaling, RollbackDeployment,
           DeleteInferenceService, Begin
  <1>2. ASSUME NEW c \in Calls, CallProceeds(c) PROVE Fault \/ faults' = faults
    BY <1>2 DEF CallProceeds, Commit, DuplicateName, CommitFails, PublishChange,
           PublishFails, RecordLifecycleEvent, NoFault
  <1>3. Reconcile => Fault \/ faults' = faults
    BY DEF Reconcile, ApplyDelete, ReportQueued, ApplyStorm, ApplyScaler,
           ReportStarting, ReportRunning, ReconcileFails, ReportFailure,
           ReportFailureFails, Publish, DeleteScaler, NoFault
  <1>4. LoseChanges \/ ApplyStatus \/ LoseReports \/ UNCHANGED vars => Fault \/ faults' = faults
    BY DEF LoseChanges, ApplyStatus, LoseReports, vars
  <1> QED
    BY <1>1, <1>2, <1>3, <1>4 DEF Next

LEMMA FaultsGrow ==
    ASSUME TypeOK, [Next]_vars, faults' = 0
    PROVE  faults = 0 /\ ~Fault
  <1>1. faults \in Nat
    BY ConstantsAssumption DEF TypeOK
  <1> QED
    BY <1>1, FaultCount DEF Fault

\* What a starting call does.
LEMMA StartIsBegin ==
    ASSUME TypeOK, NEW c \in Calls, CallStarts(c)
    PROVE  \E op, w : Begin(c, op, w)
  BY DEF CallStarts, CreateInferenceService, ScaleInferenceService,
         UpdateInferenceServiceVersion, UpdateInferenceServiceTopology,
         UpdateInferenceServiceAutoscaling, RollbackDeployment,
         DeleteInferenceService

\* The controller and the status consumers leave calls and rows alike.
LEMMA ControllerAlike ==
    ASSUME TypeOK, Reconcile \/ LoseChanges \/ ApplyStatus \/ LoseReports \/ UNCHANGED vars
    PROVE  /\ UNCHANGED <<call, last, overlap>>
           /\ Alike(row', row)
  <1>1. UNCHANGED <<call, last, overlap>>
    BY DEF Reconcile, ApplyDelete, ReportQueued, ApplyStorm, ApplyScaler,
           ReportStarting, ReportRunning, ReconcileFails, ReportFailure,
           ReportFailureFails, LoseChanges, ApplyStatus, LoseReports, callVars, vars
  <1>2. ApplyStatus => Alike(row', row)
    BY DEF ApplyStatus, Alike, TypeOK, Rows
  <1>3. row' = row => Alike(row', row)
    BY DEF Alike
  <1> QED
    BY <1>1, <1>2, <1>3
       DEF Reconcile, ApplyDelete, ReportQueued, ApplyStorm, ApplyScaler,
           ReportStarting, ReportRunning, ReconcileFails, ReportFailure,
           ReportFailureFails, LoseChanges, LoseReports, vars

LEMMA OneCallNext ==
    ASSUME TypeOK, OneCall, [Next]_vars
    PROVE  OneCall'
  <1>1. CASE UNCHANGED <<call, overlap>>
    BY <1>1 DEF OneCall, Idle
  <1>2. ASSUME NEW c \in Calls, NEW op, NEW w, Begin(c, op, w)
        PROVE  OneCall'
    <2>1. /\ overlap' = (overlap \/ \E d \in Calls : ~Idle(d))
          /\ \A d \in Calls : d # c => call'[d] = call[d]
      BY <1>2 DEF Begin, TypeOK
    <2> QED
      BY <2>1 DEF OneCall, Idle
  <1>3. ASSUME NEW c \in Calls, CallProceeds(c)
        PROVE  OneCall'
    <2>1. /\ overlap' = overlap /\ ~Idle(c)
          /\ \A d \in Calls : d # c => call'[d] = call[d]
      BY <1>3 DEF CallProceeds, Commit, DuplicateName, CommitFails, PublishChange,
             PublishFails, Goto, Return, TypeOK, Idle
    <2> QED
      BY <2>1 DEF OneCall, Idle
  <1> QED
    BY <1>1, <1>2, <1>3, StartIsBegin, ControllerAlike DEF Next

\* The last change leaves the stream served, reported or lost.
LEMMA LastServedNext ==
    ASSUME TypeOK, CountInv, ServedInv, LastServed, [Next]_vars
    PROVE  LastServed'
  <1> DEFINE Out == Outstanding
  <1>1. IF Out = <<>>
        THEN last.evt.id \in told \cup lost \/ cluster.storm = last.evt.spec
        ELSE Out[Len(Out)] = last.evt
    BY DEF LastServed
  <1>2. Out \in Seq(Events)
    BY OutstandingTyped
  <1>3. CASE Stays /\ last' = last
    BY <1>1, <1>3 DEF Stays, LastServed
  <1>4. ASSUME last' = last, Leaves, lost' = lost,
               \/ told' = told \cup {Out[1].id} /\ UNCHANGED cluster.storm
               \/ told' = told /\ cluster'.storm = Out[1].spec
        PROVE  LastServed'
    <2>1. Out # <<>> /\ Outstanding' = Tail(Out)
      BY <1>4 DEF Leaves
    <2> HIDE DEF Out
    <2>2. /\ Out[Len(Out)] = last.evt
          /\ Tail(Out) = <<>> => Len(Out) = 1
          /\ Tail(Out) # <<>> => Tail(Out)[Len(Tail(Out))] = Out[Len(Out)]
      BY <1>1, <1>2, <2>1, LastOfTail
    <2> QED
      BY <1>4, <2>1, <2>2 DEF LastServed
  <1>5. CASE /\ last' = last /\ Out # <<>> /\ Outstanding' = <<>>
             /\ lost' = lost \cup {Out[i].id : i \in 1 .. Len(Out)}
    <2> HIDE DEF Out
    <2>1. Len(Out) \in 1 .. Len(Out)
      BY <1>2, <1>5, EmptySeq
    <2> QED
      BY <1>1, <1>5, <2>1 DEF LastServed
  <1>6. ASSUME last' = last, Moves
        PROVE  LastServed'
    <2>1. CASE /\ Out # <<>> /\ Outstanding' = Out
      BY <1>1, <1>6, <2>1 DEF LastServed
    <2> QED
      BY <1>3, <1>4, <1>5, <1>6, <2>1 DEF Moves
  <1>7. CASE Reconcile \/ LoseChanges \/ ApplyStatus \/ LoseReports
    BY <1>6, <1>7, ControllerStream, ControllerAlike
  <1>8. CASE UNCHANGED vars
    BY <1>3, <1>8 DEF vars, Stays, Outstanding
  <1>9. ASSUME NEW c \in Calls, PublishChange(c),
               Outstanding' = Append(Outstanding, EventOf(c))
        PROVE  LastServed'
    <2>1. EventOf(c) \in Events /\ last'.evt = EventOf(c)
      BY <1>9, EventTyped, LastTyped DEF PublishChange, Idle
    <2>2. /\ Len(Outstanding') = Len(Out) + 1
          /\ Outstanding'[Len(Out) + 1] = EventOf(c)
          /\ Len(Out) \in Nat
      BY <1>2, <1>9, <2>1, PushBack
    <2>3. Outstanding' # <<>>
      BY <2>2
    <2> QED
      BY <2>1, <2>2, <2>3 DEF LastServed
  <1>10. CASE \E c \in Calls : CallStarts(c) \/ CallProceeds(c)
    BY <1>3, <1>9, <1>10, CallsStream
  <1> QED
    BY <1>7, <1>8, <1>10 DEF Next

\* What a call that proceeds without a fault does to calls and row.
LEMMA ProceedCases ==
    ASSUME TypeOK, NEW c \in Calls, CallProceeds(c), ~Fault
    PROVE  /\ overlap' = overlap /\ ~Idle(c)
           /\ \A d \in Calls \ {c} : call'[d] = call[d]
           /\ \/ /\ call[c].pc = "read"
                 /\ call'[c] = [call[c] EXCEPT !.pc = "committed"]
                 /\ row' = Merge(row, call[c].write) /\ last' = last
              \/ /\ call[c].pc = "read" /\ Idle(c)'
                 /\ row' = row /\ last' = last
              \/ /\ call[c].pc = "committed" /\ Idle(c)'
                 /\ row' = row
                 /\ last' = [op |-> call[c].op, evt |-> EventOf(c)]
  <1>1. CASE Commit(c)
    BY <1>1 DEF Commit, Goto, TypeOK, Idle
  <1>2. CASE DuplicateName(c)
    BY <1>2 DEF DuplicateName, Return, TypeOK, Idle, NoCall
  <1>3. CASE PublishChange(c)
    BY <1>3 DEF PublishChange, Return, TypeOK, Idle, NoCall
  <1> QED
    BY <1>1, <1>2, <1>3 DEF CallProceeds, CommitFails, PublishFails

LEMMA CallFollowsNext ==
    ASSUME TypeOK, OneCall, CallFollowsRow, [Next]_vars
    PROVE  CallFollowsRow'
  <1> SUFFICES ASSUME faults' = 0, ~overlap', NEW d \in Calls
               PROVE  /\ call'[d].pc = "read" => Alike(row', call'[d].before)
                      /\ call'[d].pc = "committed" =>
                           Alike(row', Merge(call'[d].before, call'[d].write))
    BY DEF CallFollowsRow, Merge, Pick
  <1>1. faults = 0 /\ ~Fault
    BY FaultsGrow
  <1>2. ASSUME ~overlap
        PROVE  /\ call[d].pc = "read" => Alike(row, call[d].before)
               /\ call[d].pc = "committed" =>
                    Alike(row, Merge(call[d].before, call[d].write))
    BY <1>1, <1>2 DEF CallFollowsRow
  <1>3. \A r, s, t : Alike(r, s) /\ Alike(s, t) => Alike(r, t)
    BY DEF Alike
  <1>4. CASE Reconcile \/ LoseChanges \/ ApplyStatus \/ LoseReports \/ UNCHANGED vars
    BY <1>2, <1>3, <1>4, ControllerAlike
  <1>5. ASSUME NEW c \in Calls, NEW op, NEW w, Begin(c, op, w)
        PROVE  /\ call'[d].pc = "read" => Alike(row', call'[d].before)
               /\ call'[d].pc = "committed" =>
                    Alike(row', Merge(call'[d].before, call'[d].write))
    <2>1. /\ row' = row
          /\ call' = [call EXCEPT ![c] = [pc |-> "read", op |-> op,
                                          before |-> row, write |-> w]]
      BY <1>5 DEF Begin
    <2>2. call'[d].pc # "idle" => d = c
      BY <1>5, <2>1 DEF Begin, TypeOK, Idle
    <2>3. call'[c].pc = "read" /\ call'[c].before = row
      BY <2>1 DEF TypeOK
    <2>4. Alike(row, row)
      BY DEF Alike
    <2> QED
      BY <2>1, <2>2, <2>3, <2>4
  <1>6. ASSUME NEW c \in Calls, CallProceeds(c)
        PROVE  /\ call'[d].pc = "read" => Alike(row', call'[d].before)
               /\ call'[d].pc = "committed" =>
                    Alike(row', Merge(call'[d].before, call'[d].write))
    <2>1. overlap' = overlap /\ ~Idle(c)
      BY <1>1, <1>6, ProceedCases
    <2>2. CASE d # c
      <3>1. call'[d] = call[d] /\ Idle(d)
        BY <1>1, <1>6, <2>1, <2>2, ProceedCases DEF OneCall
      <3> QED
        BY <3>1 DEF Idle
    <2>3. CASE d = c
      <3>1. CASE Idle(c)'
        BY <2>3, <3>1 DEF Idle
      <3>2. CASE /\ call[c].pc = "read"
                 /\ call'[c] = [call[c] EXCEPT !.pc = "committed"]
                 /\ row' = Merge(row, call[c].write)
        <4>1. /\ call'[c].pc = "committed" /\ call'[c].before = call[c].before
              /\ call'[c].write = call[c].write
          BY <3>2 DEF TypeOK, CallType
        <4>2. Alike(row, call[c].before)
          BY <1>2, <2>1, <2>3, <3>2
        <4> QED
          BY <2>3, <3>2, <4>1, <4>2, AlikeMerge
      <3> QED
        BY <1>1, <1>6, <3>1, <3>2, ProceedCases
    <2> QED
      BY <2>2, <2>3
  <1> QED
    BY <1>4, <1>5, <1>6, StartIsBegin DEF Next

LEMMA LastFollowsNext ==
    ASSUME TypeOK, OneCall, CallFollowsRow, LastFollowsRow, [Next]_vars
    PROVE  LastFollowsRow'
  <1> SUFFICES ASSUME faults' = 0, ~overlap',
                      \A c \in Calls : call'[c].pc # "committed",
                      last'.op \notin {"none", "delete"}
               PROVE  last'.evt.spec = SpecOf(last'.op, row')
    BY DEF LastFollowsRow, SpecOf
  <1>1. faults = 0 /\ ~Fault
    BY FaultsGrow
  <1>2. ASSUME ~overlap, last' = last, Alike(row', row),
               \A c \in Calls : call[c].pc # "committed"
        PROVE  last'.evt.spec = SpecOf(last'.op, row')
    BY <1>1, <1>2, AlikeSpec DEF LastFollowsRow
  <1>3. row' = row => Alike(row', row)
    BY DEF Alike
  <1>4. CASE Reconcile \/ LoseChanges \/ ApplyStatus \/ LoseReports \/ UNCHANGED vars
    BY <1>2, <1>4, ControllerAlike
  <1>5. ASSUME NEW c \in Calls, NEW op, NEW w, Begin(c, op, w)
        PROVE  last'.evt.spec = SpecOf(last'.op, row')
    BY <1>2, <1>3, <1>5 DEF Begin, TypeOK, Idle
  <1>6. ASSUME NEW c \in Calls, CallProceeds(c)
        PROVE  last'.evt.spec = SpecOf(last'.op, row')
    <2>1. /\ ~overlap /\ ~Idle(c)
          /\ \A d \in Calls \ {c} : call'[d] = call[d]
      BY <1>1, <1>6, ProceedCases
    <2>2. CASE call[c].pc = "read" /\ Idle(c)' /\ row' = row /\ last' = last
      <3>1. \A d \in Calls : call[d].pc # "committed"
        BY <2>1, <2>2
      <3> QED
        BY <1>2, <1>3, <2>1, <2>2, <3>1
    <2>3. CASE /\ call[c].pc = "committed" /\ row' = row
               /\ last' = [op |-> call[c].op, evt |-> EventOf(c)]
      <3>1. Alike(row, Merge(call[c].before, call[c].write))
        BY <1>1, <2>1, <2>3 DEF CallFollowsRow
      <3>2. last'.op = call[c].op /\ last'.evt.spec = EventOf(c).spec
        BY <2>3
      <3>3. EventOf(c).spec
              = SpecOf(call[c].op, Merge(call[c].before, call[c].write))
        BY <3>2 DEF EventOf
      <3> QED
        BY <2>3, <3>1, <3>2, <3>3, AlikeSpec
    <2>4. call'[c].pc # "committed"
      OBVIOUS
    <2>5. call'[c] = [call[c] EXCEPT !.pc = "committed"] => FALSE
      BY <2>4 DEF TypeOK, CallType
    <2> QED
      BY <1>1, <1>6, <2>2, <2>3, <2>5, ProceedCases
  <1> QED
    BY <1>4, <1>5, <1>6, StartIsBegin DEF Next

LEMMA SerialInit == Init => SerialInv
  <1> SUFFICES ASSUME Init PROVE SerialInv
    OBVIOUS
  <1>1. IInv
    BY InitInvariant
  <1>2. \A c \in Calls : call[c].pc = "idle"
    BY DEF Init, NoCall
  <1>3. OneCall
    BY <1>2 DEF OneCall, Idle
  <1>4. CallFollowsRow
    BY <1>2 DEF CallFollowsRow
  <1>5. Outstanding = <<>>
    BY DEF Init, Outstanding
  <1>6. CASE Fresh
    <2>1. cluster.storm = Nothing /\ last.evt.spec = Nothing /\ last.op = "none"
      BY <1>6 DEF Fresh, NoEvent
    <2> QED
      BY <1>1, <1>3, <1>4, <1>5, <2>1 DEF SerialInv, LastServed, LastFollowsRow
  <1>7. CASE Established
    <2>1. /\ cluster.storm = SpecOf("autoscaling", row)
          /\ last.evt.spec = cluster.storm /\ last.op = "autoscaling"
      BY <1>7 DEF Established
    <2> QED
      BY <1>1, <1>3, <1>4, <1>5, <2>1 DEF SerialInv, LastServed, LastFollowsRow
  <1> QED
    BY <1>6, <1>7 DEF Init

LEMMA SerialNext == SerialInv /\ [Next]_vars => SerialInv'
  <1> SUFFICES ASSUME SerialInv, [Next]_vars PROVE SerialInv'
    OBVIOUS
  <1>1. TypeOK /\ CountInv /\ ServedInv
    BY DEF SerialInv, IInv
  <1>2. IInv'
    BY NextInvariant DEF SerialInv
  <1> QED
    BY <1>1, <1>2, OneCallNext, LastServedNext, CallFollowsNext, LastFollowsNext
       DEF SerialInv

\* LastChangeLands: once everything is drained, what the last change asked for
\* runs in the cluster unless it was reported or lost, and after calls that did
\* not overlap and nothing that failed it is what the row says (the management
\* handlers, the change queue, the controller's reconcile).
THEOREM LastLands == Spec => []LastChangeLands
<1>1. SerialInv => LastChangeLands
  <2> SUFFICES ASSUME SerialInv, Drained, last.evt.id \notin told \cup lost
               PROVE  /\ cluster.storm = last.evt.spec
                      /\ faults = 0 /\ ~overlap /\ last.op \notin {"none", "delete"}
                           => cluster.storm = SpecOf(last.op, row)
    BY DEF LastChangeLands
  <2>1. cluster.storm = last.evt.spec
    BY DEF SerialInv, LastServed, Drained
  <2>2. \A c \in Calls : call[c].pc # "committed"
    BY DEF Drained, Idle
  <2> QED
    BY <2>1, <2>2 DEF SerialInv, LastFollowsRow
<1> QED
  BY <1>1, SerialInit, SerialNext, PTL DEF Spec

-----------------------------------------------------------------------------
(* Deleted services. *)

\* A delete call writes the terminated state.
DeleteWrites ==
    \A c \in Calls : call[c].op = "delete" => call[c].write.state = "terminated"

\* No other call writes under the name of a delete.
LEMMA DeleteWritesNext ==
    ASSUME TypeOK, DeleteWrites, [Next]_vars
    PROVE  DeleteWrites'
  <1>1. CASE UNCHANGED call
    BY <1>1 DEF DeleteWrites
  <1>2. ASSUME NEW c \in Calls, NEW op, NEW w, Begin(c, op, w),
               op = "delete" => w.state = "terminated"
        PROVE  DeleteWrites'
    <2> DEFINE x == [pc |-> "read", op |-> op, before |-> row, write |-> w]
    <2>1. call' = [call EXCEPT ![c] = x]
      BY <1>2 DEF Begin
    <2>2. x.op = op /\ x.write = w
      OBVIOUS
    <2> HIDE DEF x
    <2> QED
      BY <1>2, <2>1, <2>2 DEF DeleteWrites, TypeOK
  <1>3. ASSUME NEW c \in Calls, CallStarts(c)
        PROVE  DeleteWrites'
    <2>1. CASE DeleteInferenceService(c)
      <3> DEFINE w == [Unchanged EXCEPT !.state = "terminated"]
      <3>1. Begin(c, "delete", w)
        BY <2>1 DEF DeleteInferenceService
      <3>2. w.state = "terminated"
        BY DEF Unchanged
      <3> HIDE DEF w
      <3> QED
        BY <1>2, <3>1, <3>2
    <2>2. CASE ~DeleteInferenceService(c)
      <3>1. \E op, w : op # "delete" /\ Begin(c, op, w)
        BY <1>3, <2>2 DEF CallStarts, CreateInferenceService,
             ScaleInferenceService, UpdateInferenceServiceVersion,
             UpdateInferenceServiceTopology, UpdateInferenceServiceAutoscaling,
             RollbackDeployment
      <3> QED
        BY <1>2, <3>1
    <2> QED
      BY <2>1, <2>2
  <1>4. ASSUME NEW c \in Calls, CallProceeds(c)
        PROVE  DeleteWrites'
    <2>1. CASE Commit(c)
      BY <2>1 DEF Commit, Goto, DeleteWrites, TypeOK, CallType
    <2>2. CASE Return(c)
      BY <2>2 DEF Return, NoCall, DeleteWrites, TypeOK
    <2> QED
      BY <1>4, <2>1, <2>2 DEF CallProceeds, DuplicateName, CommitFails,
             PublishChange, PublishFails
  <1> QED
    BY <1>1, <1>3, <1>4, ControllerAlike DEF Next

\* What waits for the controller stays deletes.
LEMMA OnlyDeletesWait ==
    ASSUME NEW s \in Seq(Events), \A i \in 1 .. Len(s) : s[i].spec = Nothing
    PROVE  /\ s # <<>> => \A i \in 1 .. Len(Tail(s)) : Tail(s)[i].spec = Nothing
           /\ \A e \in Events : e.spec = Nothing =>
                \A i \in 1 .. Len(Append(s, e)) : Append(s, e)[i].spec = Nothing
  OBVIOUS

\* The calls under way are deletes: they write what is there, and publish
\* deletes.
LEMMA DeleteCallsOnly ==
    ASSUME TypeOK, CountInv, DeleteWrites, DeletedForGood,
           NEW c \in Calls, CallProceeds(c)
    PROVE  DeletedForGood' /\ cluster' = cluster
  <1>1. ~Idle(c) /\ call[c].op = "delete" /\ call[c].write.state = "terminated"
    BY DEF CallProceeds, Commit, DuplicateName, CommitFails, PublishChange,
           PublishFails, Idle, DeletedForGood, DeleteWrites
  <1>2. UNCHANGED <<ctl, cluster, reports>>
    BY DEF CallProceeds, Commit, DuplicateName, CommitFails, PublishChange,
           PublishFails
  <1>3. row'.state = "terminated"
    <2>1. CASE Commit(c)
      BY <1>1, <2>1 DEF Commit, Merge, Pick, DeletedForGood
    <2>2. CASE PublishFails(c)
      BY <1>1, <2>2 DEF PublishFails, DeletedForGood
    <2> QED
      BY <2>1, <2>2 DEF CallProceeds, DuplicateName, CommitFails, PublishChange,
             DeletedForGood
  <1>4. \A d \in Calls : Idle(d)' \/ call'[d].op = "delete"
    <2>1. CASE Commit(c)
      BY <2>1 DEF Commit, Goto, DeletedForGood, Idle, TypeOK, CallType
    <2>2. CASE Return(c)
      BY <2>2 DEF Return, NoCall, DeletedForGood, Idle, TypeOK
    <2> QED
      BY <2>1, <2>2 DEF CallProceeds, DuplicateName, CommitFails,
             PublishChange, PublishFails
  <1>5. \A i \in 1 .. Len(changes') : changes'[i].spec = Nothing
    <2>1. CASE changes' = changes
      BY <2>1 DEF DeletedForGood
    <2>2. CASE PublishChange(c)
      <3>1. EventOf(c) \in Events
        BY <1>1, EventTyped, LastTyped
      <3>2. EventOf(c).spec = Nothing
        BY <1>1 DEF EventOf
      <3>3. changes \in Seq(Events)
        BY DEF TypeOK
      <3> QED
        BY <2>2, <3>1, <3>2, <3>3, OnlyDeletesWait
           DEF PublishChange, DeletedForGood
    <2> QED
      BY <2>1, <2>2 DEF CallProceeds, Commit, DuplicateName, CommitFails,
             PublishFails
  <1> QED
    BY <1>2, <1>3, <1>4, <1>5 DEF DeletedForGood

\* The controller has only deletes to handle, and nobody has a report.
LEMMA DeletesHandled ==
    ASSUME TypeOK, DeletedForGood,
           Reconcile \/ LoseChanges \/ ApplyStatus \/ LoseReports \/ UNCHANGED vars
    PROVE  DeletedForGood' /\ cluster'.storm \in {Nothing, cluster.storm}
  <1>1. CASE ApplyDelete
    <2>1. changes # <<>> /\ changes' = Tail(changes) /\ cluster'.storm = Nothing
      BY <1>1 DEF ApplyDelete, NextIs
    <2>2. \A i \in 1 .. Len(changes') : changes'[i].spec = Nothing
      BY <2>1, OnlyDeletesWait DEF DeletedForGood, TypeOK
    <2> QED
      BY <1>1, <2>1, <2>2 DEF ApplyDelete, callVars, DeletedForGood, Idle
  <1>2. ~ReportQueued
    <2> SUFFICES ASSUME NextIs("upsert") PROVE FALSE
      BY DEF ReportQueued
    <2>1. changes # <<>> /\ Head(changes).spec # Nothing
      BY DEF NextIs
    <2>2. Head(changes) = changes[1] /\ 1 \in 1 .. Len(changes)
      BY <2>1 DEF TypeOK
    <2> QED
      BY <2>1, <2>2 DEF DeletedForGood
  <1>3. CASE LoseChanges
    BY <1>3 DEF LoseChanges, callVars, CtlDone, DeletedForGood, Idle
  <1>4. ~ApplyStatus /\ ~LoseReports
    BY DEF ApplyStatus, LoseReports, DeletedForGood
  <1>5. CASE UNCHANGED vars
    BY <1>5 DEF vars, DeletedForGood, Idle
  <1> QED
    BY <1>1, <1>2, <1>3, <1>4, <1>5
       DEF Reconcile, ApplyStorm, ApplyScaler, ReportStarting, ReportRunning,
           ReconcileFails, ReportFailure, ReportFailureFails, DeletedForGood

\* A service that was deleted, with nothing but deletes under way, never comes
\* back: neither its row nor its workload (the management handlers, the
\* controller and the status consumer).
THEOREM DeletesLast == Spec => DeletionIsFinal
<1> DEFINE Kept == DeletedForGood =>
             DeletedForGood' /\ cluster'.storm \in {Nothing, cluster.storm}
<1>1. Init => DeleteWrites
  BY DEF Init, DeleteWrites, NoCall
<1>2. IInv /\ DeleteWrites /\ [Next]_vars => DeleteWrites'
  BY DeleteWritesNext DEF IInv
<1>3. IInv /\ DeleteWrites /\ [Next]_vars => Kept
  <2> SUFFICES ASSUME IInv, DeleteWrites, [Next]_vars, DeletedForGood
               PROVE  DeletedForGood' /\ cluster'.storm \in {Nothing, cluster.storm}
    OBVIOUS
  <2>1. TypeOK /\ CountInv
    BY DEF IInv
  <2>2. \A c \in Calls : ~CallStarts(c)
    BY DEF CallStarts, CreateInferenceService, ScaleInferenceService,
           UpdateInferenceServiceVersion, UpdateInferenceServiceTopology,
           UpdateInferenceServiceAutoscaling, RollbackDeployment,
           DeleteInferenceService, Updatable, Exists, DeletedForGood
  <2> QED
    BY <2>1, <2>2, DeleteCallsOnly, DeletesHandled DEF Next
<1>4. [][Kept]_vars => DeletionIsFinal
  BY DEF DeletionIsFinal
<1> QED
  BY <1>1, <1>2, <1>3, <1>4, Invariant, PTL DEF Spec
=============================================================================
