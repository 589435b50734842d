-------------------------- MODULE JobExecutorProofs --------------------------
(***************************************************************************)
(* Theorems of the job executor and their proofs.                          *)
(***************************************************************************)
EXTENDS JobExecutor, FiniteSetTheorems, TLAPS

-----------------------------------------------------------------------------
(* Type correctness.                                                       *)

\* What a restart makes of a jobs file is a jobs map again.
LEMMA LoadedType ==
    ASSUME NEW js \in [Id -> Job \cup {NoJob}]
    PROVE  Loaded(js) \in [Id -> Job \cup {NoJob}]
BY DEF Loaded, Job, NoJob, Live, Terminal

\* request_cancel keeps a job a job.
LEMMA RequestCancelType ==
    ASSUME NEW job \in Job
    PROVE  RequestCancel(job) \in Job
BY DEF RequestCancel, Job, Live, Terminal

\* Making room removes one job at most.
LEMMA RoomType ==
    ASSUME NEW c \in Call, NEW room \in Room(c), jobs \in [Id -> Job \cup {NoJob}]
    PROVE  /\ room \in [Id -> Job \cup {NoJob}]
           /\ \A i \in Id : room[i] = jobs[i] \/ (room[i] = NoJob /\ jobs[i].state \in Terminal)
BY DEF Room, Removable, Retained

\* The first state is well typed.
LEMMA InitType == Init => TypeOK
BY IdAssumption, BoundAssumption, CallAssumption
   DEF Init, TypeOK, NoJobs, Stage, InFlight, JobState

\* Every step of submit keeps the types.
LEMMA SubmitType ==
    ASSUME TypeOK, NEW c \in Call, Submit(c) \/ Disconnect(c)
    PROVE  TypeOK'
<1> USE IdAssumption, CallAssumption
<1>1. CASE Lookup(c)
    BY <1>1 DEF Lookup, TypeOK, Answer, Replay, InFlight, KeyHolders, Retained,
                procVars, apiVars, workVars, cancelVars
<1>2. CASE Reject(c)
    BY <1>2 DEF Reject, TypeOK, Answer, InFlight, procVars, apiVars, workVars, cancelVars
<1>3. CASE Insert(c)
    <2>1. call' \in [Call -> InFlight \cup {"idle", "replayed", "conflict", "rejected", "busy",
                                          "unsaved", "accepted", "dropped"}]
          /\ told' \subseteq Id
        BY <1>3 DEF Insert, TypeOK, Answer, Replay, AfterSave, InFlight, Recheck, KeyHolders,
                    Retained
    <2>2. jobs' \in [Id -> Job \cup {NoJob}] /\ disk' \in [Id -> Job \cup {NoJob}]
        <3>1. CASE UNCHANGED <<jobs, disk>>
            BY <3>1 DEF TypeOK
        <3>2. CASE \E room \in Room(c), ok \in SaveOutcome :
                      jobs' = [room EXCEPT ![IdOf[c]] = [state |-> "queued", by |-> c]]
                      /\ Save(jobs', ok)
            <4>1. PICK room \in Room(c), ok \in SaveOutcome :
                      jobs' = [room EXCEPT ![IdOf[c]] = [state |-> "queued", by |-> c]]
                      /\ Save(jobs', ok)
                BY <3>2
            <4>2. room \in [Id -> Job \cup {NoJob}]
                BY RoomType DEF TypeOK
            <4>3. [state |-> "queued", by |-> c] \in Job
                BY DEF Job, Live
            <4>4. jobs' \in [Id -> Job \cup {NoJob}]
                BY <4>1, <4>2, <4>3
            <4> QED BY <4>1, <4>4 DEF Save, TypeOK
        <3> QED BY <1>3, <3>1, <3>2 DEF Insert
    <2> QED BY <1>3, <2>1, <2>2 DEF Insert, TypeOK, procVars, workVars, cancelVars
<1>4. CASE RegisterEvents(c)
    BY <1>4 DEF RegisterEvents, TypeOK, Answer, InFlight, procVars, workVars, cancelVars
<1>5. CASE RegisterCancellation(c)
    BY <1>5 DEF RegisterCancellation, TypeOK, Answer, InFlight, procVars, workVars, cancelVars
<1>6. CASE Spawn(c)
    BY <1>6 DEF Spawn, TypeOK, Answer, InFlight, Stage, procVars, apiVars, cancelVars
<1>7. CASE Disconnect(c)
    BY <1>7 DEF Disconnect, TypeOK, Answer, InFlight, procVars, apiVars, workVars, cancelVars
<1> QED BY <1>1, <1>2, <1>3, <1>4, <1>5, <1>6, <1>7 DEF Submit

\* Every step of a worker keeps the types.
LEMMA WorkType ==
    ASSUME TypeOK, NEW c \in Call, Work(c)
    PROVE  TypeOK'
<1> USE IdAssumption, CallAssumption
<1>1. CASE Begin(c)
    <2>1. holder' \in [Conn -> Call \cup {Nobody}]
        BY <1>1 DEF Begin, Acquired, TypeOK
    <2> QED BY <1>1, <2>1 DEF Begin, WorkerAt, Goto, TypeOK, Stage, JobState, procVars,
                              apiVars, callVars, cancelVars
<1>2. CASE Open(c)
    BY <1>2 DEF Open, WorkerAt, Goto, TypeOK, Stage, procVars, apiVars, callVars, cancelVars
<1>3. CASE ExecuteRead(c)
    <2>1. Len(Plan) \in Nat
        OBVIOUS
    <2>2. at \in [Call -> 0 .. Len(Plan)]
        BY DEF TypeOK
    <2>3. at' = at \/ at' = [at EXCEPT ![c] = at[c] + 1]
        BY <1>3 DEF ExecuteRead
    <2>4. at' \in [Call -> 0 .. Len(Plan)]
        <3>1. at[c] + 1 \in 0 .. Len(Plan)
            BY <1>3, <2>1, <2>2 DEF ExecuteRead
        <3> QED BY ONLY <2>2, <2>3, <3>1
    <2> QED BY <1>3, <2>4 DEF ExecuteRead, WorkerAt, Goto, TypeOK, Stage, procVars, apiVars,
                              callVars, cancelVars
<1>4. CASE ExecuteWrite(c)
    <2>1. worker' \in [Call -> Stage] /\ paw' \in [Call -> BOOLEAN]
        BY <1>4 DEF ExecuteWrite, Goto, TypeOK, Stage
    <2> QED BY <1>4, <2>1 DEF ExecuteWrite, TypeOK, procVars, apiVars, callVars, cancelVars
<1>11. CASE TransportWrite(c)
    <2>1. Len(Plan) \in Nat
        OBVIOUS
    <2>2. at \in [Call -> 0 .. Len(Plan)] /\ sent \in [Call -> SUBSET WriteSteps]
        BY DEF TypeOK
    <2>3. at' = at \/ at' = [at EXCEPT ![c] = at[c] + 1]
        BY <1>11 DEF TransportWrite
    <2>4. at' \in [Call -> 0 .. Len(Plan)]
        <3>1. at[c] + 1 \in 0 .. Len(Plan)
            BY <1>11, <2>1, <2>2 DEF TransportWrite, WriteSteps
        <3> QED BY ONLY <2>2, <2>3, <3>1
    <2>5. at[c] + 1 \in WriteSteps
        BY <1>11 DEF TransportWrite
    <2>6. sent' = sent \/ sent' = [sent EXCEPT ![c] = @ \cup {at[c] + 1}]
        BY <1>11, <2>2 DEF TransportWrite
    <2>7. sent' \in [Call -> SUBSET WriteSteps]
        <3>1. sent[c] \cup {at[c] + 1} \in SUBSET WriteSteps
            BY <2>2, <2>5
        <3> QED BY ONLY <2>2, <2>6, <3>1
    <2>8. worker' \in [Call -> Stage]
        <3>1. worker' \in {[worker EXCEPT ![c] = "executing"], [worker EXCEPT ![c] = "errored"]}
            BY <1>11 DEF TransportWrite, Goto
        <3>2. worker \in [Call -> Stage]
            BY DEF TypeOK
        <3> QED BY ONLY <3>1, <3>2 DEF Stage
    <2> QED BY <1>11, <2>4, <2>7, <2>8 DEF TransportWrite, TypeOK, procVars, apiVars, callVars,
                                          cancelVars
<1>5. CASE Executed(c)
    BY <1>5 DEF Executed, WorkerAt, Goto, TypeOK, Stage, procVars, apiVars, callVars, cancelVars
<1>6. CASE IppCapture(c)
    <2>1. worker' \in [Call -> Stage]
        <3>1. \E stage \in Stage : worker' = [worker EXCEPT ![c] = stage]
            BY <1>6 DEF IppCapture, Goto, Stage
        <3> QED BY <3>1 DEF TypeOK
    <2>2. paw' \in [Call -> BOOLEAN]
        <3>1. paw' = paw \/ \E wrote \in BOOLEAN : paw' = [paw EXCEPT ![c] = wrote]
            BY <1>6 DEF IppCapture
        <3> QED BY <3>1 DEF TypeOK
    <2> QED BY <1>6, <2>1, <2>2 DEF IppCapture, TypeOK, procVars, apiVars, callVars, cancelVars
<1>12. CASE IppCheck(c)
    BY <1>12 DEF IppCheck, Goto, TypeOK, Stage, procVars, apiVars, callVars, cancelVars
<1>7. CASE IppPost(c)
    <2>1. worker' \in [Call -> Stage]
        <3>1. \E stage \in Stage : worker' = [worker EXCEPT ![c] = stage]
            BY <1>7 DEF IppPost, Goto, Stage
        <3> QED BY <3>1 DEF TypeOK
    <2>2. sent' \in [Call -> SUBSET WriteSteps]
        <3>1. sent' = sent \/ \E w \in SUBSET WriteSteps : sent' = [sent EXCEPT ![c] = w]
            BY <1>7 DEF IppPost
        <3> QED BY <3>1 DEF TypeOK
    <2> QED BY <1>7, <2>1, <2>2 DEF IppPost, TypeOK, procVars, apiVars, callVars, cancelVars
<1>8. CASE Judge(c)
    <2>1. Outcome(c) \in Terminal
        BY DEF Outcome, Terminal
    <2> QED BY <1>8, <2>1 DEF Judge, WorkerAt, Goto, TypeOK, Stage, procVars, apiVars, callVars,
                              cancelVars
<1>9. CASE Publish(c)
    BY <1>9 DEF Publish, WorkerAt, Goto, TypeOK, Stage, JobState, Live, procVars, apiVars,
                callVars, cancelVars
<1>10. CASE Finish(c)
    <2>1. [state |-> verdict[c], by |-> c] \in Job
        BY DEF TypeOK, Job, Live
    <2>2. jobs' \in [Id -> Job \cup {NoJob}]
        BY <1>10, <2>1 DEF Finish, TypeOK
    <2>3. disk' \in [Id -> Job \cup {NoJob}]
        BY <1>10, <2>2 DEF Finish, Save, TypeOK
    <2>4. holder' \in [Conn -> Call \cup {Nobody}]
        BY <1>10 DEF Finish, Released, TypeOK
    <2> QED BY <1>10, <2>2, <2>3, <2>4 DEF Finish, WorkerAt, Goto, TypeOK, Stage, procVars,
                                           callVars, cancelVars
<1> QED BY <1>1, <1>2, <1>3, <1>4, <1>5, <1>6, <1>7, <1>8, <1>9, <1>10, <1>11, <1>12
        DEF Work

\* Every step of a cancel handler keeps the types.
LEMMA CancelType ==
    ASSUME TypeOK, NEW k \in Canceller, CancelJob(k)
    PROVE  TypeOK'
<1>1. CASE \E i \in told : CancelFlag(k, i)
    BY <1>1 DEF CancelFlag, Raised, TypeOK, procVars, apiVars, callVars, workVars
<1>2. CASE CancelRecord(k)
    <2> DEFINE i == target[k]
    <2>1. CASE i \notin Retained(jobs)
        BY <1>2, <2>1 DEF CancelRecord, TypeOK, procVars, callVars, workVars
    <2>2. CASE i \in Retained(jobs)
        <3>1. i \in Id /\ jobs[i] \in Job
            BY <2>2 DEF Retained, TypeOK
        <3>2. jobs' = [jobs EXCEPT ![i] = RequestCancel(jobs[i])]
            BY <1>2, <2>2 DEF CancelRecord
        <3>3. jobs' \in [Id -> Job \cup {NoJob}] /\ jobs'[i] \in Job
            BY <3>1, <3>2, RequestCancelType DEF TypeOK
        <3>4. disk' \in [Id -> Job \cup {NoJob}]
            BY <1>2, <2>2, <3>3 DEF CancelRecord, Save, TypeOK
        <3>5. jobs'[i].state \in JobState
            BY <3>3 DEF Job, JobState
        <3>6. published' \in [Id -> JobState \cup {"none"}]
            BY <1>2, <2>2, <3>5 DEF CancelRecord, TypeOK
        <3>7. cancel' \in [Canceller -> {"idle", "flagged", "missing", "answered", "unsaved",
                                         "dropped"}]
            BY <1>2, <2>2 DEF CancelRecord, TypeOK
        <3> QED BY <1>2, <3>3, <3>4, <3>6, <3>7 DEF CancelRecord, TypeOK, procVars, callVars,
                                                   workVars
    <2> QED BY <2>1, <2>2
<1>3. CASE CancelDropped(k)
    BY <1>3 DEF CancelDropped, TypeOK, procVars, apiVars, callVars, workVars
<1> QED BY <1>1, <1>2, <1>3 DEF CancelJob

\* A crash and a restart keep the types.
LEMMA CrashType ==
    ASSUME TypeOK, Crash \/ Restart
    PROVE  TypeOK'
<1>1. CASE Crash
    <2>1. crashes' \in 0 .. MaxCrashes
        BY <1>1, BoundAssumption DEF Crash, TypeOK
    <2>2. jobs' \in [Id -> Job \cup {NoJob}]
        BY <1>1 DEF Crash, NoJobs
    <2>3. call' \in [Call -> InFlight \cup {"idle", "replayed", "conflict", "rejected", "busy",
                                           "unsaved", "accepted", "dropped"}]
        BY <1>1 DEF Crash, TypeOK
    <2>4. worker' \in [Call -> Stage]
        BY <1>1 DEF Crash, TypeOK, Stage
    <2> QED BY <1>1, <2>1, <2>2, <2>3, <2>4 DEF Crash, TypeOK
<1>2. CASE Restart
    <2>1. jobs' \in [Id -> Job \cup {NoJob}]
        BY <1>2, LoadedType DEF Restart, LoadOutcome, TypeOK, NoJobs
    <2> QED BY <1>2, <2>1 DEF Restart, TypeOK, callVars, workVars, cancelVars
<1> QED BY <1>1, <1>2

\* Type correctness of the executor.
THEOREM TypeCorrect == Spec => []TypeOK
<1>1. TypeOK /\ [Next]_vars => TypeOK'
    <2> SUFFICES ASSUME TypeOK, [Next]_vars
                 PROVE  TypeOK'
        OBVIOUS
    <2>1. CASE UNCHANGED vars
        BY <2>1 DEF vars, procVars, apiVars, callVars, workVars, cancelVars, TypeOK
    <2> QED BY <2>1, SubmitType, WorkType, CancelType, CrashType DEF Next
<1> QED BY <1>1, InitType, PTL DEF Spec

-----------------------------------------------------------------------------
(* What the steps have in common.                                          *)

\* A worker's step moves that worker only; between taking the connection and
\* returning it stays in the critical section and leaves the maps alone.
LEMMA WorkFrame ==
    ASSUME TypeOK, NEW c \in Call, Work(c)
    PROVE  /\ up /\ up' /\ call' = call /\ HasWorker(c)
           /\ \A d \in Call : d # c => worker'[d] = worker[d]
           /\ \/ Begin(c) /\ worker'[c] = "opening" /\ jobs' = jobs /\ disk' = disk
              \/ Finish(c) /\ worker'[c] = "done"
              \/ Busy(c) /\ Busy(c)' /\ jobs' = jobs /\ disk' = disk /\ holder' = holder
<1>1. worker \in [Call -> Stage] /\ up \in BOOLEAN
    BY DEF TypeOK
<1>2. CASE Begin(c)
    BY <1>1, <1>2 DEF Begin, WorkerAt, Goto, HasWorker, Busy, procVars, apiVars, callVars
<1>3. CASE Open(c)
    BY <1>1, <1>3 DEF Open, WorkerAt, Goto, HasWorker, Busy, procVars, apiVars, callVars
<1>4. CASE ExecuteRead(c)
    BY <1>1, <1>4 DEF ExecuteRead, WorkerAt, Goto, HasWorker, Busy, procVars, apiVars, callVars
<1>5. CASE ExecuteWrite(c)
    <2>1. up /\ worker[c] = "executing" /\ UNCHANGED <<procVars, apiVars, holder, callVars>>
          /\ \E stage \in {"writing", "errored"} : worker' = [worker EXCEPT ![c] = stage]
        BY <1>5 DEF ExecuteWrite, WorkerAt, Goto
    <2> QED BY <1>1, <2>1 DEF HasWorker, Busy, procVars, apiVars, callVars
<1>12. CASE TransportWrite(c)
    <2>1. up /\ worker[c] = "writing" /\ UNCHANGED <<procVars, apiVars, holder, callVars>>
          /\ \E stage \in {"executing", "errored"} : worker' = [worker EXCEPT ![c] = stage]
        BY <1>12 DEF TransportWrite, WorkerAt, Goto
    <2> QED BY <1>1, <2>1 DEF HasWorker, Busy, procVars, apiVars, callVars
<1>6. CASE Executed(c)
    BY <1>1, <1>6 DEF Executed, WorkerAt, Goto, HasWorker, Busy, procVars, apiVars, callVars
<1>7. CASE IppCapture(c)
    <2>1. up /\ worker[c] = "opening" /\ UNCHANGED <<procVars, apiVars, holder, callVars>>
          /\ \E stage \in {"captured", "errored"} : worker' = [worker EXCEPT ![c] = stage]
        BY <1>7 DEF IppCapture, WorkerAt, Goto
    <2> QED BY <1>1, <2>1 DEF HasWorker, Busy, procVars, apiVars, callVars
<1>13. CASE IppCheck(c)
    <2>1. up /\ worker[c] = "captured" /\ UNCHANGED <<procVars, apiVars, holder, callVars>>
          /\ \E stage \in {"posting", "errored"} : worker' = [worker EXCEPT ![c] = stage]
        BY <1>13 DEF IppCheck, WorkerAt, Goto
    <2> QED BY <1>1, <2>1 DEF HasWorker, Busy, procVars, apiVars, callVars
<1>8. CASE IppPost(c)
    <2>1. up /\ worker[c] = "posting" /\ UNCHANGED <<procVars, apiVars, holder, callVars>>
          /\ \E stage \in {"succeeded", "errored"} : worker' = [worker EXCEPT ![c] = stage]
        BY <1>8 DEF IppPost, WorkerAt, Goto
    <2> QED BY <1>1, <2>1 DEF HasWorker, Busy, procVars, apiVars, callVars
<1>9. CASE Judge(c)
    BY <1>1, <1>9 DEF Judge, WorkerAt, Goto, HasWorker, Busy, procVars, apiVars, callVars
<1>10. CASE Publish(c)
    BY <1>1, <1>10 DEF Publish, WorkerAt, Goto, HasWorker, Busy, procVars, apiVars, callVars
<1>11. CASE Finish(c)
    BY <1>1, <1>11 DEF Finish, WorkerAt, Goto, HasWorker, Busy, procVars, callVars
<1> QED BY <1>2, <1>3, <1>4, <1>5, <1>6, <1>7, <1>8, <1>9, <1>10, <1>11, <1>12, <1>13 DEF Work

\* A step of submit starts its own worker or none, and takes no lock.
LEMMA SubmitFrame ==
    ASSUME TypeOK, NEW c \in Call, Submit(c) \/ Disconnect(c)
    PROVE  /\ up /\ up' /\ holder' = holder
           /\ \A d \in Call : d # c => call'[d] = call[d]
           /\ worker' = worker \/ (Spawn(c) /\ worker' = [worker EXCEPT ![c] = "spawned"])
           /\ Insert(c) \/ (jobs' = jobs /\ disk' = disk)
<1>1. CASE Insert(c)
    BY <1>1 DEF Insert, TypeOK, Answer, Replay, procVars, workVars
<1>2. CASE Lookup(c)
    BY <1>2 DEF Lookup, TypeOK, Answer, Replay, procVars, workVars, apiVars
<1> QED BY <1>1, <1>2 DEF Submit, Reject, RegisterEvents, RegisterCancellation, Spawn, Disconnect,
                    TypeOK, Answer, procVars, workVars, apiVars

\* Nor does it touch the worker of another call.
LEMMA SubmitElsewhere ==
    ASSUME TypeOK, NEW c \in Call, Submit(c) \/ Disconnect(c), NEW d \in Call, d # c
    PROVE  call'[d] = call[d] /\ worker'[d] = worker[d]
<1>1. call'[d] = call[d]
    BY SubmitFrame
<1>2. worker' = worker \/ worker' = [worker EXCEPT ![c] = "spawned"]
    BY SubmitFrame
<1>3. DOMAIN worker = Call
    BY DEF TypeOK
<1>4. worker'[d] = worker[d]
    BY ONLY <1>2, <1>3, d # c, d \in Call
<1> QED BY <1>1, <1>4

\* A cancel handler moves no call and no worker.
LEMMA CancelFrame ==
    ASSUME NEW k \in Canceller, CancelJob(k)
    PROVE  /\ up /\ UNCHANGED <<up, holder, call, worker>>
           /\ CancelRecord(k) \/ (jobs' = jobs /\ disk' = disk)
BY DEF CancelJob, CancelFlag, CancelRecord, CancelDropped, procVars, callVars, workVars, apiVars

-----------------------------------------------------------------------------
(* One job at a time on a connection.                                      *)

\* A worker in its critical section holds its connection.
LockHeld == \A c \in Call : Busy(c) /\ ConnOf[c] # NoConn => holder[ConnOf[c]] = c

\* Whoever is busy after a step that moves no lock was busy before it.
LEMMA LockStep ==
    ASSUME TypeOK, LockHeld, [Next]_vars
    PROVE  LockHeld'
<1> USE CallAssumption
<1>1. ASSUME NEW c \in Call, Submit(c) \/ Disconnect(c)
      PROVE  LockHeld'
    <2>1. ASSUME NEW d \in Call, Busy(d)' PROVE Busy(d)
        <3>1. CASE d # c
            <4>1. worker'[d] = worker[d]
                BY <1>1, <3>1, SubmitElsewhere
            <4> QED BY <2>1, <4>1 DEF Busy
        <3>2. CASE d = c
            <4>1. worker' = worker \/ worker' = [worker EXCEPT ![c] = "spawned"]
                BY <1>1, SubmitFrame
            <4>2. worker'[c] = worker[c] \/ worker'[c] = "spawned"
                BY <4>1 DEF TypeOK
            <4> QED BY <2>1, <3>2, <4>2 DEF Busy
        <3> QED BY <3>1, <3>2
    <2>2. holder' = holder
        BY <1>1, SubmitFrame
    <2> QED BY <2>1, <2>2 DEF LockHeld
<1>2. ASSUME NEW c \in Call, Work(c)
      PROVE  LockHeld'
    <2>1. \A d \in Call : d # c /\ Busy(d)' => Busy(d)
        BY <1>2, WorkFrame DEF Busy
    <2>2. CASE Begin(c)
        <3>1. LockFree(c) /\ holder' = Acquired(c)
            BY <2>2 DEF Begin
        <3>2. ASSUME NEW d \in Call, Busy(d)', ConnOf[d] # NoConn
              PROVE  holder'[ConnOf[d]] = d
            <4>1. ConnOf[d] \in Conn
                BY <3>2
            <4>2. CASE d = c
                BY <3>1, <4>1, <4>2 DEF Acquired
            <4>3. CASE d # c
                <5>1. holder[ConnOf[d]] = d
                    BY <2>1, <3>2, <4>3 DEF LockHeld
                <5>2. ConnOf[d] # ConnOf[c]
                    BY <3>1, <3>2, <5>1, NobodyAssumption DEF LockFree
                <5> QED BY <3>1, <4>1, <5>1, <5>2 DEF Acquired
            <4> QED BY <4>2, <4>3
        <3> QED BY <3>2 DEF LockHeld
    <2>3. CASE Finish(c)
        <3>1. holder' = Released(c) /\ Busy(c) /\ ~Busy(c)'
            BY <1>2, <2>3, WorkFrame DEF Finish, WorkerAt, Goto, Busy, TypeOK
        <3>2. ASSUME NEW d \in Call, Busy(d)', ConnOf[d] # NoConn
              PROVE  holder'[ConnOf[d]] = d
            <4>1. ConnOf[d] \in Conn /\ d # c
                BY <3>1, <3>2
            <4>2. holder[ConnOf[d]] = d
                BY <2>1, <3>2, <4>1 DEF LockHeld
            <4>3. ConnOf[d] # ConnOf[c]
                BY <3>1, <3>2, <4>1, <4>2 DEF LockHeld
            <4> QED BY <3>1, <4>1, <4>2, <4>3 DEF Released
        <3> QED BY <3>2 DEF LockHeld
    <2>4. CASE Busy(c) /\ Busy(c)' /\ holder' = holder
        BY <2>1, <2>4 DEF LockHeld
    <2> QED BY <1>2, <2>2, <2>3, <2>4, WorkFrame
<1>3. ASSUME NEW k \in Canceller, CancelJob(k)
      PROVE  LockHeld'
    BY <1>3, CancelFrame DEF LockHeld, Busy
<1>4. CASE Crash
    <2>1. \A d \in Call : ~Busy(d)'
        BY <1>4 DEF Crash, Busy
    <2> QED BY <2>1 DEF LockHeld
<1>5. CASE Restart
    BY <1>5 DEF Restart, LockHeld, Busy, workVars
<1>6. CASE UNCHANGED vars
    BY <1>6 DEF vars, LockHeld, Busy, workVars
<1> QED BY <1>1, <1>2, <1>3, <1>4, <1>5, <1>6 DEF Next

\* "Only one job can use a connection at a time", for any number of calls,
\* workers, crashes and connections.
THEOREM Exclusive == Spec => []ConnectionExclusive
<1>1. Init => LockHeld
    BY DEF Init, LockHeld, Busy
<1>2. LockHeld => ConnectionExclusive
    BY DEF LockHeld, ConnectionExclusive
<1> QED BY <1>1, <1>2, LockStep, TypeCorrect, PTL DEF Spec

-----------------------------------------------------------------------------
(* A live job is retained.                                                 *)

\* The calls whose job is in the map and whose worker is still to be spawned.
Pending(c) == call[c] \in {"inserted", "evented", "registered"}

Kept(c) == jobs[IdOf[c]].by = c /\ jobs[IdOf[c]].state \in Live

\* What has a worker, or is about to, has its live job in the map.
JobKept == \A c \in Call : HasWorker(c) \/ Pending(c) => up /\ Kept(c)

\* Only an accepted call has, or had, a worker.
WorkerAccepted == \A c \in Call : worker[c] # "none" => call[c] = "accepted"

KeptInv == TypeOK /\ JobKept /\ WorkerAccepted

\* submit reaches the stages after the insert one after the other.
LEMMA SubmitCall ==
    ASSUME TypeOK, NEW c \in Call, Submit(c) \/ Disconnect(c)
    PROVE  /\ call[c] # "accepted"
           /\ Insert(c) => call[c] = "planning"
           /\ Pending(c)' => Pending(c) \/ Insert(c)
           /\ Spawn(c) => Pending(c) /\ call'[c] = "accepted"
<1>1. CASE Insert(c)
    BY <1>1 DEF Insert, Spawn
<1>2. CASE Lookup(c)
    BY <1>2 DEF Lookup, TypeOK, Answer, Replay, Pending, Insert, Spawn
<1>3. CASE Disconnect(c)
    BY <1>3 DEF Disconnect, TypeOK, Answer, Pending, Awaiting, Insert, Spawn
<1> QED BY <1>1, <1>2, <1>3 DEF Submit, Reject, RegisterEvents, RegisterCancellation, Spawn,
                    Insert, TypeOK, Answer, Pending

\* An insert evicts and overwrites finished jobs only: a live job of another
\* call has another id, or else the same key, which the insert looks up first.
LEMMA InsertKeeps ==
    ASSUME TypeOK, NEW c \in Call, Insert(c), NEW d \in Call, d # c, Kept(d)
    PROVE  Kept(d)'
<1> USE IdAssumption
<1>1. CASE jobs' = jobs
    BY <1>1 DEF Kept
<1>2. CASE Recheck(c) = {} /\ \E room \in Room(c) :
               jobs' = [room EXCEPT ![IdOf[c]] = [state |-> "queued", by |-> c]]
    <2>1. PICK room \in Room(c) :
              jobs' = [room EXCEPT ![IdOf[c]] = [state |-> "queued", by |-> c]]
        BY <1>2
    <2>2. IdOf[d] \in Retained(jobs)
        BY DEF Kept, Retained, NoJob, Live
    <2>3. ~(KeyOf[c] # NoKey /\ KeyOf[d] = KeyOf[c])
        BY <1>2, <2>2 DEF Recheck, KeyHolders, Kept
    <2>4. IdOf[d] # IdOf[c]
        BY <2>3
    <2>5. /\ room \in [Id -> Job \cup {NoJob}]
          /\ \A i \in Id : room[i] = jobs[i] \/ jobs[i].state \in Terminal
        BY RoomType DEF TypeOK
    <2>6. room[IdOf[d]] = jobs[IdOf[d]]
        BY <2>5 DEF Kept, Live, Terminal
    <2>7. jobs'[IdOf[d]] = jobs[IdOf[d]]
        BY <2>1, <2>4, <2>5, <2>6
    <2> QED BY <2>7 DEF Kept
<1> QED BY <1>1, <1>2 DEF Insert

\* A call that has just inserted has its job in the map.
LEMMA InsertKept ==
    ASSUME TypeOK, NEW c \in Call, Insert(c), Pending(c)'
    PROVE  Kept(c)'
<1>1. Recheck(c) = {} /\ \E room \in Room(c) :
          jobs' = [room EXCEPT ![IdOf[c]] = [state |-> "queued", by |-> c]]
    BY DEF Insert, Pending, Answer, Replay, TypeOK
<1>2. PICK room \in Room(c) :
          jobs' = [room EXCEPT ![IdOf[c]] = [state |-> "queued", by |-> c]]
    BY <1>1
<1>3. room \in [Id -> Job \cup {NoJob}]
    BY RoomType DEF TypeOK
<1> QED BY <1>2, <1>3, IdAssumption DEF Kept, Live

\* A cancellation keeps a live job live and in its place.
LEMMA CancelKeeps ==
    ASSUME TypeOK, NEW k \in Canceller, CancelJob(k), NEW d \in Call, Kept(d)
    PROVE  Kept(d)'
<1> USE IdAssumption
<1>1. CASE jobs' = jobs
    BY <1>1 DEF Kept
<1>2. CASE target[k] \in Retained(jobs)
           /\ jobs' = [jobs EXCEPT ![target[k]] = RequestCancel(jobs[target[k]])]
    <2>1. CASE target[k] # IdOf[d]
        BY <1>2, <2>1 DEF Kept, TypeOK
    <2>2. CASE target[k] = IdOf[d]
        <3>1. jobs[IdOf[d]] \in Job
            BY <1>2, <2>2 DEF Retained, TypeOK
        <3>2. RequestCancel(jobs[IdOf[d]]) = [jobs[IdOf[d]] EXCEPT !.state = "cancel-requested"]
            BY DEF RequestCancel, Kept, Live, Terminal
        <3>3. jobs'[IdOf[d]].by = d /\ jobs'[IdOf[d]].state = "cancel-requested"
            BY <1>2, <2>2, <3>1, <3>2 DEF Kept, TypeOK, Job
        <3> QED BY <3>3 DEF Kept, Live
    <2> QED BY <2>1, <2>2
<1> QED BY <1>1, <1>2, CancelFrame DEF CancelRecord

\* The invariant is inductive.
LEMMA KeptStep ==
    ASSUME KeptInv, [Next]_vars
    PROVE  JobKept' /\ WorkerAccepted'
<1> USE DEF KeptInv
<1>1. ASSUME NEW c \in Call, Submit(c) \/ Disconnect(c)
      PROVE  JobKept' /\ WorkerAccepted'
    <2>1. \A d \in Call : HasWorker(d)' => HasWorker(d) \/ (d = c /\ Spawn(c))
        BY <1>1, SubmitFrame DEF HasWorker, Busy, TypeOK
    <2>2. WorkerAccepted'
        <3>1. CASE worker' = worker
            BY <1>1, <3>1, SubmitFrame, SubmitCall DEF WorkerAccepted
        <3>2. CASE Spawn(c) /\ worker' = [worker EXCEPT ![c] = "spawned"]
            <4>1. \A d \in Call : d # c => worker'[d] = worker[d] /\ call'[d] = call[d]
                BY <1>1, <3>2, SubmitFrame DEF TypeOK
            <4> QED BY <1>1, <3>2, <4>1, SubmitCall DEF WorkerAccepted
        <3> QED BY <1>1, <3>1, <3>2, SubmitFrame
    <2>3. ~HasWorker(c)
        BY <1>1, SubmitCall DEF WorkerAccepted, HasWorker, Busy
    <2>4. ASSUME NEW d \in Call, HasWorker(d)' \/ Pending(d)'
          PROVE  up' /\ Kept(d)'
        <3>1. up'
            BY <1>1, SubmitFrame
        <3>2. CASE d = c /\ Insert(c)
            <4>1. Pending(c)'
                BY <2>1, <2>3, <2>4, <3>2 DEF Insert, Spawn
            <4> QED BY <3>1, <3>2, <4>1, InsertKept
        <3>3. CASE d = c /\ ~Insert(c)
            <4>1. Pending(c)
                BY <1>1, <2>1, <2>3, <2>4, <3>3, SubmitCall
            <4> QED BY <1>1, <3>1, <3>3, <4>1, SubmitFrame DEF JobKept, Kept
        <3>4. CASE d # c
            <4>1. Kept(d)
                BY <1>1, <2>1, <2>4, <3>4, SubmitFrame DEF JobKept, Pending
            <4> QED BY <1>1, <3>1, <3>4, <4>1, InsertKeeps, SubmitFrame DEF Kept
        <3> QED BY <3>2, <3>3, <3>4
    <2> QED BY <2>2, <2>4 DEF JobKept
<1>2. ASSUME NEW c \in Call, Work(c)
      PROVE  JobKept' /\ WorkerAccepted'
    <2>1. \A d \in Call : HasWorker(d)' => HasWorker(d)
        BY <1>2, WorkFrame DEF HasWorker, Busy
    <2>2. WorkerAccepted'
        BY <1>2, WorkFrame DEF WorkerAccepted, HasWorker, Busy
    <2>3. ASSUME NEW d \in Call, HasWorker(d)' \/ Pending(d)'
          PROVE  up' /\ Kept(d)'
        <3>1. Kept(d) /\ up'
            BY <1>2, <2>1, <2>3, WorkFrame DEF JobKept, Pending
        <3>2. CASE Finish(c)
            <4>1. d # c
                <5>1. worker'[c] = "done"
                    BY <3>2 DEF Finish, Goto, TypeOK
                <5>2. call'[c] = "accepted"
                    BY <1>2, WorkFrame DEF WorkerAccepted, HasWorker, Busy
                <5> QED BY <2>3, <5>1, <5>2 DEF HasWorker, Busy, Pending
            <4>2. Kept(c)
                BY <1>2, WorkFrame DEF JobKept
            <4>3. IdOf[d] # IdOf[c]
                BY <3>1, <4>1, <4>2 DEF Kept
            <4> QED BY <3>1, <3>2, <4>3, IdAssumption DEF Finish, Kept, TypeOK
        <3> QED BY <1>2, <3>1, <3>2, WorkFrame DEF Kept
    <2> QED BY <2>2, <2>3 DEF JobKept
<1>3. ASSUME NEW k \in Canceller, CancelJob(k)
      PROVE  JobKept' /\ WorkerAccepted'
    BY <1>3, CancelFrame, CancelKeeps DEF JobKept, WorkerAccepted, HasWorker, Busy, Pending
<1>4. CASE Crash
    <2>1. \A d \in Call : ~HasWorker(d)' /\ ~Pending(d)'
        BY <1>4 DEF Crash, HasWorker, Busy, Pending, InFlight, TypeOK
    <2>2. WorkerAccepted'
        BY <1>4 DEF Crash, WorkerAccepted, InFlight, TypeOK
    <2> QED BY <2>1, <2>2 DEF JobKept
<1>5. CASE Restart
    BY <1>5 DEF Restart, JobKept, WorkerAccepted, HasWorker, Busy, Pending, workVars, callVars
<1>6. CASE UNCHANGED vars
    BY <1>6 DEF vars, JobKept, WorkerAccepted, HasWorker, Busy, Pending, Kept, workVars,
                callVars, procVars, apiVars
<1> QED BY <1>1, <1>2, <1>3, <1>4, <1>5, <1>6 DEF Next

\* It holds in every reachable state.
LEMMA KeptAlways == Spec => []KeptInv
<1>1. Init => JobKept /\ WorkerAccepted
    BY DEF Init, JobKept, WorkerAccepted, HasWorker, Busy, Pending
<1> QED BY <1>1, KeptStep, TypeCorrect, PTL DEF Spec, KeptInv

\* Whatever submissions, evictions and cancellations do, a job whose worker has
\* not finished stays in the map, unfinished, under its own id.
THEOREM LiveRetained == Spec => []LiveJobRetained
<1>1. KeptInv => LiveJobRetained
    BY DEF KeptInv, JobKept, Kept, LiveJobRetained
<1> QED BY <1>1, KeptAlways, PTL

-----------------------------------------------------------------------------
(* One job per idempotency key.                                            *)

\* No two jobs of a map share a key.
Apart(js) == \A i, j \in Retained(js) : i # j => ~SameKey(js[i].by, js[j].by)

\* A map whose jobs are all of another map's is apart when that one is.
LEMMA ApartThinner ==
    ASSUME NEW js, NEW other, Apart(js), Retained(other) \subseteq Retained(js),
           \A i \in Retained(other) : other[i].by = js[i].by
    PROVE  Apart(other)
<1> SUFFICES ASSUME NEW i \in Retained(other), NEW j \in Retained(other), i # j
             PROVE  ~SameKey(other[i].by, other[j].by)
    BY DEF Apart
<1>1. ~SameKey(js[i].by, js[j].by)
    BY DEF Apart
<1> QED BY ONLY <1>1, \A k \in Retained(other) : other[k].by = js[k].by,
              i \in Retained(other), j \in Retained(other)

\* An insert finds no job with its key in the map.
LEMMA InsertApart ==
    ASSUME TypeOK, Apart(jobs), NEW c \in Call, Recheck(c) = {}, NEW room \in Room(c),
           jobs' = [room EXCEPT ![IdOf[c]] = [state |-> "queued", by |-> c]]
    PROVE  Apart(jobs')
<1> USE IdAssumption
<1>1. /\ room \in [Id -> Job \cup {NoJob}]
      /\ \A i \in Id : room[i] = jobs[i] \/ room[i] = NoJob
    BY RoomType DEF TypeOK
<1>2. jobs'[IdOf[c]].by = c /\ \A i \in Id : i # IdOf[c] => jobs'[i] = room[i]
    BY <1>1
<1>3. ASSUME NEW i \in Retained(jobs'), i # IdOf[c]
      PROVE  i \in Retained(jobs) /\ jobs'[i].by = jobs[i].by
    BY <1>1, <1>2, <1>3 DEF Retained
<1>4. ASSUME NEW i \in Retained(jobs'), i # IdOf[c]
      PROVE  ~SameKey(c, jobs'[i].by) /\ ~SameKey(jobs'[i].by, c)
    BY <1>3, <1>4 DEF Recheck, KeyHolders, SameKey
<1> SUFFICES ASSUME NEW i \in Retained(jobs'), NEW j \in Retained(jobs'), i # j
             PROVE  ~SameKey(jobs'[i].by, jobs'[j].by)
    BY DEF Apart
<1>5. CASE i = IdOf[c]
    <2>1. jobs'[i].by = c
        BY <1>2, <1>5
    <2>2. ~SameKey(c, jobs'[j].by)
        BY <1>4, <1>5
    <2> QED BY <2>1, <2>2
<1>6. CASE j = IdOf[c]
    <2>1. jobs'[j].by = c
        BY <1>2, <1>6
    <2>2. ~SameKey(jobs'[i].by, c)
        BY <1>4, <1>6
    <2> QED BY <2>1, <2>2
<1>7. CASE i # IdOf[c] /\ j # IdOf[c]
    <2>1. i \in Retained(jobs) /\ j \in Retained(jobs)
          /\ jobs'[i].by = jobs[i].by /\ jobs'[j].by = jobs[j].by
        BY <1>3, <1>7
    <2> QED BY <2>1 DEF Apart
<1> QED BY <1>5, <1>6, <1>7

\* A finishing worker puts its job where its job is.
LEMMA FinishApart ==
    ASSUME TypeOK, Apart(jobs), NEW c \in Call, Kept(c),
           jobs' = [jobs EXCEPT ![IdOf[c]] = [state |-> verdict[c], by |-> c]]
    PROVE  Apart(jobs')
<1>0. IdOf[c] \in Id
    BY IdAssumption
<1>1. IdOf[c] \in Retained(jobs)
    BY <1>0 DEF Kept, Retained, NoJob, Live
<1>2. \A i \in Id : jobs'[i].by = jobs[i].by /\ (i # IdOf[c] => jobs'[i] = jobs[i])
    BY <1>0 DEF Kept, TypeOK
<1>3. Retained(jobs') \subseteq Retained(jobs)
    BY <1>1, <1>2 DEF Retained
<1>4. \A i \in Retained(jobs') : jobs'[i].by = jobs[i].by
    BY <1>2 DEF Retained
<1> QED BY ONLY <1>3, <1>4, Apart(jobs), ApartThinner

\* So does a cancellation.
LEMMA CancelApart ==
    ASSUME TypeOK, Apart(jobs), NEW i \in Retained(jobs),
           jobs' = [jobs EXCEPT ![i] = RequestCancel(jobs[i])]
    PROVE  Apart(jobs')
<1>1. i \in Id /\ jobs[i] \in Job
    BY DEF Retained, TypeOK
<1>2. RequestCancel(jobs[i]).by = jobs[i].by
    BY <1>1 DEF RequestCancel, Job
<1>3. \A j \in Id : jobs'[j].by = jobs[j].by /\ (j # i => jobs'[j] = jobs[j])
    BY <1>1, <1>2 DEF TypeOK
<1>4. Retained(jobs') \subseteq Retained(jobs)
    BY <1>3 DEF Retained
<1>5. \A j \in Retained(jobs') : jobs'[j].by = jobs[j].by
    BY <1>3 DEF Retained
<1> QED BY ONLY <1>4, <1>5, Apart(jobs), ApartThinner

\* A restart loads the jobs of the file.
LEMMA LoadedApart ==
    ASSUME TypeOK, Apart(disk)
    PROVE  Apart(Loaded(disk))
<1>1. \A i \in Id : Loaded(disk)[i].by = disk[i].by /\ (disk[i] = NoJob => Loaded(disk)[i] = NoJob)
    BY DEF Loaded, TypeOK, Job, NoJob, Live
<1>2. Retained(Loaded(disk)) \subseteq Retained(disk)
    BY <1>1 DEF Retained
<1>3. \A i \in Retained(Loaded(disk)) : Loaded(disk)[i].by = disk[i].by
    BY <1>1 DEF Retained
<1> QED BY <1>2, <1>3, ApartThinner

ApartInv == Apart(jobs) /\ Apart(disk)

\* The two maps stay apart; saving copies one to the other.
LEMMA ApartStep ==
    ASSUME KeptInv, ApartInv, [Next]_vars
    PROVE  ApartInv'
<1> USE DEF KeptInv, ApartInv
<1>1. ASSUME NEW c \in Call, Submit(c) \/ Disconnect(c)
      PROVE  Apart(jobs') /\ Apart(disk')
    <2>1. CASE Insert(c) /\ ~UNCHANGED <<jobs, disk>>
        <3>1. Recheck(c) = {} /\ \E room \in Room(c), ok \in SaveOutcome :
                  /\ jobs' = [room EXCEPT ![IdOf[c]] = [state |-> "queued", by |-> c]]
                  /\ Save(jobs', ok)
            BY <2>1 DEF Insert
        <3>2. Apart(jobs')
            BY <3>1, InsertApart
        <3> QED BY <3>1, <3>2 DEF Save
    <2> QED BY <1>1, <2>1, SubmitFrame
<1>2. ASSUME NEW c \in Call, Work(c)
      PROVE  Apart(jobs') /\ Apart(disk')
    <2>1. CASE Finish(c)
        <3>1. Kept(c)
            BY <1>2, WorkFrame DEF JobKept
        <3>2. Apart(jobs')
            BY <2>1, <3>1, FinishApart DEF Finish
        <3> QED BY <2>1, <3>2 DEF Finish, Save
    <2> QED BY <1>2, <2>1, WorkFrame
<1>3. ASSUME NEW k \in Canceller, CancelJob(k)
      PROVE  Apart(jobs') /\ Apart(disk')
    <2>1. CASE target[k] \in Retained(jobs) /\ CancelRecord(k)
        <3>1. Apart(jobs')
            BY <2>1, CancelApart DEF CancelRecord
        <3> QED BY <2>1, <3>1 DEF CancelRecord, Save
    <2> QED BY <1>3, <2>1, CancelFrame DEF CancelRecord
<1>4. CASE Crash
    <2>1. Apart(jobs')
        BY <1>4 DEF Crash, Apart, Retained, NoJobs
    <2> QED BY <1>4, <2>1 DEF Crash
<1>5. CASE Restart
    <2>1. Apart(NoJobs)
        BY DEF Apart, Retained, NoJobs
    <2> QED BY <1>5, <2>1, LoadedApart DEF Restart, LoadOutcome
<1>6. CASE UNCHANGED vars
    BY <1>6 DEF vars, apiVars
<1> QED BY <1>1, <1>2, <1>3, <1>4, <1>5, <1>6 DEF Next

\* However submissions with one key interleave, and whatever is cancelled,
\* evicted, not saved or lost in a crash, the map and the file never hold two
\* jobs of that key.
THEOREM KeysApart == Spec => []OneJobPerKey
<1>1. Init => ApartInv
    BY DEF Init, NoJobs, ApartInv, Apart, Retained
<1>2. ApartInv => OneJobPerKey
    BY DEF ApartInv, Apart, OneJobPerKey
<1> QED BY <1>1, <1>2, ApartStep, KeptAlways, PTL DEF Spec

-----------------------------------------------------------------------------
(* The number of retained jobs.                                            *)

Bounded(js) == IsFiniteSet(Retained(js)) /\ Cardinality(Retained(js)) <= MaxRecent

\* A map that retains no more ids than another one is bounded with it.
LEMMA BoundedThinner ==
    ASSUME NEW js, NEW other, Bounded(js), Retained(other) \subseteq Retained(js)
    PROVE  Bounded(other)
<1>1. /\ IsFiniteSet(Retained(other))
      /\ Cardinality(Retained(other)) <= Cardinality(Retained(js))
    BY FS_Subset DEF Bounded
<1>2. Cardinality(Retained(js)) \in Nat /\ Cardinality(Retained(other)) \in Nat
    BY <1>1, FS_CardinalityType DEF Bounded
<1> QED BY <1>1, <1>2, BoundAssumption DEF Bounded

\* Once room has been made there is room for one more id.
LEMMA RoomForOne ==
    ASSUME TypeOK, Bounded(jobs), NEW c \in Call, NEW room \in Room(c)
    PROVE  IsFiniteSet(Retained(room)) /\ Cardinality(Retained(room)) < MaxRecent
<1>0. IsFiniteSet(Retained(jobs)) /\ Cardinality(Retained(jobs)) \in Nat /\ MaxRecent \in Nat
    BY FS_CardinalityType, BoundAssumption DEF Bounded
<1>1. CASE Cardinality(Retained(jobs)) >= MaxRecent
    <2>1. PICK old \in Retained(jobs) : room = [jobs EXCEPT ![old] = NoJob]
        BY <1>1 DEF Room, Removable
    <2>2. \A i \in Id : room[i] = IF i = old THEN NoJob ELSE jobs[i]
        BY <2>1 DEF TypeOK, Retained
    <2>3. Retained(room) = Retained(jobs) \ {old}
        BY <2>1, <2>2 DEF Retained
    <2>4. /\ IsFiniteSet(Retained(jobs) \ {old})
          /\ Cardinality(Retained(jobs) \ {old}) = Cardinality(Retained(jobs)) - 1
        BY <1>0, <2>1, FS_RemoveElement
    <2> QED BY <1>0, <2>3, <2>4 DEF Bounded
<1>2. CASE ~(Cardinality(Retained(jobs)) >= MaxRecent)
    <2>1. room = jobs
        BY <1>2 DEF Room
    <2> QED BY <1>0, <1>2, <2>1
<1> QED BY <1>1, <1>2

\* A set grows by at most the element it gains.
LEMMA OneMore ==
    ASSUME NEW S, NEW x, IsFiniteSet(S)
    PROVE  /\ IsFiniteSet(S \cup {x})
           /\ Cardinality(S \cup {x}) \in Nat
           /\ Cardinality(S \cup {x}) <= Cardinality(S) + 1
<1>1. IsFiniteSet(S \cup {x}) /\ Cardinality(S) \in Nat
    BY FS_AddElement, FS_CardinalityType
<1>2. Cardinality(S \cup {x}) = IF x \in S THEN Cardinality(S) ELSE Cardinality(S) + 1
    BY FS_AddElement
<1>3. CASE x \in S
    <2>1. Cardinality(S \cup {x}) = Cardinality(S)
        BY <1>2, <1>3
    <2> QED BY <1>1, <2>1
<1>4. CASE x \notin S
    <2>1. Cardinality(S \cup {x}) = Cardinality(S) + 1
        BY <1>2, <1>4
    <2> QED BY <1>1, <2>1
<1> QED BY <1>3, <1>4

\* An insert adds one id to what made room for it.
LEMMA InsertBounded ==
    ASSUME TypeOK, Bounded(jobs), NEW c \in Call, NEW room \in Room(c),
           jobs' = [room EXCEPT ![IdOf[c]] = [state |-> "queued", by |-> c]]
    PROVE  Bounded(jobs')
<1>1. IsFiniteSet(Retained(room)) /\ Cardinality(Retained(room)) < MaxRecent
      /\ Cardinality(Retained(room)) \in Nat /\ MaxRecent \in Nat
    BY RoomForOne, FS_CardinalityType, BoundAssumption
<1>2. \A i \in Id : i # IdOf[c] => jobs'[i] = room[i]
    BY RoomType, IdAssumption DEF TypeOK
<1>3. Retained(jobs') \subseteq Retained(room) \cup {IdOf[c]}
    BY <1>2 DEF Retained
<1>4. /\ IsFiniteSet(Retained(room) \cup {IdOf[c]})
      /\ Cardinality(Retained(room) \cup {IdOf[c]}) \in Nat
      /\ Cardinality(Retained(room) \cup {IdOf[c]}) <= Cardinality(Retained(room)) + 1
    BY <1>1, OneMore
<1>5. /\ IsFiniteSet(Retained(jobs'))
      /\ Cardinality(Retained(jobs')) <= Cardinality(Retained(room) \cup {IdOf[c]})
    BY <1>3, <1>4, FS_Subset
<1>6. Cardinality(Retained(jobs')) \in Nat
    BY <1>5, FS_CardinalityType
<1>7. Cardinality(Retained(jobs')) <= MaxRecent
    BY <1>1, <1>4, <1>5, <1>6
<1> QED BY <1>5, <1>7 DEF Bounded

\* Overwriting a retained job retains nothing new.
LEMMA OverwriteThinner ==
    ASSUME jobs \in [Id -> Job \cup {NoJob}], NEW i \in Retained(jobs), NEW job,
           jobs' = [jobs EXCEPT ![i] = job]
    PROVE  Retained(jobs') \subseteq Retained(jobs)
BY DEF Retained

BoundInv == Bounded(jobs) /\ Bounded(disk)

\* Both maps stay bounded: an insert that finds no room is refused, a worker
\* overwrites the job that is still there, and a save copies the map.
LEMMA BoundStep ==
    ASSUME KeptInv, BoundInv, [Next]_vars
    PROVE  BoundInv'
<1> USE DEF KeptInv, BoundInv
<1>1. ASSUME NEW c \in Call, Submit(c) \/ Disconnect(c)
      PROVE  Bounded(jobs') /\ Bounded(disk')
    <2>1. CASE Insert(c) /\ ~UNCHANGED <<jobs, disk>>
        <3>1. \E room \in Room(c), ok \in SaveOutcome :
                  /\ jobs' = [room EXCEPT ![IdOf[c]] = [state |-> "queued", by |-> c]]
                  /\ Save(jobs', ok)
            BY <2>1 DEF Insert
        <3>2. Bounded(jobs')
            BY <3>1, InsertBounded
        <3> QED BY <3>1, <3>2 DEF Save
    <2> QED BY <1>1, <2>1, SubmitFrame
<1>2. ASSUME NEW c \in Call, Work(c)
      PROVE  Bounded(jobs') /\ Bounded(disk')
    <2>1. CASE Finish(c)
        <3>1. Kept(c)
            BY <1>2, WorkFrame DEF JobKept
        <3>2. IdOf[c] \in Retained(jobs)
            BY <3>1, IdAssumption DEF Kept, Retained, NoJob, Live
        <3>3. Retained(jobs') \subseteq Retained(jobs)
            BY <2>1, <3>2, OverwriteThinner DEF Finish, TypeOK
        <3>4. Bounded(jobs')
            BY <3>3, BoundedThinner
        <3> QED BY <2>1, <3>4 DEF Finish, Save
    <2> QED BY <1>2, <2>1, WorkFrame
<1>3. ASSUME NEW k \in Canceller, CancelJob(k)
      PROVE  Bounded(jobs') /\ Bounded(disk')
    <2>1. CASE target[k] \in Retained(jobs) /\ CancelRecord(k)
        <3>1. Retained(jobs') \subseteq Retained(jobs)
            BY <2>1, OverwriteThinner DEF CancelRecord, TypeOK
        <3>2. Bounded(jobs')
            BY <3>1, BoundedThinner
        <3> QED BY <2>1, <3>2 DEF CancelRecord, Save
    <2> QED BY <1>3, <2>1, CancelFrame DEF CancelRecord
<1>4. CASE Crash
    <2>1. Retained(jobs') \subseteq Retained(jobs)
        BY <1>4 DEF Crash, Retained, NoJobs
    <2> QED BY <1>4, <2>1, BoundedThinner DEF Crash
<1>5. CASE Restart
    <2>1. Retained(Loaded(disk)) \subseteq Retained(disk)
        BY DEF Retained, Loaded, TypeOK, NoJob, Live
    <2>2. Bounded(Loaded(disk))
        BY <2>1, BoundedThinner
    <2>3. Bounded(NoJobs)
        <3>1. Retained(NoJobs) \subseteq Retained(disk)
            BY DEF Retained, NoJobs
        <3> QED BY <3>1, BoundedThinner
    <2> QED BY <1>5, <2>2, <2>3 DEF Restart, LoadOutcome
<1>6. CASE UNCHANGED vars
    BY <1>6 DEF vars, apiVars
<1> QED BY <1>1, <1>2, <1>3, <1>4, <1>5, <1>6 DEF Next

\* Neither the map nor the file ever holds more than max_recent_jobs jobs,
\* whatever their number of calls and whoever inserts, finishes or restarts.
THEOREM RetentionBounded == Spec => []RetentionBound
<1>1. Init => BoundInv
    <2>1. Retained(NoJobs) = {}
        BY DEF Retained, NoJobs
    <2>2. Cardinality({}) = 0 /\ IsFiniteSet({}) /\ 0 <= MaxRecent
        BY FS_EmptySet, BoundAssumption
    <2>3. Bounded(NoJobs)
        BY <2>1, <2>2 DEF Bounded
    <2> QED BY <2>3 DEF Init, BoundInv
<1>2. BoundInv => RetentionBound
    BY DEF BoundInv, Bounded, RetentionBound
<1> QED BY <1>1, <1>2, BoundStep, KeptAlways, PTL DEF Spec

-----------------------------------------------------------------------------
(* The verdict of a job is borne out by the printer.                       *)

Honest(state, c) ==
    /\ state \in {"failed", "cancelled-before-send"} => sent[c] = {}
    /\ state = "completed" => sent[c] = WriteSteps

\* What a worker knows, at each stage, of what may be on the wire.
Wire(c) ==
    /\ worker[c] \in {"none", "spawned", "opening"} => sent[c] = {} /\ at[c] = 0
    /\ worker[c] \in {"captured", "posting"} => sent[c] = {} /\ (WriteSteps # {} => paw[c])
    /\ worker[c] \in {"executing", "writing"} => sent[c] = {n \in WriteSteps : n <= at[c]}
    /\ worker[c] = "writing" => paw[c] /\ at[c] + 1 \in WriteSteps
    /\ worker[c] \in {"executing", "succeeded", "errored"} => (sent[c] # {} => paw[c])
    /\ worker[c] = "succeeded" => sent[c] = WriteSteps
    /\ worker[c] \in {"judged", "published"} => Honest(verdict[c], c)

WireInv == \A c \in Call : Wire(c)

\* A worker's step leaves alone what other workers know.
LEMMA WorkOthers ==
    ASSUME TypeOK, NEW c \in Call, Work(c), NEW d \in Call, d # c
    PROVE  /\ worker'[d] = worker[d] /\ at'[d] = at[d] /\ paw'[d] = paw[d]
           /\ verdict'[d] = verdict[d] /\ sent'[d] = sent[d]
<1>1. worker'[d] = worker[d]
    BY WorkFrame
<1>2. at'[d] = at[d]
    BY DEF Work, Begin, Open, ExecuteRead, ExecuteWrite, TransportWrite, Executed, IppCapture, IppCheck, IppPost, Judge,
           Publish, Finish, TypeOK
<1>3. paw'[d] = paw[d]
    BY DEF Work, Begin, Open, ExecuteRead, ExecuteWrite, TransportWrite, Executed, IppCapture, IppCheck, IppPost, Judge,
           Publish, Finish, TypeOK
<1>4. verdict'[d] = verdict[d]
    BY DEF Work, Begin, Open, ExecuteRead, ExecuteWrite, TransportWrite, Executed, IppCapture, IppCheck, IppPost, Judge,
           Publish, Finish, TypeOK
<1>5. sent'[d] = sent[d]
    BY DEF Work, Begin, Open, ExecuteRead, ExecuteWrite, TransportWrite, Executed, IppCapture, IppCheck, IppPost, Judge,
           Publish, Finish, TypeOK
<1> QED BY <1>1, <1>2, <1>3, <1>4, <1>5

\* A worker's step keeps what it knows true.
LEMMA WorkWire ==
    ASSUME TypeOK, NEW c \in Call, Wire(c), Work(c)
    PROVE  Wire(c)'
<1> USE DEF Wire
<1>0. /\ worker \in [Call -> Stage] /\ at \in [Call -> 0 .. Len(Plan)]
      /\ paw \in [Call -> BOOLEAN] /\ sent \in [Call -> SUBSET WriteSteps]
      /\ verdict \in [Call -> Terminal \cup {"queued"}]
      /\ WriteSteps \subseteq 1 .. Len(Plan) /\ Len(Plan) \in Nat
    BY CallAssumption DEF TypeOK, WriteSteps
<1>1. CASE Begin(c)
    BY <1>0, <1>1 DEF Begin, WorkerAt, Goto
<1>2. CASE Open(c)
    <2>1. sent' = sent /\ at' = at /\ paw' = paw /\ sent[c] = {} /\ at[c] = 0
        BY <1>2 DEF Open, WorkerAt
    <2>2. \A n \in WriteSteps : ~(n <= 0)
        BY <1>0
    <2>3. worker'[c] \in {"executing", "errored"}
        BY <1>0, <1>2 DEF Open, Goto
    <2> QED BY <2>1, <2>2, <2>3
<1>3. CASE ExecuteRead(c)
    <2>1. sent' = sent /\ paw' = paw /\ worker[c] = "executing" /\ at[c] + 1 \notin WriteSteps
        BY <1>0, <1>3 DEF ExecuteRead, WorkerAt, WriteSteps
    <2>2. \/ worker'[c] = "errored"
          \/ worker'[c] = "executing" /\ at'[c] = at[c] + 1
        BY <1>0, <1>3 DEF ExecuteRead, Goto
    <2>3. at[c] \in Nat /\ \A n \in WriteSteps : n \in Nat
        BY <1>0
    <2>4. \A n \in WriteSteps : n <= at[c] + 1 <=> n <= at[c]
        BY <2>1, <2>3
    <2>5. {n \in WriteSteps : n <= at[c] + 1} = {n \in WriteSteps : n <= at[c]}
        BY <2>4
    <2> QED BY <2>1, <2>2, <2>5
<1>4. CASE ExecuteWrite(c)
    <2>1. worker[c] = "executing" /\ paw'[c] /\ at' = at /\ sent' = sent
        BY <1>0, <1>4 DEF ExecuteWrite, WorkerAt
    <2>2. at[c] + 1 \in WriteSteps
        BY <1>0, <1>4 DEF ExecuteWrite, WriteSteps
    <2>3. worker'[c] \in {"writing", "errored"}
        BY <1>0, <1>4 DEF ExecuteWrite, Goto
    <2> QED BY <2>1, <2>2, <2>3
<1>11. CASE TransportWrite(c)
    <2>1. worker[c] = "writing" /\ paw'[c]
        BY <1>0, <1>11 DEF TransportWrite, WorkerAt
    <2>2. at[c] + 1 \in WriteSteps
        BY <1>11 DEF TransportWrite, WorkerAt
    <2>3. \/ worker'[c] = "errored"
          \/ worker'[c] = "executing" /\ at'[c] = at[c] + 1
             /\ sent'[c] = sent[c] \cup {at[c] + 1}
        BY <1>0, <1>11 DEF TransportWrite, Goto
    <2>4. at[c] \in Nat /\ \A n \in WriteSteps : n \in Nat
        BY <1>0
    <2>5. \A n \in WriteSteps : n <= at[c] + 1 <=> n <= at[c] \/ n = at[c] + 1
        BY <2>4
    <2>6. {n \in WriteSteps : n <= at[c] + 1} = {n \in WriteSteps : n <= at[c]} \cup {at[c] + 1}
        BY <2>2, <2>5
    <2> QED BY <2>1, <2>3, <2>6
<1>5. CASE Executed(c)
    <2>1. sent' = sent /\ paw' = paw /\ worker[c] = "executing" /\ at[c] = Len(Plan)
          /\ worker'[c] = "succeeded"
        BY <1>0, <1>5 DEF Executed, WorkerAt, Goto
    <2>2. \A n \in WriteSteps : n <= Len(Plan)
        BY <1>0
    <2>3. {n \in WriteSteps : n <= Len(Plan)} = WriteSteps
        BY <2>2
    <2> QED BY <2>1, <2>3
<1>6. CASE IppCapture(c)
    <2>1. sent' = sent /\ sent[c] = {}
        BY <1>6 DEF IppCapture, WorkerAt
    <2>2. worker'[c] = "errored" \/ (worker'[c] = "captured" /\ paw'[c] = (WriteSteps # {}))
        BY <1>0, <1>6 DEF IppCapture, Goto
    <2> QED BY <2>1, <2>2
<1>12. CASE IppCheck(c)
    BY <1>0, <1>12 DEF IppCheck, WorkerAt, Goto
<1>7. CASE IppPost(c)
    <2>1. paw' = paw /\ worker[c] = "posting" /\ sent'[c] \in SUBSET WriteSteps
        BY <1>0, <1>7 DEF IppPost, WorkerAt
    <2>2. worker'[c] = "errored" \/ (worker'[c] = "succeeded" /\ sent'[c] = WriteSteps)
        BY <1>0, <1>7 DEF IppPost, Goto
    <2> QED BY <2>1, <2>2
<1>8. CASE Judge(c)
    <2>1. sent' = sent /\ worker'[c] = "judged" /\ verdict'[c] = Outcome(c)
          /\ worker[c] \in {"succeeded", "errored"}
        BY <1>0, <1>8 DEF Judge, WorkerAt, Goto
    <2>2. Outcome(c) \in {"failed", "cancelled-before-send"} => ~paw[c]
        BY <2>1 DEF Outcome
    <2>3. Outcome(c) = "completed" => worker[c] = "succeeded"
        BY DEF Outcome
    <2> QED BY <2>1, <2>2, <2>3 DEF Honest
<1>9. CASE Publish(c)
    BY <1>0, <1>9 DEF Publish, WorkerAt, Goto, Honest
<1>10. CASE Finish(c)
    BY <1>0, <1>10 DEF Finish, WorkerAt, Goto
<1> QED BY <1>1, <1>2, <1>3, <1>4, <1>5, <1>6, <1>7, <1>8, <1>9, <1>10, <1>11, <1>12
        DEF Work

\* So does every step.
LEMMA WireStep ==
    ASSUME KeptInv, WireInv, [Next]_vars
    PROVE  WireInv'
<1> USE DEF KeptInv
<1>1. ASSUME NEW c \in Call, Submit(c) \/ Disconnect(c)
      PROVE  WireInv'
    <2>1. UNCHANGED <<at, paw, verdict, sent>>
        BY <1>1 DEF Submit, Lookup, Reject, Insert, RegisterEvents, RegisterCancellation, Spawn,
                    Disconnect, workVars
    <2>2. worker' = worker \/ (worker[c] = "none" /\ worker' = [worker EXCEPT ![c] = "spawned"])
        BY <1>1, SubmitFrame, SubmitCall DEF WorkerAccepted
    <2> QED BY <2>1, <2>2 DEF WireInv, Wire, Honest, TypeOK
<1>2. ASSUME NEW c \in Call, Work(c)
      PROVE  WireInv'
    BY <1>2, WorkWire, WorkOthers DEF WireInv, Wire, Honest
<1>3. ASSUME NEW k \in Canceller, CancelJob(k)
      PROVE  WireInv'
    BY <1>3 DEF CancelJob, CancelFlag, CancelRecord, CancelDropped, workVars, WireInv, Wire, Honest
<1>4. CASE Crash
    BY <1>4 DEF Crash, WireInv, Wire, Honest
<1>5. CASE Restart
    BY <1>5 DEF Restart, workVars, WireInv, Wire, Honest
<1>6. CASE UNCHANGED vars
    BY <1>6 DEF vars, workVars, WireInv, Wire, Honest
<1> QED BY <1>1, <1>2, <1>3, <1>4, <1>5, <1>6 DEF Next

\* A retained job has been inserted; a finished one has no worker, will get
\* none, and its verdict is true of the wire.
FinalJob(job) ==
    /\ call[job.by] \notin {"idle", "planning"}
    /\ job.state \in Terminal =>
           ~HasWorker(job.by) /\ ~Pending(job.by) /\ Honest(job.state, job.by)

Final(js) == \A i \in Retained(js) : FinalJob(js[i])

FinalInv == Final(jobs) /\ Final(disk)

HonestInv == KeptInv /\ WireInv /\ FinalInv

\* No step takes that from a job.
LEMMA FinalStays ==
    ASSUME HonestInv, [Next]_vars, NEW job \in Job, FinalJob(job)
    PROVE  FinalJob(job)'
<1> DEFINE d == job.by
<1> USE DEF HonestInv, KeptInv
<1>0. d \in Call
    BY DEF Job
<1> SUFFICES /\ call'[d] \notin {"idle", "planning"}
             /\ ~HasWorker(d) /\ ~Pending(d) =>
                    ~HasWorker(d)' /\ ~Pending(d)' /\ sent'[d] = sent[d]
    BY DEF FinalJob, Honest
<1>1. ASSUME NEW c \in Call, Submit(c) \/ Disconnect(c)
      PROVE  /\ call'[d] \notin {"idle", "planning"}
             /\ ~HasWorker(d) /\ ~Pending(d) =>
                    ~HasWorker(d)' /\ ~Pending(d)' /\ sent'[d] = sent[d]
    <2>1. sent' = sent
        BY <1>1 DEF Submit, Lookup, Reject, Insert, RegisterEvents, RegisterCancellation, Spawn,
                    Disconnect, workVars
    <2>2. CASE d # c
        <3>1. call'[d] = call[d]
            BY <1>0, <1>1, <2>2, SubmitFrame
        <3>2. worker'[d] = worker[d]
            BY <1>0, <1>1, <2>2, SubmitFrame DEF TypeOK
        <3> QED BY <2>1, <3>1, <3>2 DEF FinalJob, HasWorker, Busy, Pending
    <2>3. CASE d = c
        <3>1. ~Lookup(c) /\ ~Reject(c) /\ ~Insert(c)
            BY <2>3 DEF FinalJob, Lookup, Reject, Insert
        <3>2. Pending(c) /\ call'[c] \in {"evented", "registered", "accepted", "dropped"}
            BY <1>1, <2>3, <3>1 DEF Submit, RegisterEvents, RegisterCancellation, Spawn, Disconnect,
                                    Awaiting, FinalJob, Pending, Answer, TypeOK
        <3> QED BY <2>3, <3>2
    <2> QED BY <2>2, <2>3
<1>2. ASSUME NEW c \in Call, Work(c)
      PROVE  /\ call'[d] \notin {"idle", "planning"}
             /\ ~HasWorker(d) /\ ~Pending(d) =>
                    ~HasWorker(d)' /\ ~Pending(d)' /\ sent'[d] = sent[d]
    <2>1. call' = call /\ HasWorker(c)
        BY <1>2, WorkFrame
    <2>2. ~HasWorker(d) => worker'[d] = worker[d] /\ sent'[d] = sent[d]
        BY <1>0, <1>2, <2>1, WorkOthers
    <2> QED BY <2>1, <2>2 DEF FinalJob, HasWorker, Busy, Pending
<1>3. ASSUME NEW k \in Canceller, CancelJob(k)
      PROVE  /\ call'[d] \notin {"idle", "planning"}
             /\ ~HasWorker(d) /\ ~Pending(d) =>
                    ~HasWorker(d)' /\ ~Pending(d)' /\ sent'[d] = sent[d]
    BY <1>3 DEF CancelJob, CancelFlag, CancelRecord, CancelDropped, callVars, workVars, FinalJob,
                HasWorker, Busy, Pending
<1>4. ASSUME Crash
      PROVE  /\ call'[d] \notin {"idle", "planning"}
             /\ ~HasWorker(d) /\ ~Pending(d) =>
                    ~HasWorker(d)' /\ ~Pending(d)' /\ sent'[d] = sent[d]
    BY <1>0, <1>4 DEF Crash, FinalJob, HasWorker, Busy, Pending, InFlight
<1>5. CASE UNCHANGED <<call, worker, sent>>
    BY <1>5 DEF FinalJob, HasWorker, Busy, Pending
<1> QED BY <1>1, <1>2, <1>3, <1>4, <1>5 DEF Next, Restart, vars, callVars, workVars

\* A step keeps the invariant if it only moves jobs, or adds final ones.
LEMMA FinalMap ==
    ASSUME HonestInv, [Next]_vars,
           \A i \in Retained(jobs)' : (i \in Retained(jobs) /\ jobs'[i] = jobs[i])
                                     \/ FinalJob(jobs[i])',
           disk' \in {disk, jobs'}
    PROVE  FinalInv'
<1> USE DEF HonestInv, KeptInv
<1>1. ASSUME NEW i \in Retained(jobs)'
      PROVE  FinalJob(jobs[i])'
    <2>1. CASE i \in Retained(jobs) /\ jobs'[i] = jobs[i]
        <3>1. jobs[i] \in Job /\ FinalJob(jobs[i])
            BY <2>1 DEF FinalInv, Final, Retained, TypeOK
        <3>2. PICK job \in Job : job = jobs[i]
            BY <3>1
        <3>3. FinalJob(job)'
            BY <3>1, <3>2, FinalStays
        <3> QED BY <2>1, <3>2, <3>3 DEF FinalJob, Honest
    <2> QED BY <1>1, <2>1
<1>2. CASE disk' = jobs'
    BY <1>1, <1>2 DEF FinalInv, Final, Retained
<1>3. CASE disk' = disk
    <2>1. ASSUME NEW i \in Retained(disk)
          PROVE  FinalJob(disk[i])'
        <3>1. disk[i] \in Job /\ FinalJob(disk[i])
            BY <2>1 DEF FinalInv, Final, Retained, TypeOK
        <3>2. PICK job \in Job : job = disk[i]
            BY <3>1
        <3>3. FinalJob(job)'
            BY <3>1, <3>2, FinalStays
        <3> QED BY <1>3, <3>2, <3>3 DEF FinalJob, Honest
    <2> QED BY <1>1, <1>3, <2>1 DEF FinalInv, Final, Retained
<1> QED BY <1>2, <1>3

\* The job a worker finishes with is final.
LEMMA FinishFinal ==
    ASSUME HonestInv, NEW c \in Call, Finish(c)
    PROVE  FinalJob(jobs[IdOf[c]])' /\ \A i \in Id : i # IdOf[c] => jobs'[i] = jobs[i]
<1> USE IdAssumption DEF HonestInv, KeptInv
<1>1. jobs'[IdOf[c]] = [state |-> verdict[c], by |-> c]
      /\ \A i \in Id : i # IdOf[c] => jobs'[i] = jobs[i]
    BY DEF Finish, TypeOK
<1>2. worker[c] = "published" /\ worker'[c] = "done" /\ call' = call /\ sent' = sent
    BY DEF Finish, WorkerAt, Goto, TypeOK, callVars
<1>3. call'[c] = "accepted"
    BY <1>2 DEF WorkerAccepted
<1>4. Honest(verdict[c], c)
    BY <1>2 DEF WireInv, Wire
<1> QED BY <1>1, <1>2, <1>3, <1>4 DEF FinalJob, Honest, HasWorker, Busy, Pending

\* A job that is not finished is final as soon as it has been inserted.
LEMMA LiveFinal ==
    ASSUME NEW c \in Call, NEW i \in Id, jobs'[i].by = c, jobs'[i].state \in Live,
           call'[c] \notin {"idle", "planning"}
    PROVE  FinalJob(jobs[i])'
BY DEF FinalJob, Live, Terminal

\* The invariant is inductive.
LEMMA FinalStep ==
    ASSUME HonestInv, [Next]_vars
    PROVE  FinalInv'
<1> USE IdAssumption DEF HonestInv, KeptInv
<1>1. ASSUME NEW c \in Call, Submit(c) \/ Disconnect(c)
      PROVE  FinalInv'
    <2>1. CASE jobs' = jobs /\ disk' = disk
        BY <2>1, FinalMap DEF Retained
    <2>2. CASE Insert(c) /\ ~(jobs' = jobs /\ disk' = disk)
        <3>1. PICK room \in Room(c), ok \in SaveOutcome :
                  /\ jobs' = [room EXCEPT ![IdOf[c]] = [state |-> "queued", by |-> c]]
                  /\ Save(jobs', ok)
                  /\ Answer(c, AfterSave(ok))
            BY <2>2 DEF Insert
        <3>2. /\ room \in [Id -> Job \cup {NoJob}]
              /\ \A i \in Id : room[i] = jobs[i] \/ room[i] = NoJob
            BY RoomType DEF TypeOK
        <3>3. call'[c] \in {"inserted", "unsaved"}
            BY <3>1 DEF Answer, AfterSave, TypeOK
        <3>4. FinalJob(jobs[IdOf[c]])'
            BY <3>1, <3>2, <3>3, LiveFinal DEF Live
        <3>5. \A i \in Id : i # IdOf[c] => jobs'[i] = jobs[i] \/ jobs'[i] = NoJob
            BY <3>1, <3>2
        <3> QED BY <3>1, <3>4, <3>5, FinalMap DEF Retained, Save
    <2> QED BY <1>1, <2>1, <2>2, SubmitFrame
<1>2. ASSUME NEW c \in Call, Work(c)
      PROVE  FinalInv'
    <2>1. CASE jobs' = jobs /\ disk' = disk
        BY <2>1, FinalMap DEF Retained
    <2>2. CASE Finish(c)
        <3>1. disk' \in {disk, jobs'}
            BY <2>2 DEF Finish, Save
        <3> QED BY <2>2, <3>1, FinishFinal, FinalMap DEF Retained
    <2> QED BY <1>2, <2>1, <2>2, WorkFrame
<1>3. ASSUME NEW k \in Canceller, CancelJob(k)
      PROVE  FinalInv'
    <2>1. CASE jobs' = jobs /\ disk' = disk
        BY <2>1, FinalMap DEF Retained
    <2>2. CASE CancelRecord(k) /\ target[k] \in Retained(jobs)
        <3>0. PICK i \in Id : i = target[k]
            BY <2>2 DEF Retained
        <3>1. /\ i \in Retained(jobs) /\ jobs[i] \in Job /\ FinalJob(jobs[i])
              /\ jobs' = [jobs EXCEPT ![i] = RequestCancel(jobs[i])]
              /\ disk' \in {disk, jobs'} /\ call' = call
            BY <2>2, <3>0 DEF CancelRecord, Save, FinalInv, Final, Retained, TypeOK, callVars
        <3>2. jobs'[i] = RequestCancel(jobs[i]) /\ \A j \in Id : j # i => jobs'[j] = jobs[j]
            BY <3>1 DEF TypeOK
        <3>3. CASE jobs[i].state \in Terminal
            BY <2>2, <3>1, <3>2, <3>3, FinalMap DEF RequestCancel, Retained
        <3>4. CASE jobs[i].state \notin Terminal
            <4>1. jobs'[i].by = jobs[i].by /\ jobs'[i].state = "cancel-requested"
                BY <3>1, <3>2, <3>4 DEF RequestCancel, Job
            <4>2. jobs[i].by \in Call /\ call'[jobs[i].by] \notin {"idle", "planning"}
                BY <3>1 DEF FinalJob, Job
            <4>3. FinalJob(jobs[i])'
                BY <3>1, <4>1, <4>2 DEF FinalJob, Terminal
            <4> QED BY <3>1, <3>2, <4>3, FinalMap DEF Retained
        <3> QED BY <3>3, <3>4
    <2> QED BY <1>3, <2>1, <2>2, CancelFrame DEF CancelRecord
<1>4. CASE Crash
    <2>1. Retained(jobs)' = {}
        BY <1>4 DEF Crash, Retained, NoJobs
    <2> QED BY <1>4, <2>1, FinalMap DEF Crash
<1>5. CASE Restart
    <2>1. ~up /\ disk' = disk /\ UNCHANGED <<call, worker, sent>>
        BY <1>5 DEF Restart, callVars, workVars
    <2>0. CASE jobs' = NoJobs
        <3>1. Retained(jobs)' = {}
            BY <2>0 DEF Retained, NoJobs
        <3> QED BY <2>1, <3>1, FinalMap
    <2>2. ASSUME jobs' = Loaded(disk), NEW i \in Retained(jobs)'
          PROVE  FinalJob(jobs[i])'
        <3>1. i \in Id /\ disk[i] \in Job /\ FinalJob(disk[i])
            BY <2>1, <2>2 DEF Loaded, Retained, FinalInv, Final, TypeOK, NoJob, Live
        <3>2. ~HasWorker(disk[i].by) /\ ~Pending(disk[i].by)
            BY <2>1, <3>1 DEF JobKept, Job
        <3>3. jobs'[i].by = disk[i].by
              /\ (jobs'[i].state = disk[i].state \/ jobs'[i].state = "outcome-unknown")
            <4>1. jobs'[i] = disk[i] \/ jobs'[i] = [disk[i] EXCEPT !.state = "outcome-unknown"]
                BY ONLY <2>2, <3>1 DEF Loaded
            <4> QED BY ONLY <3>1, <4>1 DEF Job
        <3> QED BY <2>1, <3>1, <3>2, <3>3 DEF FinalJob, Honest, HasWorker, Busy, Pending, Terminal
    <2> QED BY <1>5, <2>0, <2>1, <2>2, FinalMap DEF Restart, LoadOutcome
<1>6. CASE UNCHANGED vars
    BY <1>6, FinalMap DEF vars, apiVars, Retained
<1> QED BY <1>1, <1>2, <1>3, <1>4, <1>5, <1>6 DEF Next

\* No verdict is more certain than what is known of the wire: a failed or
\* unsent job printed nothing, a completed one everything, for every plan,
\* every interleaving with cancellations and any number of crashes.
THEOREM VerdictsHonest == Spec => []HonestVerdict
<1>1. Init => WireInv /\ FinalInv
    BY DEF Init, WireInv, Wire, FinalInv, Final, Retained, NoJobs
<1>2. HonestInv => HonestVerdict
    BY DEF HonestInv, FinalInv, Final, FinalJob, Honest, HonestVerdict, Terminal
<1> QED BY <1>1, <1>2, WireStep, FinalStep, KeptAlways, PTL DEF Spec, HonestInv

-----------------------------------------------------------------------------
(* What the executor keeps over time: verdicts stand, in memory and in the     *)
(* file; an exact retry prints once; the jobs file implements PrintJournal; a  *)
(* cancellation reaches the worker; and an unfinished job has a worker when    *)
(* saves succeed and no client disconnects.                                    *)

-----------------------------------------------------------------------------
(* How a step changes the maps.                                            *)

\* Every job of a map is under its own id.
Placed(js) == \A i \in Retained(js) : IdOf[js[i].by] = i

MapsPlaced == Placed(jobs) /\ Placed(disk)

PlacedInv == HonestInv /\ MapsPlaced

\* An insert finds its id free: whoever has it would have the insert's key.
LEMMA InsertFree ==
    ASSUME HonestInv, NEW js \in {jobs, disk}, Placed(js), NEW c \in Call, call[c] = "planning",
           \A i \in Retained(js) : ~SameKey(c, js[i].by)
    PROVE  IdOf[c] \notin Retained(js)
<1> USE IdAssumption DEF HonestInv, KeptInv
<1> SUFFICES ASSUME IdOf[c] \in Retained(js) PROVE FALSE
    OBVIOUS
<1> DEFINE d == js[IdOf[c]].by
<1>1. js[IdOf[c]] \in Job /\ IdOf[c] \in Id
    BY DEF Retained, TypeOK
<1>2. d \in Call /\ IdOf[d] = IdOf[c] /\ call[d] # "planning"
    <2>1. d \in Call
        BY <1>1 DEF Job
    <2>2. FinalJob(js[IdOf[c]])
        BY DEF FinalInv, Final
    <2> QED BY <2>1, <2>2 DEF Placed, FinalJob
<1>3. d # c /\ ~SameKey(c, d)
    BY <1>2
<1>4. KeyOf[c] = KeyOf[d] /\ KeyOf[c] # NoKey
    BY <1>2, <1>3
<1> QED BY <1>3, <1>4 DEF SameKey

\* The ways the map of jobs changes at one id while the process runs.
Inserted(i) ==
    \E c \in Call : /\ Insert(c) /\ i = IdOf[c] /\ jobs[i] = NoJob
                    /\ jobs'[i] = [state |-> "queued", by |-> c]
                    /\ \/ disk' = disk /\ (Durable => call'[c] = "unsaved")
                       \/ disk' = jobs'
Ended(i) ==
    \E c \in Call : Finish(c) /\ i = IdOf[c] /\ Kept(c) /\ jobs'[i] = [state |-> verdict[c], by |-> c]
Evicted(i) == jobs[i].state \in Terminal /\ jobs'[i] = NoJob
CancelledAt(i) ==
    jobs[i] # NoJob /\ jobs[i].state \in Live /\ jobs'[i] = [jobs[i] EXCEPT !.state = "cancel-requested"]

MapStep ==
    /\ up /\ up' /\ disk' \in {disk, jobs'}
    /\ \A i \in Id : jobs'[i] = jobs[i] \/ Inserted(i) \/ Ended(i) \/ Evicted(i) \/ CancelledAt(i)

\* Whatever changes a map is one of those, a crash or a restart.
LEMMA MapSteps ==
    ASSUME PlacedInv, [Next]_vars
    PROVE  MapStep \/ Crash \/ Restart \/ UNCHANGED <<jobs, disk, up>>
<1> USE IdAssumption DEF PlacedInv, MapsPlaced, HonestInv, KeptInv
<1>1. ASSUME NEW c \in Call, Submit(c) \/ Disconnect(c)
      PROVE  MapStep
    <2>1. CASE jobs' = jobs /\ disk' = disk
        BY <1>1, <2>1, SubmitFrame DEF MapStep
    <2>2. CASE Insert(c) /\ ~(jobs' = jobs /\ disk' = disk)
        <3>1. Recheck(c) = {} /\ \E room \in Room(c), ok \in SaveOutcome :
                  /\ jobs' = [room EXCEPT ![IdOf[c]] = [state |-> "queued", by |-> c]]
                  /\ Save(jobs', ok) /\ Answer(c, AfterSave(ok))
            BY <2>2 DEF Insert
        <3>2. PICK room \in Room(c), ok \in SaveOutcome :
                  /\ jobs' = [room EXCEPT ![IdOf[c]] = [state |-> "queued", by |-> c]]
                  /\ Save(jobs', ok) /\ Answer(c, AfterSave(ok))
            BY <3>1
        <3>3. /\ room \in [Id -> Job \cup {NoJob}]
              /\ \A i \in Id : room[i] = jobs[i] \/ (room[i] = NoJob /\ jobs[i].state \in Terminal)
            BY RoomType DEF TypeOK
        <3>4. \A i \in Retained(jobs) : ~SameKey(c, jobs[i].by)
            BY <3>1 DEF Recheck, KeyHolders, SameKey
        <3>5. call[c] = "planning"
            BY <2>2 DEF Insert
        <3>6. jobs[IdOf[c]] = NoJob
            BY <3>4, <3>5, InsertFree DEF Retained
        <3>7. jobs'[IdOf[c]] = [state |-> "queued", by |-> c]
              /\ \A i \in Id : i # IdOf[c] => jobs'[i] = room[i]
            BY <3>2, <3>3
        <3>8. \/ disk' = disk /\ (Durable => call'[c] = "unsaved")
              \/ disk' = jobs'
            BY <3>2 DEF Save, Answer, AfterSave, TypeOK
        <3>9. Inserted(IdOf[c])
            BY <2>2, <3>6, <3>7, <3>8 DEF Inserted
        <3>10. \A i \in Id : i # IdOf[c] => jobs'[i] = jobs[i] \/ Evicted(i)
            BY <3>3, <3>7 DEF Evicted
        <3> QED BY <1>1, <3>8, <3>9, <3>10, SubmitFrame DEF MapStep
    <2> QED BY <1>1, <2>1, <2>2, SubmitFrame
<1>2. ASSUME NEW c \in Call, Work(c)
      PROVE  MapStep
    <2>1. CASE jobs' = jobs /\ disk' = disk
        BY <1>2, <2>1, WorkFrame DEF MapStep
    <2>2. CASE Finish(c)
        <3>1. Kept(c)
            BY <1>2, WorkFrame DEF JobKept
        <3>2. jobs'[IdOf[c]] = [state |-> verdict[c], by |-> c]
              /\ \A i \in Id : i # IdOf[c] => jobs'[i] = jobs[i]
            BY <2>2 DEF Finish, TypeOK
        <3>3. disk' \in {disk, jobs'}
            BY <2>2 DEF Finish, Save
        <3> QED BY <1>2, <2>2, <3>1, <3>2, <3>3, WorkFrame DEF MapStep, Ended
    <2> QED BY <1>2, <2>1, <2>2, WorkFrame
<1>3. ASSUME NEW k \in Canceller, CancelJob(k)
      PROVE  MapStep
    <2>1. CASE jobs' = jobs /\ disk' = disk
        BY <1>3, <2>1, CancelFrame DEF MapStep
    <2>2. CASE CancelRecord(k) /\ target[k] \in Retained(jobs)
        <3>1. PICK i \in Id : i = target[k]
            BY <2>2 DEF Retained
        <3>2. /\ jobs[i] \in Job /\ jobs[i] # NoJob /\ disk' \in {disk, jobs'}
              /\ jobs' = [jobs EXCEPT ![i] = RequestCancel(jobs[i])]
            BY <2>2, <3>1 DEF CancelRecord, Save, Retained, TypeOK
        <3>3. jobs'[i] = RequestCancel(jobs[i]) /\ \A j \in Id : j # i => jobs'[j] = jobs[j]
            BY <3>2 DEF TypeOK
        <3>4. jobs'[i] = jobs[i] \/ CancelledAt(i)
            BY <3>2, <3>3 DEF RequestCancel, CancelledAt, Job
        <3> QED BY <1>3, <3>2, <3>3, <3>4, CancelFrame DEF MapStep
    <2> QED BY <1>3, <2>1, <2>2, CancelFrame DEF CancelRecord
<1> QED BY <1>1, <1>2, <1>3 DEF Next, vars, apiVars, procVars

\* The jobs stay under their ids.
LEMMA PlacedStep ==
    ASSUME PlacedInv, [Next]_vars
    PROVE  MapsPlaced'
<1> USE IdAssumption DEF PlacedInv, MapsPlaced, HonestInv, KeptInv
<1>1. CASE MapStep
    <2>1. ASSUME NEW i \in Retained(jobs')
          PROVE  IdOf[jobs'[i].by] = i
        <3>1. i \in Id /\ jobs'[i] # NoJob
            BY DEF Retained
        <3>2. CASE jobs'[i] = jobs[i]
            BY <3>1, <3>2 DEF Placed, Retained
        <3>3. CASE Inserted(i)
            <4>1. PICK c \in Call : i = IdOf[c] /\ jobs'[i] = [state |-> "queued", by |-> c]
                BY <3>3 DEF Inserted
            <4> QED BY <4>1
        <3>5. CASE Ended(i)
            <4>1. PICK c \in Call : i = IdOf[c] /\ jobs'[i] = [state |-> verdict[c], by |-> c]
                BY <3>5 DEF Ended
            <4> QED BY <4>1
        <3>4. CASE CancelledAt(i)
            <4>1. jobs[i] \in Job
                BY <3>1, <3>4 DEF CancelledAt, TypeOK
            <4> QED BY <3>1, <3>4, <4>1 DEF CancelledAt, Placed, Retained, Job
        <3> QED BY <1>1, <3>1, <3>2, <3>3, <3>4, <3>5 DEF MapStep, Evicted
    <2> QED BY <1>1, <2>1 DEF MapStep, Placed
<1>2. CASE Crash
    BY <1>2 DEF Crash, Placed, Retained, NoJobs
<1>3. CASE Restart
    <2>1. \A i \in Retained(Loaded(disk)) : i \in Retained(disk) /\ Loaded(disk)[i].by = disk[i].by
        BY DEF Loaded, Retained, TypeOK, Job, NoJob, Live
    <2>2. Retained(NoJobs) = {}
        BY DEF Retained, NoJobs
    <2> QED BY <1>3, <2>1, <2>2 DEF Restart, LoadOutcome, Placed
<1> QED BY <1>1, <1>2, <1>3, MapSteps

\* It holds in every reachable state.
LEMMA PlacedAlways == Spec => []PlacedInv
<1>1. Init => WireInv /\ FinalInv /\ MapsPlaced
    BY DEF Init, WireInv, Wire, FinalInv, Final, MapsPlaced, Placed, Retained, NoJobs
<1> QED BY <1>1, WireStep, FinalStep, PlacedStep, KeptAlways, PTL DEF Spec, HonestInv, PlacedInv

-----------------------------------------------------------------------------
(* Verdicts in memory.                                                     *)

\* A finished job stays as it is until it is evicted.
LEMMA TerminalKept ==
    ASSUME PlacedInv, [Next]_vars, NEW i \in Id, up, up', jobs[i].state \in Terminal
    PROVE  jobs'[i] \in {jobs[i], NoJob}
<1>1. ~Crash /\ ~Restart
    BY DEF Crash, Restart
<1>2. jobs[i] # NoJob /\ jobs[i].state \notin Live
    BY DEF NoJob, Live, Terminal
<1>3. ~Inserted(i) /\ ~Ended(i) /\ ~CancelledAt(i)
    BY <1>2 DEF Inserted, Ended, CancelledAt, Kept
<1> QED BY <1>1, <1>3, MapSteps DEF MapStep, Evicted

\* A terminal state is never changed while the process runs, neither by a
\* cancellation that comes late nor by another submission or worker.
THEOREM VerdictStands == Spec => TerminalStands
<1>1. PlacedInv /\ [Next]_vars =>
          [\A i \in Id : up /\ up' /\ jobs[i].state \in Terminal => jobs'[i] \in {jobs[i], NoJob}]_vars
    BY TerminalKept
<1> QED BY <1>1, PlacedAlways, PTL DEF Spec, TerminalStands

-----------------------------------------------------------------------------
(* An exact retry prints once.                                             *)

\* Every id fits in the map; and the jobs file is kept and can be read again.
Spacious == IsFiniteSet(Id) /\ Cardinality(Id) <= MaxRecent
Roomy == Durable /\ ~LoadFaults /\ Spacious

\* What is to be printed, or has been, is in the file, and in memory while the
\* process runs.
Recorded(c) == disk[IdOf[c]].by = c /\ (up => jobs[IdOf[c]].by = c)

RecordedInv == \A c \in Call : Pending(c) \/ worker[c] # "none" => Recorded(c)

\* Then an insert evicts nothing.
LEMMA NothingEvicted ==
    ASSUME Spacious, TypeOK, NEW c \in Call, jobs[IdOf[c]] = NoJob
    PROVE  Room(c) = {jobs}
<1>1. IdOf[c] \in Id /\ IsFiniteSet(Id) /\ Cardinality(Id) \in Nat /\ MaxRecent \in Nat
    BY IdAssumption, BoundAssumption, FS_CardinalityType DEF Spacious
<1>2. Retained(jobs) \in SUBSET (Id \ {IdOf[c]})
    BY DEF Retained
<1>3. IsFiniteSet(Id \ {IdOf[c]}) /\ Cardinality(Id \ {IdOf[c]}) = Cardinality(Id) - 1
    BY <1>1, FS_RemoveElement
<1>4. IsFiniteSet(Retained(jobs)) /\ Cardinality(Retained(jobs)) <= Cardinality(Id) - 1
    BY <1>2, <1>3, FS_Subset
<1>5. Cardinality(Retained(jobs)) \in Nat
    BY <1>4, FS_CardinalityType
<1>6. ~(Cardinality(Retained(jobs)) >= MaxRecent)
    BY <1>1, <1>4, <1>5 DEF Spacious
<1> QED BY <1>6 DEF Room

\* A job that is there keeps its place and its call, in every step but a crash.
LEMMA PlaceKept ==
    ASSUME Spacious, PlacedInv, Next, ~Crash, up, NEW i \in Id, jobs[i] # NoJob
    PROVE  jobs'[i].by = jobs[i].by
<1> USE IdAssumption DEF PlacedInv, HonestInv, KeptInv
<1>1. CASE jobs'[i] = jobs[i]
    BY <1>1
<1>2. CASE Inserted(i)
    BY <1>2 DEF Inserted
<1>3. CASE Ended(i)
    BY <1>3 DEF Ended, Kept
<1>4. CASE CancelledAt(i)
    BY <1>4 DEF CancelledAt, TypeOK, Job
<1>5. CASE Evicted(i) /\ jobs'[i] # jobs[i]
    <2>1. \A c \in Call : ~(Insert(c) /\ ~(jobs' = jobs))
        <3> SUFFICES ASSUME NEW c \in Call, Insert(c), ~(jobs' = jobs) PROVE FALSE
            OBVIOUS
        <3>1. Recheck(c) = {} /\ call[c] = "planning"
              /\ \E room \in Room(c) : jobs' = [room EXCEPT ![IdOf[c]] = [state |-> "queued", by |-> c]]
            BY DEF Insert
        <3>2. \A j \in Retained(jobs) : ~SameKey(c, jobs[j].by)
            BY <3>1 DEF Recheck, KeyHolders, SameKey
        <3>3. jobs[IdOf[c]] = NoJob
            BY <3>1, <3>2, InsertFree DEF MapsPlaced, Retained
        <3>4. jobs' = [jobs EXCEPT ![IdOf[c]] = [state |-> "queued", by |-> c]]
            BY <3>1, <3>3, NothingEvicted
        <3>5. i # IdOf[c]
            BY <3>3
        <3>6. jobs'[i] = jobs[i]
            BY <3>4, <3>5 DEF TypeOK
        <3> QED BY <1>5, <3>6
    <2>2. \A c \in Call : ~Finish(c)
        <3> SUFFICES ASSUME NEW c \in Call, Finish(c) PROVE FALSE
            OBVIOUS
        <3>1. jobs' = [jobs EXCEPT ![IdOf[c]] = [state |-> verdict[c], by |-> c]]
            BY DEF Finish
        <3>2. jobs'[i] = jobs[i] \/ jobs'[i].by = c
            BY <3>1 DEF TypeOK
        <3> QED BY <1>5, <3>2, NobodyAssumption DEF Evicted, NoJob
    <2>3. \A k \in Canceller : ~(CancelRecord(k) /\ ~(jobs' = jobs))
        <3> SUFFICES ASSUME NEW k \in Canceller, CancelRecord(k), ~(jobs' = jobs) PROVE FALSE
            OBVIOUS
        <3>1. jobs' = [jobs EXCEPT ![target[k]] = RequestCancel(jobs[target[k]])]
              /\ target[k] \in Retained(jobs)
            BY DEF CancelRecord
        <3>2. jobs[target[k]] \in Job
            BY <3>1 DEF Retained, TypeOK
        <3>3. RequestCancel(jobs[target[k]]) \in Job
            BY <3>2, RequestCancelType
        <3>4. jobs'[i] = jobs[i] \/ jobs'[i] \in Job
            BY <3>1, <3>3 DEF TypeOK
        <3>5. NoJob \notin Job
            BY DEF NoJob, Job, Live, Terminal
        <3> QED BY <1>5, <3>4, <3>5 DEF Evicted
    <2>4. jobs' # jobs
        BY <1>5
    <2>5. \A c \in Call : ~(Submit(c) \/ Disconnect(c) \/ Work(c))
        BY <2>1, <2>2, <2>4, SubmitFrame, WorkFrame
    <2>6. \A k \in Canceller : ~CancelJob(k)
        BY <2>3, <2>4, CancelFrame
    <2> QED BY <2>5, <2>6 DEF Next, Restart
<1> QED BY <1>1, <1>2, <1>3, <1>4, <1>5, MapSteps DEF MapStep, Restart

\* Nobody becomes pending, or gets a worker, without having been inserted.
LEMMA NewlyPending ==
    ASSUME PlacedInv, Next, NEW d \in Call, Pending(d)' \/ worker'[d] # "none",
           ~(Pending(d) \/ worker[d] # "none")
    PROVE  up /\ up' /\ Insert(d) /\ Pending(d)' /\ jobs'[IdOf[d]].by = d
<1> USE DEF PlacedInv, HonestInv, KeptInv
<1>1. ~Crash /\ ~Restart
    BY DEF Crash, Restart, Pending, InFlight, TypeOK, callVars, workVars
<1>2. \A k \in Canceller : ~CancelJob(k)
    BY CancelFrame DEF Pending
<1>3. \A c \in Call : ~Work(c)
    <2> SUFFICES ASSUME NEW c \in Call, Work(c) PROVE FALSE
        OBVIOUS
    <2>1. worker[c] # "none" /\ call' = call /\ \A e \in Call : e # c => worker'[e] = worker[e]
        BY WorkFrame DEF HasWorker, Busy
    <2> QED BY <2>1 DEF Pending
<1>4. PICK c \in Call : Submit(c) \/ Disconnect(c)
    BY <1>1, <1>2, <1>3 DEF Next
<1>5. c = d /\ Insert(d)
    <2>1. CASE c # d
        BY <1>4, <2>1, SubmitFrame DEF Pending, TypeOK
    <2>2. CASE c = d /\ ~Insert(d)
        <3>1. ~Pending(d)' /\ ~Spawn(d)
            BY <1>4, <2>2, SubmitCall
        <3>2. worker' = worker
            BY <1>4, <2>2, <3>1, SubmitFrame
        <3> QED BY <3>1, <3>2
    <2> QED BY <2>1, <2>2
<1>6. worker' = worker
    BY <1>5 DEF Insert, workVars
<1>7. Pending(d)'
    BY <1>6
<1>8. Kept(d)'
    BY <1>5, <1>7, InsertKept
<1>9. up /\ up'
    BY <1>5, SubmitFrame DEF Submit
<1> QED BY <1>5, <1>7, <1>8, <1>9 DEF Kept

\* Nor without having been recorded, when the file is kept.
LEMMA NewlyRecorded ==
    ASSUME Roomy, PlacedInv, Next, NEW d \in Call, Pending(d)' \/ worker'[d] # "none",
           ~(Pending(d) \/ worker[d] # "none")
    PROVE  up /\ up' /\ disk' = jobs' /\ jobs'[IdOf[d]].by = d
<1> USE DEF PlacedInv, HonestInv, KeptInv
<1>1. up /\ up' /\ Insert(d) /\ Pending(d)' /\ jobs'[IdOf[d]].by = d
    BY NewlyPending
<1>2. call'[d] = "inserted"
    BY <1>1 DEF Insert, Pending, Answer, Replay, AfterSave, TypeOK
<1>3. \E ok \in SaveOutcome : Save(jobs', ok) /\ call'[d] = AfterSave(ok)
    BY <1>1, <1>2 DEF Insert, Answer, Replay, TypeOK
<1> QED BY <1>1, <1>2, <1>3 DEF Save, AfterSave, Roomy

LEMMA RecordedStep ==
    ASSUME Roomy, PlacedInv, RecordedInv, [Next]_vars
    PROVE  RecordedInv'
<1> USE IdAssumption DEF PlacedInv, HonestInv, KeptInv
<1> SUFFICES ASSUME NEW d \in Call, Pending(d)' \/ worker'[d] # "none"
             PROVE  Recorded(d)'
    BY DEF RecordedInv
<1>1. CASE UNCHANGED vars
    BY <1>1 DEF vars, procVars, apiVars, callVars, workVars, RecordedInv, Recorded, Pending
<1>2. CASE Next /\ ~(Pending(d) \/ worker[d] # "none")
    BY <1>2, NewlyRecorded DEF Recorded
<1>3. CASE Next /\ (Pending(d) \/ worker[d] # "none")
    <2>1. Recorded(d)
        BY <1>3 DEF RecordedInv
    <2>2. CASE Crash
        BY <2>1, <2>2 DEF Crash, Recorded
    <2>3. CASE Restart
        <3>1. Loaded(disk)[IdOf[d]].by = disk[IdOf[d]].by
            BY DEF Loaded, TypeOK, Job, NoJob, Live
        <3> QED BY <2>1, <2>3, <3>1 DEF Restart, LoadOutcome, Roomy, Recorded
    <2>4. CASE ~Crash /\ ~Restart
        <3>1. CASE MapStep
            <4>1. jobs[IdOf[d]].by = d /\ jobs[IdOf[d]] # NoJob
                BY <2>1, <3>1, NobodyAssumption DEF MapStep, Recorded, NoJob
            <4>2. jobs'[IdOf[d]].by = d
                BY <1>3, <2>4, <3>1, <4>1, PlaceKept DEF MapStep, Roomy
            <4> QED BY <2>1, <3>1, <4>2 DEF MapStep, Recorded
        <3>2. CASE UNCHANGED <<jobs, disk, up>>
            BY <2>1, <3>2 DEF Recorded
        <3> QED BY <2>4, <3>1, <3>2, MapSteps
    <2> QED BY <2>2, <2>3, <2>4
<1> QED BY <1>1, <1>2, <1>3

\* "An exact retry never starts a second print": of all the calls with one
\* key, over any number of crashes, failed saves, disconnects and cancels, one
\* at most ever puts bytes on the wire, while the file is kept and can be read,
\* and its map has room for every id.
THEOREM RetryPrintsOnce ==
    ASSUME Roomy
    PROVE  Spec => []OnePrintPerKey
<1>1. Init => RecordedInv
    BY DEF Init, RecordedInv, Pending
<1>2. PlacedInv /\ RecordedInv /\ [Next]_vars => RecordedInv'
    BY RecordedStep
<1>3. PlacedInv /\ RecordedInv /\ ApartInv => OnePrintPerKey
    <2> SUFFICES ASSUME PlacedInv, RecordedInv, ApartInv, NEW c \in Call, NEW d \in Call, c # d,
                        SameKey(c, d), sent[c] # {}, sent[d] # {}
                 PROVE  FALSE
        BY DEF OnePrintPerKey
    <2>1. worker[c] # "none" /\ worker[d] # "none"
        BY DEF PlacedInv, HonestInv, WireInv, Wire
    <2>2. disk[IdOf[c]].by = c /\ disk[IdOf[d]].by = d
        BY <2>1 DEF RecordedInv, Recorded
    <2>3. IdOf[c] \in Retained(disk) /\ IdOf[d] \in Retained(disk) /\ IdOf[c] # IdOf[d]
        BY <2>2, IdAssumption, NobodyAssumption DEF Retained, NoJob
    <2> QED BY <2>2, <2>3 DEF ApartInv, Apart
<1>4. Spec => []ApartInv
    <2>1. Init => ApartInv
        BY DEF Init, NoJobs, ApartInv, Apart, Retained
    <2> QED BY <2>1, ApartStep, KeptAlways, PTL DEF Spec
<1> QED BY <1>1, <1>2, <1>3, <1>4, PlacedAlways, PTL DEF Spec

-----------------------------------------------------------------------------
(* The file is a journal of the printer.                                   *)

\* The jobs file is kept, and ids are never used twice.
Fresh == Durable /\ \A c, d \in Call : IdOf[c] = IdOf[d] => c = d

\* While the process runs, the file is never ahead of memory: an outcome on
\* file is the one in memory, unless it was evicted there; a job that is not on
\* file has no worker; and what has, or will have one, is on file.
Ahead(i) ==
    /\ disk[i].state \in Terminal => jobs[i] \in {disk[i], NoJob}
    /\ jobs[i] # NoJob /\ disk[i] = NoJob =>
           jobs[i].state \in Live /\ worker[jobs[i].by] = "none"

InFile(c) == disk[IdOf[c]].by = c

FileInv ==
    /\ up => \A i \in Id : Ahead(i)
    /\ \A c \in Call : Pending(c) \/ HasWorker(c) => InFile(c)

JournalInv == PlacedInv /\ FileInv

\* An inserted job has no worker and is new to the file too.
LEMMA InsertNew ==
    ASSUME Fresh, PlacedInv, NEW c \in Call, call[c] = "planning"
    PROVE  jobs[IdOf[c]] = NoJob /\ disk[IdOf[c]] = NoJob /\ worker[c] = "none" /\ sent[c] = {}
<1> USE IdAssumption DEF PlacedInv, MapsPlaced, HonestInv, KeptInv
<1>1. ASSUME NEW js \in {jobs, disk}, js[IdOf[c]] # NoJob
      PROVE  FALSE
    <2>1. IdOf[c] \in Retained(js)
        BY <1>1 DEF Retained
    <2>2. js[IdOf[c]].by \in Call /\ FinalJob(js[IdOf[c]]) /\ Placed(js)
        BY <2>1 DEF FinalInv, Final, Retained, TypeOK, Job
    <2>3. IdOf[js[IdOf[c]].by] = IdOf[c]
        BY <2>1, <2>2 DEF Placed
    <2>4. js[IdOf[c]].by = c
        BY <2>2, <2>3 DEF Fresh
    <2> QED BY <2>2, <2>4 DEF FinalJob
<1>2. worker[c] = "none"
    BY DEF WorkerAccepted
<1> QED BY <1>1, <1>2 DEF WireInv, Wire

\* Who gets a worker had one, or was pending.
LEMMA WorkerBefore ==
    ASSUME PlacedInv, [Next]_vars, NEW c \in Call, worker[c] = "none", worker'[c] # "none"
    PROVE  Pending(c)
<1> USE DEF PlacedInv, HonestInv, KeptInv
<1>1. ASSUME NEW d \in Call, Submit(d) \/ Disconnect(d) PROVE Pending(c)
    <2>1. Spawn(d) /\ worker' = [worker EXCEPT ![d] = "spawned"]
        BY <1>1, SubmitFrame
    <2>2. c = d
        BY <2>1 DEF TypeOK
    <2> QED BY <1>1, <2>1, <2>2, SubmitCall
<1>2. ASSUME NEW d \in Call, Work(d) PROVE FALSE
    BY <1>2, WorkFrame DEF HasWorker, Busy
<1>3. \A k \in Canceller : ~CancelJob(k)
    BY CancelFrame
<1>4. ~Crash /\ ~Restart
    BY DEF Crash, Restart, workVars
<1> QED BY <1>1, <1>2, <1>3, <1>4 DEF Next, vars, workVars

\* The invariant about the file is inductive.
LEMMA AheadStep ==
    ASSUME Fresh, JournalInv, [Next]_vars, MapStep, NEW i \in Id
    PROVE  Ahead(i)'
<1> USE IdAssumption DEF JournalInv
<1>0. Ahead(i) /\ jobs[i] \in Job \cup {NoJob} /\ disk[i] \in Job \cup {NoJob}
    BY DEF MapStep, FileInv, PlacedInv, HonestInv, KeptInv, TypeOK
<1>1. CASE disk' = jobs'
    BY <1>1 DEF Ahead
<1>2. CASE disk' = disk /\ jobs'[i] = jobs[i]
    <2>1. ASSUME jobs[i] # NoJob, disk[i] = NoJob
          PROVE  worker'[jobs[i].by] = "none"
        <3>1. PICK c \in Call : c = jobs[i].by
            BY <1>0, <2>1 DEF Job
        <3>2. worker[c] = "none" /\ IdOf[c] = i
            BY <1>0, <2>1, <3>1 DEF Ahead, PlacedInv, MapsPlaced, Placed, Retained
        <3>3. ~InFile(c)
            BY <2>1, <3>2, NobodyAssumption DEF InFile, NoJob
        <3>4. ~Pending(c)
            BY <3>3 DEF FileInv
        <3> QED BY <3>1, <3>2, <3>4, WorkerBefore
    <2> QED BY <1>0, <1>2, <2>1 DEF Ahead
<1>3. CASE disk' = disk /\ Inserted(i)
    <2>1. PICK c \in Call : /\ Insert(c) /\ i = IdOf[c]
                            /\ jobs'[i] = [state |-> "queued", by |-> c]
        BY <1>3 DEF Inserted
    <2>2. disk[i] = NoJob /\ worker[c] = "none" /\ worker' = worker
        BY <2>1, InsertNew DEF Insert, workVars
    <2> QED BY <1>3, <2>1, <2>2 DEF Ahead, NoJob, Terminal, Live
<1>4. CASE disk' = disk /\ Ended(i)
    <2>1. PICK c \in Call : Finish(c) /\ i = IdOf[c] /\ Kept(c)
        BY <1>4 DEF Ended
    <2>2. HasWorker(c)
        BY <2>1 DEF Finish, WorkerAt, HasWorker, Busy
    <2>3. disk[i].by = c /\ disk[i] # NoJob
        BY <2>1, <2>2, NobodyAssumption DEF FileInv, InFile, NoJob
    <2>4. disk[i].state \notin Terminal
        BY <1>0, <2>1, NobodyAssumption DEF Ahead, Kept, NoJob, Live, Terminal
    <2> QED BY <1>4, <2>3, <2>4 DEF Ahead
<1>5. CASE disk' = disk /\ Evicted(i)
    BY <1>0, <1>5 DEF Ahead, Evicted, NoJob
<1>6. CASE disk' = disk /\ CancelledAt(i) /\ jobs'[i] # jobs[i]
    <2>1. jobs[i] \in Job /\ jobs[i].state \in Live /\ jobs'[i].by = jobs[i].by
          /\ jobs'[i].state = "cancel-requested"
        BY <1>0, <1>6 DEF CancelledAt, Job
    <2>2. disk[i].state \notin Terminal
        BY <1>0, <2>1 DEF Ahead, NoJob, Live, Terminal
    <2>3. worker' = worker
        <3>1. ASSUME NEW c \in Call, Submit(c) \/ Disconnect(c) PROVE worker' = worker
            <4>1. CASE Spawn(c)
                BY <1>6, <4>1 DEF Spawn, apiVars
            <4> QED BY <3>1, <4>1, SubmitFrame DEF PlacedInv, HonestInv, KeptInv
        <3>2. ASSUME NEW c \in Call, Work(c) PROVE FALSE
            <4>1. Finish(c)
                BY <1>6, <3>2, WorkFrame DEF PlacedInv, HonestInv, KeptInv
            <4>2. jobs'[i] = jobs[i] \/ jobs'[i].state = verdict[c]
                BY <4>1 DEF Finish, PlacedInv, HonestInv, KeptInv, TypeOK
            <4>3. verdict[c] # "cancel-requested"
                BY DEF PlacedInv, HonestInv, KeptInv, TypeOK, Terminal
            <4> QED BY <1>6, <2>1, <4>2, <4>3
        <3> QED BY <1>6, <3>1, <3>2, CancelFrame DEF Next, Crash, Restart, MapStep, vars, workVars
    <2>4. jobs[i] # NoJob /\ disk'[i] = disk[i] /\ jobs'[i].state \in Live
        BY <1>6, <2>1 DEF CancelledAt, Live
    <2> QED BY <1>0, <2>1, <2>2, <2>3, <2>4 DEF Ahead
<1> QED BY <1>1, <1>2, <1>3, <1>4, <1>5, <1>6 DEF MapStep

\* Whoever has, or gets, a worker is on file.
LEMMA InFileStep ==
    ASSUME Fresh, JournalInv, [Next]_vars, NEW d \in Call, Pending(d)' \/ HasWorker(d)'
    PROVE  InFile(d)'
<1> USE IdAssumption DEF JournalInv, PlacedInv, HonestInv, KeptInv
<1>0. Kept(d)' /\ up'
    BY KeptStep DEF JobKept
<1>1. CASE disk' = jobs'
    BY <1>0, <1>1 DEF InFile, Kept
<1>2. CASE disk' = disk
    <2>1. Pending(d) \/ HasWorker(d)
        <3>1. ASSUME NEW c \in Call, Submit(c) \/ Disconnect(c) PROVE Pending(d) \/ HasWorker(d)
            <4>1. CASE c # d
                <5>1. call'[d] = call[d] /\ worker'[d] = worker[d]
                    BY <3>1, <4>1, SubmitElsewhere
                <5> QED BY <5>1 DEF Pending, HasWorker, Busy
            <4>2. CASE c = d /\ worker'[d] = worker[d]
                <5>1. CASE Insert(d)
                    <6>1. ~Pending(d)'
                        <7> SUFFICES ASSUME Pending(d)' PROVE FALSE
                            OBVIOUS
                        <7>1. call'[d] = "inserted" /\ call[d] = "planning"
                            BY <5>1 DEF Insert, Pending, Answer, Replay, AfterSave, TypeOK
                        <7>2. \E ok \in SaveOutcome : Save(jobs', ok) /\ call'[d] = AfterSave(ok)
                            BY <5>1, <7>1 DEF Insert, Answer, Replay, TypeOK
                        <7>3. disk' = jobs'
                            BY <7>1, <7>2 DEF Save, AfterSave, Fresh
                        <7>4. disk[IdOf[d]] = NoJob
                            BY <7>1, InsertNew
                        <7> QED BY <1>0, <1>2, <7>3, <7>4, NobodyAssumption DEF Kept, NoJob
                    <6> QED BY <4>2, <6>1 DEF HasWorker, Busy
                <5>2. CASE ~Insert(d)
                    BY <3>1, <4>2, <5>2, SubmitCall DEF HasWorker, Busy
                <5> QED BY <5>1, <5>2
            <4>3. CASE c = d /\ worker'[d] # worker[d]
                BY <3>1, <4>3, SubmitFrame, SubmitCall
            <4> QED BY <4>1, <4>2, <4>3
        <3>2. ASSUME NEW c \in Call, Work(c) PROVE Pending(d) \/ HasWorker(d)
            BY <3>2, WorkFrame DEF Pending, HasWorker, Busy
        <3>3. ASSUME NEW k \in Canceller, CancelJob(k) PROVE Pending(d) \/ HasWorker(d)
            BY <3>3, CancelFrame DEF Pending, HasWorker, Busy
        <3>4. ~Crash /\ (Restart \/ UNCHANGED vars => Pending(d) \/ HasWorker(d))
            BY <1>0 DEF Crash, Restart, vars, callVars, workVars, Pending, HasWorker, Busy
        <3> QED BY <3>1, <3>2, <3>3, <3>4 DEF Next
    <2> QED BY <1>2, <2>1 DEF FileInv, InFile
<1>3. disk' \in {disk, jobs'}
    BY MapSteps DEF MapStep, Crash, Restart
<1> QED BY <1>1, <1>2, <1>3

LEMMA FileStep ==
    ASSUME Fresh, JournalInv, [Next]_vars
    PROVE  FileInv'
<1> USE DEF JournalInv
<1>1. \A c \in Call : (Pending(c) \/ HasWorker(c))' => InFile(c)'
    BY InFileStep
<1>2. up' => \A i \in Id : Ahead(i)'
    <2>1. CASE MapStep
        BY <2>1, AheadStep
    <2>2. CASE Crash
        BY <2>2 DEF Crash
    <2>3. CASE Restart
        <3>1. disk \in [Id -> Job \cup {NoJob}]
            BY DEF PlacedInv, HonestInv, KeptInv, TypeOK
        <3>2. \A i \in Id : (disk[i].state \in Terminal => Loaded(disk)[i] = disk[i])
                            /\ (disk[i] = NoJob => Loaded(disk)[i] = NoJob)
            BY <3>1 DEF Loaded, NoJob, Live, Terminal
        <3> QED BY <2>3, <3>2 DEF Restart, LoadOutcome, NoJobs, Ahead
    <2>4. CASE UNCHANGED <<jobs, disk, up>> /\ ~Crash /\ ~Restart /\ ~MapStep
        <3>1. UNCHANGED vars
            <4>1. \A c \in Call : ~(Submit(c) \/ Disconnect(c)) /\ ~Work(c)
                BY <2>4, SubmitFrame, WorkFrame DEF MapStep, PlacedInv, HonestInv, KeptInv
            <4>2. \A k \in Canceller : ~CancelJob(k)
                BY <2>4, CancelFrame DEF MapStep
            <4> QED BY <2>4, <4>1, <4>2 DEF Next
        <3> QED BY <3>1 DEF vars, procVars, apiVars, workVars, FileInv, Ahead
    <2> QED BY <2>1, <2>2, <2>3, <2>4, MapSteps
<1> QED BY <1>1, <1>2 DEF FileInv

LEMMA JournalAlways ==
    ASSUME Fresh
    PROVE  Spec => []JournalInv
<1>1. Init => FileInv
    BY DEF Init, FileInv, Ahead, Pending, HasWorker, Busy, NoJobs, NoJob, Terminal
<1>2. JournalInv /\ [Next]_vars => FileInv'
    BY FileStep
<1> QED BY <1>1, <1>2, PlacedAlways, PTL DEF Spec, JournalInv

\* A verdict on file is what the file had, or is forgotten.
LEMMA OutcomeKept ==
    ASSUME Fresh, JournalInv, [Next]_vars, NEW i \in Id, disk[i].state \in Terminal
    PROVE  disk'[i] \in {disk[i], NoJob}
<1> USE DEF JournalInv
<1>1. CASE disk' = disk
    BY <1>1
<1>2. CASE MapStep /\ disk' = jobs'
    <2>1. jobs[i] \in {disk[i], NoJob} /\ disk[i] # NoJob
        BY <1>2 DEF MapStep, FileInv, Ahead, NoJob, Terminal
    <2>2. ~Inserted(i)
        BY <2>1, InsertNew DEF Inserted, Insert
    <2>3. jobs[i].state \notin Live
        BY <2>1 DEF NoJob, Live, Terminal
    <2>4. ~Ended(i) /\ ~CancelledAt(i)
        BY <2>3 DEF Ended, Kept, CancelledAt
    <2> QED BY <1>2, <2>1, <2>2, <2>4 DEF MapStep, Evicted
<1> QED BY <1>1, <1>2, MapSteps DEF MapStep, PlacedInv, Crash, Restart

\* The file's outcome of a job is never revised, over any number of crashes,
\* failed saves and cancellations: it stays or it is forgotten.
THEOREM DurableVerdict ==
    ASSUME Fresh
    PROVE  Spec => DurableVerdictStands
<1>1. JournalInv /\ [Next]_vars =>
          [\A i \in Id : disk[i].state \in Terminal => disk'[i] \in {disk[i], NoJob}]_vars
    BY OutcomeKept
<1> QED BY <1>1, JournalAlways, PTL DEF Spec, DurableVerdictStands

-----------------------------------------------------------------------------
(* The executor implements the journal.                                    *)

\* What PrintJournal calls the entry of call c.
LoggedIn(js, c) == IF js[IdOf[c]].by = c THEN Loaded(js)[IdOf[c]].state ELSE "absent"
Logged(c) == LoggedIn(disk, c)

LEMMA EntryOfDisk ==
    ASSUME NEW js \in [Id -> Job \cup {NoJob}], NEW c \in Call
    PROVE  /\ LoggedIn(js, c) \in Journal!Verdict
           /\ js[IdOf[c]].by = c /\ js[IdOf[c]].state \in Live => LoggedIn(js, c) = "outcome-unknown"
<1>1. IdOf[c] \in Id /\ js[IdOf[c]] \in Job \cup {NoJob} /\ NoJob.by # c
    BY IdAssumption, NobodyAssumption DEF NoJob
<1>2. js[IdOf[c]].by = c => js[IdOf[c]] \in Job
    BY <1>1
<1>3. js[IdOf[c]].by = c =>
          Loaded(js)[IdOf[c]].state = IF js[IdOf[c]].state \in Live THEN "outcome-unknown"
                                      ELSE js[IdOf[c]].state
    BY <1>1, <1>2 DEF Loaded, Job
<1>4. js[IdOf[c]].by = c => js[IdOf[c]].state \in Live \cup Terminal
    BY <1>2 DEF Job
<1> QED BY <1>3, <1>4 DEF LoggedIn, Journal!Verdict, Journal!Settled, Live, Terminal

\* Whoever has a worker has an open entry.
LEMMA OpenEntry ==
    ASSUME JournalInv, NEW c \in Call, HasWorker(c)
    PROVE  disk[IdOf[c]].by = c /\ disk[IdOf[c]].state \in Live
<1> USE IdAssumption DEF JournalInv, PlacedInv, HonestInv, KeptInv
<1>1. up /\ Kept(c) /\ InFile(c)
    BY DEF JobKept, FileInv
<1>2. disk[IdOf[c]] \in Job
    BY <1>1, NobodyAssumption DEF InFile, NoJob, TypeOK
<1>3. disk[IdOf[c]].state \notin Terminal
    BY <1>1, NobodyAssumption DEF FileInv, Ahead, Kept, NoJob, Live, Terminal
<1> QED BY <1>1, <1>2, <1>3 DEF InFile, Job

\* What is on file under a call's id is the call's.
LEMMA DiskMine ==
    ASSUME Fresh, PlacedInv, NEW c \in Call, NEW js \in {jobs, disk}, js[IdOf[c]] # NoJob
    PROVE  js[IdOf[c]] \in Job /\ js[IdOf[c]].by = c
<1> USE IdAssumption DEF PlacedInv, MapsPlaced, HonestInv, KeptInv
<1>1. IdOf[c] \in Retained(js) /\ js[IdOf[c]] \in Job
    BY DEF Retained, TypeOK
<1>2. IdOf[js[IdOf[c]].by] = IdOf[c] /\ js[IdOf[c]].by \in Call
    BY <1>1 DEF Placed, Job
<1> QED BY <1>1, <1>2 DEF Fresh

\* The file gets an entry for a call only before anything is sent for it.
LEMMA OpenedBefore ==
    ASSUME Fresh, JournalInv, [Next]_vars, MapStep, NEW c \in Call,
           disk[IdOf[c]] = NoJob, jobs'[IdOf[c]] # NoJob
    PROVE  jobs'[IdOf[c]].state \in Live /\ sent[c] = {}
<1> DEFINE i == IdOf[c]
<1> USE IdAssumption DEF JournalInv, PlacedInv, HonestInv, KeptInv
<1>1. CASE Inserted(i)
    <2>1. PICK d \in Call : Insert(d) /\ i = IdOf[d] /\ jobs'[i] = [state |-> "queued", by |-> d]
        BY <1>1 DEF Inserted
    <2>2. d = c /\ call[c] = "planning"
        BY <2>1 DEF Fresh, Insert
    <2> QED BY <2>1, <2>2, InsertNew DEF Live
<1>2. CASE ~Inserted(i) /\ jobs[i] = NoJob
    <2>1. jobs[i].state \notin Terminal \cup Live
        BY <1>2 DEF NoJob, Live, Terminal
    <2>2. ~Ended(i) /\ ~CancelledAt(i)
        BY <1>2, <2>1 DEF Ended, Kept, CancelledAt
    <2> QED BY <1>2, <2>2 DEF MapStep, Evicted
<1>3. CASE ~Inserted(i) /\ jobs[i] # NoJob
    <2>1. jobs[i] \in Job /\ jobs[i].by = c
        BY <1>3, DiskMine
    <2>2. jobs[i].state \in Live /\ worker[c] = "none"
        BY <1>3, <2>1 DEF MapStep, FileInv, Ahead
    <2>3. sent[c] = {}
        BY <2>2 DEF WireInv, Wire
    <2>4. ~Ended(i)
        <3> SUFFICES ASSUME NEW d \in Call, Finish(d), i = IdOf[d] PROVE FALSE
            BY DEF Ended
        <3>1. d = c /\ worker[d] = "published"
            BY DEF Fresh, Finish, WorkerAt
        <3> QED BY <2>2, <3>1
    <2>5. CancelledAt(i) => jobs'[i].state \in Live
        BY <2>1 DEF CancelledAt, Job, Live
    <2> QED BY <1>3, <2>2, <2>3, <2>4, <2>5 DEF MapStep, Evicted
<1> QED BY <1>1, <1>2, <1>3


\* What one step does to the entry of a call is what the journal allows.
LEMMA EntryRevised ==
    ASSUME Fresh, JournalInv, JournalInv', [Next]_vars, NEW c \in Call, sent' = sent
    PROVE  \/ Logged(c)' = Logged(c)
           \/ Logged(c) = "absent" /\ Logged(c)' = "outcome-unknown" /\ sent[c] = {}
           \/ Logged(c) = "outcome-unknown" /\ Logged(c)' \in Journal!Settled /\ Honest(Logged(c)', c)
           \/ Logged(c)' = "absent"
<1> DEFINE i == IdOf[c]
<1> USE IdAssumption DEF JournalInv, PlacedInv, HonestInv, KeptInv
<1>1. CASE disk' = disk
    BY <1>1 DEF Logged, LoggedIn, Loaded
<1>2. CASE MapStep /\ disk' = jobs' /\ disk'[i].by # c
    BY <1>2 DEF Logged, LoggedIn
<1>3. CASE MapStep /\ disk' = jobs' /\ disk'[i].by = c /\ disk[i] = NoJob
    <2>1. jobs'[i] # NoJob
        BY <1>3, NobodyAssumption DEF NoJob
    <2>2. disk'[i].state \in Live /\ sent[c] = {}
        BY <1>3, <2>1, OpenedBefore
    <2>3. Logged(c)' = "outcome-unknown"
        BY <1>3, <2>2 DEF Logged, LoggedIn, Loaded
    <2>4. Logged(c) = "absent"
        BY <1>3, NobodyAssumption DEF Logged, LoggedIn, NoJob
    <2> QED BY <2>2, <2>3, <2>4
<1>4. CASE disk[i] # NoJob /\ disk[i].state \in Terminal
    <2>1. disk'[i] \in {disk[i], NoJob}
        BY <1>4, OutcomeKept
    <2>2. disk'[i] = NoJob => Logged(c)' = "absent"
        BY NobodyAssumption DEF Logged, LoggedIn, NoJob
    <2>3. disk'[i] = disk[i] => Logged(c)' = Logged(c)
        BY DEF Logged, LoggedIn, Loaded
    <2> QED BY <2>1, <2>2, <2>3
<1>5. CASE MapStep /\ disk' = jobs' /\ disk'[i].by = c /\ disk[i] # NoJob /\ disk[i].state \notin Terminal
    <2>1. disk[i] \in Job /\ disk[i].by = c
        BY <1>5, DiskMine
    <2>2. Logged(c) = "outcome-unknown"
        BY <1>5, <2>1 DEF Logged, LoggedIn, Loaded, Job
    <2>3. disk'[i] \in Job
        BY <1>5, NobodyAssumption DEF TypeOK, NoJob
    <2>4. CASE disk'[i].state \in Live \cup {"outcome-unknown"}
        <3>1. Logged(c)' = "outcome-unknown"
            BY <1>5, <2>3, <2>4 DEF Logged, LoggedIn, Loaded, Live
        <3> QED BY <2>2, <3>1
    <2>5. CASE disk'[i].state \in Terminal \ {"outcome-unknown"}
        <3>1. Logged(c)' = disk'[i].state
            BY <1>5, <2>3, <2>5 DEF Logged, LoggedIn, Loaded, Live, Terminal
        <3>2. i \in Retained(disk')
            BY <1>5, NobodyAssumption DEF Retained, NoJob
        <3>3. FinalJob(disk[i])'
            BY <3>2 DEF FinalInv, Final
        <3>4. Honest(disk'[i].state, c)
            BY <1>5, <2>5, <3>3 DEF FinalJob, Honest
        <3> QED BY <2>2, <2>5, <3>1, <3>4 DEF Journal!Settled, Terminal
    <2> QED BY <2>3, <2>4, <2>5 DEF Job
<1>6. (MapStep /\ disk' = jobs') \/ disk' = disk
    BY MapSteps DEF MapStep, Crash, Restart
<1>7. CASE MapStep /\ disk' = jobs'
    BY <1>2, <1>3, <1>4, <1>5, <1>7
<1> QED BY <1>1, <1>6, <1>7

\* Only a worker's step puts anything on the wire, of its own job, while the
\* entry is open; and it leaves the file alone.
LEMMA WireGrows ==
    ASSUME JournalInv, [Next]_vars, sent' # sent
    PROVE  \E c \in Call, w \in SUBSET WriteSteps :
               /\ Logged(c) = "outcome-unknown" /\ sent[c] \subseteq w
               /\ sent' = [sent EXCEPT ![c] = w] /\ disk' = disk
<1> USE DEF JournalInv, PlacedInv, HonestInv, KeptInv
<1>1. \A c \in Call : ~(Submit(c) \/ Disconnect(c))
    BY DEF Submit, Lookup, Reject, Insert, RegisterEvents, RegisterCancellation, Spawn, Disconnect,
           workVars
<1>2. \A k \in Canceller : ~CancelJob(k)
    BY DEF CancelJob, CancelFlag, CancelRecord, CancelDropped, workVars
<1>3. PICK c \in Call : Work(c)
    BY <1>1, <1>2 DEF Next, Crash, Restart, vars, workVars
<1>4. TransportWrite(c) \/ IppPost(c)
    BY <1>3 DEF Work, Begin, Open, ExecuteRead, ExecuteWrite, TransportWrite, Executed, IppCapture, IppCheck, Judge,
                Publish, Finish, workVars
<1>5. disk' = disk /\ HasWorker(c)
    BY <1>4, <1>3, WorkFrame DEF TransportWrite, IppPost, apiVars
<1>6. Logged(c) = "outcome-unknown"
    BY <1>5, OpenEntry, EntryOfDisk DEF Logged, TypeOK
<1>7. \E w \in SUBSET WriteSteps : sent[c] \subseteq w /\ sent' = [sent EXCEPT ![c] = w]
    <2>1. sent \in [Call -> SUBSET WriteSteps] /\ sent' \in [Call -> SUBSET WriteSteps]
        BY <1>3, WorkType DEF TypeOK
    <2>2. sent' = [sent EXCEPT ![c] = sent'[c]]
        BY <1>3, <2>1, WorkOthers
    <2>3. sent[c] \subseteq sent'[c]
        <3>1. CASE TransportWrite(c)
            BY <2>1, <3>1 DEF TransportWrite
        <3>2. CASE IppPost(c)
            <4>1. sent[c] = {}
                BY <3>2 DEF IppPost, WorkerAt, WireInv, Wire
            <4> QED BY <4>1
        <3> QED BY <1>4, <3>1, <3>2
    <2> QED BY <2>1, <2>2, <2>3
<1> QED BY <1>5, <1>6, <1>7

\* The jobs file is a write-ahead journal of the printer: a job's entry is open
\* before its first write and as long as it may write; a verdict that is on file
\* is borne out by the wire, and is never revised.
THEOREM JournalImplemented ==
    ASSUME Fresh
    PROVE  Spec => JournalKept
<1>1. Init => Journal!Init
    BY NobodyAssumption, IdAssumption DEF Init, Journal!Init, NoJobs, NoJob
<1>2. ASSUME JournalInv, JournalInv', [Next]_vars, sent' = sent
      PROVE  Journal!Replace
    <2>1. \A c \in Call : Logged(c)' \in Journal!Verdict
        <3>1. disk' \in [Id -> Job \cup {NoJob}]
            BY <1>2 DEF JournalInv, PlacedInv, HonestInv, KeptInv, TypeOK
        <3> QED BY <3>1, EntryOfDisk DEF Logged
    <2>2. \A c \in Call : Journal!Revise(c)
        BY <1>2, EntryRevised DEF Journal!Revise, Journal!BornOut, Logged, LoggedIn, Honest
    <2> QED BY <1>2, <2>1, <2>2 DEF Journal!Replace, Logged, LoggedIn
<1>3. ASSUME JournalInv, [Next]_vars, sent' # sent
      PROVE  \E c \in Call : Journal!Write(c)
    BY <1>3, WireGrows DEF Journal!Write, Logged, LoggedIn
<1>4. JournalInv /\ JournalInv' /\ [Next]_vars =>
          [Journal!Next]_<<[c \in Call |-> IF disk[IdOf[c]].by = c THEN Loaded(disk)[IdOf[c]].state
                                                                  ELSE "absent"], sent>>
    BY <1>2, <1>3 DEF Journal!Next
<1> QED BY <1>1, <1>4, JournalAlways, PTL DEF Spec, JournalKept, Journal!Spec

-----------------------------------------------------------------------------
(* A cancellation reaches the worker.                                      *)

\* Whoever has a worker, or will get one next, has its flag registered.
Registered(c) == HasWorker(c) \/ call[c] = "registered" => cancellations[IdOf[c]] = c

RegisteredInv == \A c \in Call : Registered(c)

\* A step of submit registers the flag of its own call, and takes away nobody
\* else's: two calls between insert and return do not have one id.
LEMMA RegisteredSubmit ==
    ASSUME KeptInv, RegisteredInv, NEW c \in Call, Submit(c) \/ Disconnect(c), NEW d \in Call
    PROVE  Registered(d)'
<1> USE IdAssumption DEF KeptInv
<1>1. CASE d # c
    <2>1. call'[d] = call[d] /\ worker'[d] = worker[d]
        BY <1>1, SubmitElsewhere
    <2>2. HasWorker(d)' <=> HasWorker(d)
        BY <2>1 DEF HasWorker, Busy
    <2>3. CASE RegisterCancellation(c) /\ (HasWorker(d) \/ call[d] = "registered")
        <3>1. Kept(c) /\ Kept(d)
            BY <2>3 DEF RegisterCancellation, JobKept, Pending
        <3>2. IdOf[c] # IdOf[d]
            BY <1>1, <3>1 DEF Kept
        <3>3. cancellations'[IdOf[d]] = cancellations[IdOf[d]]
            BY <2>3, <3>2 DEF RegisterCancellation, TypeOK
        <3> QED BY <2>1, <2>2, <3>3 DEF RegisteredInv, Registered
    <2>4. CASE ~RegisterCancellation(c)
        <3>1. cancellations' = cancellations
            BY <2>4 DEF Submit, Lookup, Reject, Insert, RegisterEvents, Spawn, Disconnect, apiVars
        <3> QED BY <2>1, <2>2, <3>1 DEF RegisteredInv, Registered
    <2> QED BY <2>1, <2>2, <2>3, <2>4 DEF Registered
<1>2. CASE d = c
    <2>1. ~HasWorker(c)
        BY SubmitCall DEF WorkerAccepted, HasWorker, Busy
    <2>2. CASE Spawn(c)
        <3>1. call[c] = "registered" /\ cancellations' = cancellations
            BY <2>2 DEF Spawn, apiVars
        <3> QED BY <1>2, <3>1 DEF RegisteredInv, Registered
    <2>3. CASE ~Spawn(c)
        <3>1. ~HasWorker(c)'
            BY <2>1, <2>3, SubmitFrame DEF HasWorker, Busy
        <3>2. call'[c] = "registered" => cancellations'[IdOf[c]] = c
            BY <2>3 DEF Submit, Lookup, Reject, Insert, RegisterEvents, RegisterCancellation,
                   Disconnect, Answer, Replay, AfterSave, TypeOK
        <3> QED BY <1>2, <3>1, <3>2 DEF Registered
    <2> QED BY <2>2, <2>3
<1> QED BY <1>1, <1>2

LEMMA RegisteredStep ==
    ASSUME KeptInv, RegisteredInv, [Next]_vars
    PROVE  RegisteredInv'
<1> SUFFICES ASSUME NEW d \in Call PROVE Registered(d)'
    BY DEF RegisteredInv
<1> USE DEF KeptInv
<1>1. Registered(d)
    BY DEF RegisteredInv
<1>2. ASSUME NEW c \in Call, Work(c) PROVE Registered(d)'
    <2>1. UNCHANGED <<cancellations, call>>
        BY <1>2 DEF Work, Begin, Open, ExecuteRead, ExecuteWrite, TransportWrite, Executed,
                    IppCapture, IppCheck, IppPost, Judge, Publish, Finish, apiVars, callVars
    <2>2. HasWorker(d)' => HasWorker(d)
        BY <1>2, WorkFrame DEF HasWorker, Busy
    <2> QED BY <1>1, <2>1, <2>2 DEF Registered
<1>3. ASSUME NEW k \in Canceller, CancelJob(k) PROVE Registered(d)'
    <2>1. UNCHANGED <<cancellations, call, worker>>
        BY <1>3 DEF CancelJob, CancelFlag, CancelRecord, CancelDropped, apiVars, callVars, workVars
    <2> QED BY <1>1, <2>1 DEF Registered, HasWorker, Busy
<1>4. CASE Crash
    <2>1. ~HasWorker(d)' /\ call'[d] # "registered"
        BY <1>4 DEF Crash, HasWorker, Busy, InFlight
    <2> QED BY <2>1 DEF Registered
<1>5. CASE Restart
    <2>1. ~HasWorker(d) /\ call[d] # "registered"
        BY <1>5 DEF Restart, JobKept, Pending
    <2> QED BY <1>5, <2>1 DEF Restart, Registered, HasWorker, Busy, callVars, workVars
<1>6. CASE UNCHANGED vars
    BY <1>1, <1>6 DEF vars, callVars, workVars, apiVars, Registered, HasWorker, Busy
<1> QED BY <1>2, <1>3, <1>4, <1>5, <1>6, RegisteredSubmit DEF Next

\* A raised flag stays up: only cancel handlers write flags.
LEMMA FlagStays ==
    ASSUME [Next]_vars, NEW c \in Call, flag[c]
    PROVE  flag'[c]
<1>1. ASSUME NEW k \in Canceller, CancelJob(k) PROVE flag'[c]
    BY <1>1 DEF CancelJob, CancelFlag, CancelRecord, CancelDropped, Raised
<1>2. ASSUME NEW d \in Call, Submit(d) \/ Disconnect(d) \/ Work(d) PROVE flag' = flag
    BY <1>2 DEF Submit, Lookup, Reject, Insert, RegisterEvents, RegisterCancellation, Spawn,
                Disconnect, Work, Begin, Open, ExecuteRead, ExecuteWrite, TransportWrite, Executed,
                IppCapture, IppCheck, IppPost, Judge, Publish, Finish
<1> QED BY <1>1, <1>2 DEF Next, Crash, Restart, vars

\* What a worker whose flag is up may still do.
Winding(c) ==
    /\ sent'[c] \subseteq sent[c] \cup InHand(c)
    /\ InHand(c)' \subseteq InHand(c)
    /\ verdict'[c] # verdict[c] => verdict'[c] \in {"cancelled-before-send", "cancelled-partial"}

LEMMA FlaggedWinds ==
    ASSUME TypeOK, NEW c \in Call, flag[c], Work(c)
    PROVE  Winding(c)
<1>1. /\ worker \in [Call -> Stage] /\ sent \in [Call -> SUBSET WriteSteps]
      /\ verdict \in [Call -> Terminal \cup {"queued"}]
    BY DEF TypeOK
<1>2. CASE TransportWrite(c)
    <2>1. worker[c] = "writing" /\ worker'[c] \in {"executing", "errored"} /\ verdict' = verdict
        BY <1>1, <1>2 DEF TransportWrite, WorkerAt, Goto
    <2>2. sent' = sent \/ sent' = [sent EXCEPT ![c] = @ \cup {at[c] + 1}]
        BY <1>1, <1>2 DEF TransportWrite
    <2>3. sent' \in [Call -> SUBSET WriteSteps]
        BY <1>2, WorkType DEF TypeOK, Work
    <2>4. sent'[c] \subseteq sent[c] \cup {at[c] + 1} /\ sent'[c] \subseteq WriteSteps
        BY <1>1, <2>2, <2>3
    <2>5. InHand(c)' = {}
        BY <2>1 DEF InHand
    <2>6. \A n \in WriteSteps : n = at[c] + 1 => n \in InHand(c)
        BY <2>1 DEF InHand
    <2> QED BY <2>1, <2>4, <2>5, <2>6 DEF Winding
<1>3. CASE IppPost(c)
    <2>1. worker[c] = "posting" /\ worker'[c] \in {"succeeded", "errored"} /\ verdict' = verdict
        BY <1>1, <1>3 DEF IppPost, WorkerAt, Goto
    <2>2. InHand(c) = WriteSteps /\ InHand(c)' = {}
        BY <2>1 DEF InHand
    <2>3. sent' \in [Call -> SUBSET WriteSteps]
        BY <1>3, WorkType DEF TypeOK, Work
    <2> QED BY <2>1, <2>2, <2>3 DEF Winding
<1>4. CASE Judge(c)
    <2>1. worker'[c] = "judged" /\ sent' = sent /\ verdict'[c] = Outcome(c)
        BY <1>1, <1>4 DEF Judge, Goto
    <2>2. InHand(c)' = {}
        BY <2>1 DEF InHand
    <2> QED BY <2>1, <2>2 DEF Winding, Outcome
<1>5. CASE ~TransportWrite(c) /\ ~IppPost(c) /\ ~Judge(c)
    <2>1. sent' = sent /\ verdict' = verdict
        BY <1>5 DEF Work, Begin, Open, ExecuteRead, ExecuteWrite, TransportWrite, Executed, IppCapture, IppCheck,
                    Publish, Finish, workVars
    <2>2. worker'[c] \notin {"writing", "posting"}
        BY <1>1, <1>5 DEF Work, Begin, Open, ExecuteRead, ExecuteWrite, TransportWrite, Executed, IppCapture,
                          IppCheck, Publish, Finish, WorkerAt, Goto, Refused
    <2>3. InHand(c)' = {}
        BY <2>2 DEF InHand
    <2> QED BY <2>1, <2>3 DEF Winding
<1> QED BY <1>2, <1>3, <1>4, <1>5

\* Nobody else writes for it, or hurries it.
LEMMA ElsewhereWinds ==
    ASSUME KeptInv, [Next]_vars, NEW c \in Call, ~Work(c)
    PROVE  Winding(c)
<1> USE DEF KeptInv
<1>1. ASSUME NEW d \in Call, Work(d)
      PROVE  worker'[c] = worker[c] /\ at'[c] = at[c] /\ sent'[c] = sent[c] /\ verdict'[c] = verdict[c]
    <2>1. d # c
        BY <1>1
    <2> QED BY <1>1, <2>1, WorkOthers
<1>2. ASSUME NEW d \in Call, Submit(d) \/ Disconnect(d)
      PROVE  /\ worker'[c] = worker[c] \/ worker'[c] = "spawned"
             /\ at' = at /\ sent' = sent /\ verdict' = verdict
    <2>1. at' = at /\ sent' = sent /\ verdict' = verdict
        BY <1>2 DEF Submit, Lookup, Reject, Insert, RegisterEvents, RegisterCancellation, Spawn,
                    Disconnect, workVars
    <2> QED BY <1>2, <2>1, SubmitFrame DEF TypeOK
<1>3. ASSUME NEW k \in Canceller, CancelJob(k)
      PROVE  UNCHANGED workVars
    BY <1>3 DEF CancelJob, CancelFlag, CancelRecord, CancelDropped
<1>4. CASE Crash
    <2>1. worker'[c] \in {worker[c], "dead"} /\ UNCHANGED <<at, sent, verdict>>
        BY <1>4 DEF Crash
    <2> QED BY <2>1 DEF Winding, InHand
<1>5. CASE worker'[c] \in {worker[c], "spawned"} /\ at'[c] = at[c] /\ sent'[c] = sent[c]
           /\ verdict'[c] = verdict[c]
    BY <1>5 DEF Winding, InHand
<1> QED BY <1>1, <1>2, <1>3, <1>4, <1>5 DEF Next, Restart, vars, workVars

\* A cancel of a job that has a worker reaches it, for every way in which calls
\* share keys and ids: the flag goes up and stays up, the transport writes
\* nothing that it was not already asked for, and the verdict says cancelled.
THEOREM CancelHeeded == Spec => CancelReachesWorker
<1>1. Init => RegisteredInv
    BY DEF Init, RegisteredInv, Registered, HasWorker, Busy
<1>2. ASSUME KeptInv, RegisteredInv, [Next]_vars, NEW c \in Call, NEW k \in Canceller,
             HasWorker(c), cancel[k] = "idle", cancel'[k] = "flagged", target'[k] = IdOf[c]
      PROVE  flag'[c]
    <2>1. PICK l \in Canceller : CancelJob(l)
        BY <1>2 DEF Next, Submit, Lookup, Reject, Insert, RegisterEvents, RegisterCancellation, Spawn,
               Disconnect, Work, Begin, Open, ExecuteRead, ExecuteWrite, TransportWrite, Executed,
               IppCapture, IppCheck, IppPost, Judge, Publish, Finish, Crash, Restart, cancelVars, vars
    <2>2. PICK i \in told : CancelFlag(l, i) /\ l = k
        BY <1>2, <2>1 DEF CancelJob, CancelFlag, CancelRecord, CancelDropped, KeptInv, TypeOK
    <2>3. i = IdOf[c] /\ flag' = Raised(i)
        BY <1>2, <2>2 DEF CancelFlag, KeptInv, TypeOK
    <2> QED BY <1>2, <2>3 DEF Raised, RegisteredInv, Registered
<1>3. ASSUME KeptInv, [Next]_vars, NEW c \in Call, flag[c]
      PROVE  flag'[c] /\ Winding(c)
    BY <1>3, FlagStays, FlaggedWinds, ElsewhereWinds DEF KeptInv
<1>4. KeptInv /\ RegisteredInv /\ [Next]_vars =>
          [\A c \in Call :
              /\ \A k \in Canceller :
                     HasWorker(c) /\ cancel[k] = "idle" /\ cancel'[k] = "flagged"
                         /\ target'[k] = IdOf[c] => flag'[c]
              /\ flag[c] =>
                     /\ flag'[c]
                     /\ sent'[c] \subseteq sent[c] \cup InHand(c)
                     /\ InHand(c)' \subseteq InHand(c)
                     /\ verdict'[c] # verdict[c] =>
                            verdict'[c] \in {"cancelled-before-send", "cancelled-partial"}]_vars
    BY <1>2, <1>3 DEF Winding
<1> QED BY <1>1, <1>4, RegisteredStep, KeptAlways, PTL DEF Spec, CancelReachesWorker

-----------------------------------------------------------------------------
(* What keeps a job unfinished.                                            *)

Judged(c) == worker[c] \in {"judged", "published"} => verdict[c] \in Terminal

\* A worker fixes a terminal outcome.
LEMMA JudgedStep ==
    ASSUME TypeOK, [Next]_vars, NEW d \in Call, Judged(d)
    PROVE  Judged(d)'
<1>1. ASSUME NEW c \in Call, Submit(c) \/ Disconnect(c)
      PROVE  Judged(d)'
    <2>1. verdict' = verdict
        BY <1>1 DEF Submit, Lookup, Reject, Insert, RegisterEvents, RegisterCancellation, Spawn,
                    Disconnect, workVars
    <2> QED BY <1>1, <2>1, SubmitFrame DEF Judged, TypeOK
<1>2. ASSUME NEW c \in Call, Work(c)
      PROVE  Judged(d)'
    <2>1. CASE d # c
        BY <1>2, <2>1, WorkOthers DEF Judged
    <2>2. CASE d = c /\ Judge(c)
        BY <2>2 DEF Judge, Judged, Outcome, Terminal, TypeOK
    <2>3. CASE d = c /\ ~Judge(c)
        <3>1. verdict' = verdict
            BY <1>2, <2>3 DEF Work, Begin, Open, ExecuteRead, ExecuteWrite, TransportWrite, Executed, IppCapture,
                              IppCheck, IppPost, Publish, Finish, workVars
        <3>2. worker'[c] \in {"judged", "published"} => worker[c] \in {"judged", "published"}
            BY <1>2, <2>3 DEF Work, Begin, Open, ExecuteRead, ExecuteWrite, TransportWrite, Executed, IppCapture,
                              IppCheck, IppPost, Publish, Finish, WorkerAt, Goto, TypeOK
        <3> QED BY <2>3, <3>1, <3>2 DEF Judged
    <2> QED BY <2>1, <2>2, <2>3
<1>3. ASSUME NEW k \in Canceller, CancelJob(k)
      PROVE  Judged(d)'
    BY <1>3 DEF CancelJob, CancelFlag, CancelRecord, CancelDropped, workVars, Judged
<1>4. CASE Crash
    BY <1>4 DEF Crash, Judged
<1>5. CASE UNCHANGED <<worker, verdict>>
    BY <1>5 DEF Judged
<1> QED BY <1>1, <1>2, <1>3, <1>4, <1>5 DEF Next, Restart, vars, workVars

\* An unfinished job has a worker, or will get one.
Attended(i) == jobs[i].state \in Live => HasWorker(jobs[i].by) \/ Pending(jobs[i].by)

\* When saves succeed and no client disconnects, every unfinished job has a
\* worker, or a submission about to start one.
THEOREM UnfinishedActive ==
    ASSUME Fickle = {}, SaveFaults = FALSE
    PROVE  Spec => []UnfinishedIsActive
<1> DEFINE ActiveInv == (\A i \in Retained(jobs) : Attended(i)) /\ (\A c \in Call : Judged(c))
<1>1. Init => ActiveInv
    BY DEF Init, Retained, NoJobs, Judged
<1>2. PlacedInv /\ ActiveInv /\ [Next]_vars => ActiveInv'
    <2> USE IdAssumption DEF PlacedInv, MapsPlaced, HonestInv, KeptInv
    <2> SUFFICES ASSUME PlacedInv, ActiveInv, [Next]_vars, NEW i \in Retained(jobs'),
                        jobs'[i].state \in Live
                 PROVE  HasWorker(jobs[i].by)' \/ Pending(jobs[i].by)'
        BY JudgedStep DEF Attended, Retained
    <2>0. i \in Id /\ jobs'[i] # NoJob
        BY DEF Retained
    <2>1. ASSUME MapStep, Inserted(i)
          PROVE  Pending(jobs[i].by)'
        <3>1. PICK c \in Call : /\ Insert(c) /\ i = IdOf[c] /\ jobs[i] = NoJob
                                /\ jobs'[i] = [state |-> "queued", by |-> c]
            BY <2>1 DEF Inserted
        <3>2. call'[c] = "inserted"
            <4>1. jobs' # jobs
                BY <3>1 DEF NoJob
            <4>2. \E ok \in SaveOutcome : call' = [call EXCEPT ![c] = AfterSave(ok)]
                BY <3>1, <4>1 DEF Insert, Answer
            <4> QED BY <4>2 DEF SaveOutcome, AfterSave, TypeOK
        <3> QED BY <3>1, <3>2 DEF Pending
    <2>2. ASSUME NEW c \in Call, jobs[i] \in Job, jobs[i].by = c, jobs[i].state \in Live,
                 jobs'[i].by = c, HasWorker(c) \/ Pending(c)
          PROVE  HasWorker(c)' \/ Pending(c)'
        <3>1. ASSUME NEW d \in Call, Submit(d) \/ Disconnect(d)
              PROVE  HasWorker(c)' \/ Pending(c)'
            <4>1. CASE d # c
                <5>1. call'[c] = call[c]
                    BY <3>1, <4>1, SubmitFrame
                <5>2. worker' = worker \/ worker' = [worker EXCEPT ![d] = "spawned"]
                    BY <3>1, SubmitFrame
                <5>3. worker'[c] = worker[c]
                    BY <4>1, <5>2 DEF TypeOK
                <5> QED BY <2>2, <5>1, <5>3 DEF HasWorker, Busy, Pending
            <4>2. CASE d = c
                BY <2>2, <3>1, <4>2 DEF Submit, Lookup, Reject, Insert, RegisterEvents,
                       RegisterCancellation, Spawn, Disconnect, Answer, HasWorker, Busy, Pending,
                       TypeOK, workVars
            <4> QED BY <4>1, <4>2
        <3>2. ASSUME NEW d \in Call, Work(d)
              PROVE  HasWorker(c)' \/ Pending(c)'
            <4>1. CASE Finish(d) /\ d = c
                <5>1. i = IdOf[c]
                    BY <2>0, <2>2, NobodyAssumption DEF MapsPlaced, Placed, Retained, NoJob
                <5>2. jobs'[i].state = verdict[c] /\ verdict[c] \in Terminal
                    BY <4>1, <5>1 DEF Finish, WorkerAt, Judged, TypeOK
                <5> QED BY <5>2 DEF Live, Terminal
            <4>2. CASE ~(Finish(d) /\ d = c)
                BY <2>2, <3>2, <4>2, WorkFrame DEF HasWorker, Busy, Pending
            <4> QED BY <4>1, <4>2
        <3>3. ASSUME NEW k \in Canceller, CancelJob(k)
              PROVE  HasWorker(c)' \/ Pending(c)'
            BY <2>2, <3>3, CancelFrame DEF HasWorker, Busy, Pending
        <3>4. ~Crash
            BY <2>0 DEF Crash, NoJobs
        <3>5. ~Restart
            BY <2>2 DEF Restart, JobKept
        <3> QED BY <2>2, <3>1, <3>2, <3>3, <3>4, <3>5 DEF Next, vars, callVars, workVars, HasWorker,
                                                         Busy, Pending
    <2>3. CASE MapStep
        <3>1. ~Evicted(i)
            BY <2>0 DEF Evicted
        <3>2. ~Ended(i)
            <4> SUFFICES ASSUME NEW c \in Call, Finish(c), jobs'[i] = [state |-> verdict[c], by |-> c]
                         PROVE  FALSE
                BY DEF Ended
            <4>1. verdict[c] \in Terminal
                BY DEF Finish, WorkerAt, Judged
            <4> QED BY <4>1 DEF Live, Terminal
        <3>3. ASSUME jobs'[i] = jobs[i] \/ CancelledAt(i)
              PROVE  jobs[i] \in Job /\ jobs[i].state \in Live /\ jobs'[i].by = jobs[i].by
            BY <2>0, <3>3 DEF CancelledAt, TypeOK, Job
        <3>4. ASSUME jobs'[i] = jobs[i] \/ CancelledAt(i)
              PROVE  HasWorker(jobs[i].by) \/ Pending(jobs[i].by)
            BY <2>0, <3>3, <3>4 DEF Attended, Retained, NoJob, Live
        <3>5. ASSUME jobs'[i] = jobs[i] \/ CancelledAt(i)
              PROVE  HasWorker(jobs[i].by)' \/ Pending(jobs[i].by)'
            <4>1. PICK c \in Call : c = jobs[i].by
                BY <3>3, <3>5 DEF Job
            <4>2. HasWorker(c)' \/ Pending(c)'
                BY <2>2, <3>3, <3>4, <3>5, <4>1
            <4> QED BY <3>3, <3>5, <4>1, <4>2
        <3> QED BY <2>0, <2>1, <2>3, <3>1, <3>2, <3>5 DEF MapStep
    <2>4. CASE Crash
        BY <2>0, <2>4 DEF Crash, NoJobs
    <2>5. CASE Restart
        <3>1. jobs' = NoJobs => jobs'[i] = NoJob
            BY <2>0 DEF NoJobs
        <3>2. jobs' = Loaded(disk) => \/ jobs'[i] = disk[i] /\ disk[i].state \notin Live
                                      \/ jobs'[i].state = "outcome-unknown"
            BY <2>0 DEF Loaded, TypeOK, Job, NoJob
        <3> QED BY <2>0, <2>5, <3>1, <3>2 DEF Restart, LoadOutcome, Live
    <2>6. CASE UNCHANGED <<jobs, disk, up>>
        BY <2>0, <2>2, <2>6 DEF Attended, Retained, TypeOK, Job
    <2> QED BY <2>3, <2>4, <2>5, <2>6, MapSteps
<1>3. PlacedInv /\ ActiveInv => UnfinishedIsActive
    BY DEF UnfinishedIsActive, Attended, Pending, InFlight
<1> QED BY <1>1, <1>2, <1>3, PlacedAlways, PTL DEF Spec
=============================================================================
