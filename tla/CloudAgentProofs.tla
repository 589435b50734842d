-------------------------- MODULE CloudAgentProofs --------------------------
(***************************************************************************)
(* Theorems of the cloud agent and their proofs: its types; that nothing   *)
(* is said or printed of a job that is not in the store's file with the    *)
(* delivery's own digest; that a life of the process prints a job once,    *)
(* and that the results it reports are true of the printer; and that an    *)
(* outcome in the store's file stands while the session does.              *)
(***************************************************************************)
EXTENDS CloudAgent, JobExecutorProofs

-----------------------------------------------------------------------------
(* The invariant.                                                          *)

\* What the stores hold: a local job that is not running, or none.
Entry == {job \in LocalJob : job.state # "running"} \cup {NoLocal}

OnFile(i) == storeDisk[i] # NoLocal

\* Every job of the executor was submitted under its own id, and the executor
\* writes no file.
Own ==
    /\ disk = NoJobs
    /\ \A i \in Id : jobs[i] # NoJob => IdOf[jobs[i].by] = i /\ call[jobs[i].by] # "idle"

\* Whoever has a worker or bytes on the wire was submitted.
Begun == \A c \in Call : worker[c] # "none" \/ sent[c] # {} => call[c] # "idle"

\* Memory is never behind the file.
Stores ==
    /\ store \in [Id -> Entry] /\ storeDisk \in [Id -> Entry]
    /\ up => \A i \in Id : OnFile(i) => store[i] # NoLocal /\ store[i].hash = storeDisk[i].hash

RecvStage == {"idle", "ignored", "received", "known", "submitting", "refused", "over"}
Within == {"received", "known", "submitting", "refused"}

\* Between its save and its end a delivery is on file with its own digest.
Deliveries ==
    /\ main \in {Nobody} \cup Call \cup Canceller
    /\ recv \in [Call -> RecvStage] /\ returned \in [Call -> Entry]
    /\ \A c \in Call : recv[c] \in Within =>
           /\ OnFile(IdOf[c]) /\ storeDisk[IdOf[c]].hash = HashOf[c]
           /\ returned[c] # NoLocal /\ returned[c].hash = HashOf[c]
    /\ \A c \in Call : recv[c] \in {"known", "refused"} => returned[c].state \in Terminal

\* A submission was a delivery that is on file.
Submitted ==
    \A c \in Call : call[c] # "idle" => OnFile(IdOf[c]) /\ storeDisk[IdOf[c]].hash = HashOf[c]

\* What a reporter is about to store has the digest that is on file.
Reporters ==
    /\ rep \in [Call -> {"none", "polling", "read", "kept", "over"}]
    /\ seen \in [Call -> Entry]
    /\ \A c \in Call : rep[c] # "none" => OnFile(IdOf[c])
    /\ \A c \in Call : rep[c] \in {"read", "kept"} =>
           seen[c] # NoLocal /\ seen[c].hash = storeDisk[IdOf[c]].hash

\* What was said, and what the broker knows, is of jobs on file.
Messages ==
    /\ outbox \in Seq(Message) /\ Len(outbox) <= Slots
    /\ \A n \in 1 .. Len(outbox) :
           OnFile(outbox[n].id) /\ (outbox[n].kind = "result" => outbox[n].state \in Terminal)
    /\ broker \in [Id -> {"queued", "delivered"} \cup Terminal]
    /\ results \in [Id -> SUBSET Terminal]
    /\ \A i \in Id : broker[i] # "queued" => OnFile(i)

\* A session ends in a loss or in a crash.
Counted ==
    /\ link \in BOOLEAN /\ losses \in 0 .. MaxLosses /\ session \in Nat
    /\ session <= losses + crashes + (IF link THEN 1 ELSE 0)
    /\ delivered \in [Id -> 0 .. session] /\ repSession \in [Call -> 0 .. session]

ExecInv  == TypeOK /\ Own /\ Begun
AgentInv == Stores /\ Deliveries /\ Submitted /\ Reporters /\ Messages /\ Counted
CloudInv == ExecInv /\ AgentInv

-----------------------------------------------------------------------------
(* The executor's part of a step.                                          *)

\* submit and the worker keep the jobs under their ids.
LEMMA OwnSubmit ==
    ASSUME ExecInv, NEW c \in Call, Submit(c)
    PROVE  Own' /\ Begun' /\ call'[c] # "idle" /\ \A d \in Call : d # c => call'[d] = call[d]
<1> USE IdAssumption, CloudAssumption DEF ExecInv
<1>1. call'[c] # "idle" /\ \A d \in Call : d # c => call'[d] = call[d]
    BY DEF Submit, Lookup, Reject, Insert, RegisterEvents, RegisterCancellation, Spawn, Answer,
           Replay, AfterSave, TypeOK
<1>2. sent' = sent /\ \A d \in Call : d # c => worker'[d] = worker[d]
    BY SubmitFrame DEF Submit, Lookup, Reject, Insert, RegisterEvents, RegisterCancellation, Spawn,
           workVars, TypeOK
<1>3. Begun'
    BY <1>1, <1>2 DEF Begun
<1>4. CASE jobs' = jobs /\ disk' = disk
    <2>1. \A d \in Call : call[d] # "idle" => call'[d] # "idle"
        BY <1>1
    <2>2. \A i \in Id : jobs[i] # NoJob => jobs[i].by \in Call
        BY DEF TypeOK, Job
    <2>3. Own'
        BY <1>4, <2>1, <2>2 DEF Own
    <2> QED BY <1>1, <1>3, <2>3
<1>5. CASE Insert(c) /\ ~(jobs' = jobs /\ disk' = disk)
    <2>1. PICK room \in Room(c), ok \in SaveOutcome :
              /\ jobs' = [room EXCEPT ![IdOf[c]] = [state |-> "queued", by |-> c]]
              /\ Save(jobs', ok)
        BY <1>5 DEF Insert
    <2>2. /\ room \in [Id -> Job \cup {NoJob}]
          /\ \A i \in Id : room[i] = jobs[i] \/ room[i] = NoJob
        BY RoomType DEF TypeOK
    <2>3. jobs'[IdOf[c]].by = c /\ \A i \in Id : i # IdOf[c] => jobs'[i] \in {jobs[i], NoJob}
        BY <2>1, <2>2
    <2>4. disk' = disk
        BY <2>1 DEF Save
    <2>5. \A i \in Id : jobs[i] # NoJob => jobs[i].by \in Call
        BY DEF TypeOK, Job
    <2>6. ASSUME NEW i \in Id, jobs'[i] # NoJob
          PROVE  IdOf[jobs'[i].by] = i /\ call'[jobs'[i].by] # "idle"
        <3>1. CASE i = IdOf[c]
            BY <1>1, <2>3, <3>1
        <3>2. CASE i # IdOf[c]
            BY <1>1, <2>3, <2>5, <2>6, <3>2 DEF Own
        <3> QED BY <3>1, <3>2
    <2>7. Own'
        BY <2>4, <2>6 DEF Own
    <2> QED BY <1>1, <1>3, <2>7
<1> QED BY <1>4, <1>5, SubmitFrame

LEMMA OwnWork ==
    ASSUME ExecInv, NEW c \in Call, Work(c)
    PROVE  Own' /\ Begun' /\ UNCHANGED <<up, crashes, call>>
<1> USE IdAssumption, CloudAssumption DEF ExecInv
<1>1. UNCHANGED <<up, crashes, call>>
    BY DEF Work, Begin, Open, ExecuteRead, ExecuteWrite, TransportWrite, Executed,
           IppCapture, IppCheck, IppPost, Judge,
           Publish, Finish, procVars, callVars
<1>2. worker[c] # "none"
    BY WorkFrame DEF HasWorker, Busy
<1>3. call[c] # "idle"
    BY <1>2 DEF Begun
<1>4. \A d \in Call : d # c => worker'[d] = worker[d] /\ sent'[d] = sent[d]
    BY WorkOthers
<1>5. Begun'
    BY <1>1, <1>3, <1>4 DEF Begun
<1>6. CASE jobs' = jobs /\ disk' = disk
    BY <1>1, <1>5, <1>6 DEF Own
<1>7. CASE Finish(c)
    <2>1. disk' = disk
        BY <1>7 DEF Finish, Save
    <2>2. jobs'[IdOf[c]].by = c /\ \A i \in Id : i # IdOf[c] => jobs'[i] = jobs[i]
        BY <1>7 DEF Finish, TypeOK
    <2>3. Own'
        BY <1>1, <1>3, <2>1, <2>2 DEF Own
    <2> QED BY <1>1, <1>5, <2>3
<1> QED BY <1>6, <1>7, WorkFrame

\* A cancellation changes the state of a job, not whose it is.
LEMMA OwnCancel ==
    ASSUME ExecInv, NEW k \in Canceller,
           (\E i \in Id : CancelCloudFlag(k, i)) \/ CancelCloudRecord(k)
    PROVE  ExecInv' /\ UNCHANGED <<up, crashes, call>>
<1> USE DEF ExecInv
<1>1. CASE \E i \in Id : CancelCloudFlag(k, i)
    <2>1. PICK i \in Id : CancelFlag(k, i)
        BY <1>1 DEF CancelCloudFlag
    <2>2. UNCHANGED <<procVars, apiVars, holder, callVars, workVars, published>>
        BY <2>1 DEF CancelFlag
    <2>3. TypeOK'
        BY <2>1, <2>2 DEF CancelFlag, Raised, TypeOK, procVars, apiVars, callVars, workVars
    <2> QED BY <2>2, <2>3 DEF Own, Begun, procVars, apiVars, callVars, workVars
<1>2. CASE CancelCloudRecord(k)
    <2>1. /\ UNCHANGED <<procVars, disk, senders, cancellations, holder, callVars, flag, workVars,
                         published, target>>
          /\ jobs' = [i \in Id |-> IF i = target[k] /\ i \in Retained(jobs)
                                   THEN RequestCancel(jobs[i]) ELSE jobs[i]]
        BY <1>2 DEF CancelCloudRecord
    <2>2. \A i \in Retained(jobs) : jobs[i] \in Job
        BY DEF Retained, TypeOK
    <2>3. \A i \in Id : jobs'[i] \in Job \cup {NoJob}
        BY <2>1, <2>2, RequestCancelType DEF TypeOK
    <2>4. jobs' \in [Id -> Job \cup {NoJob}]
        BY <2>1, <2>3
    <2>5. cancel' \in [Canceller -> {"idle", "flagged", "missing", "answered", "unsaved",
                                     "dropped"}]
        BY <1>2 DEF CancelCloudRecord, TypeOK
    <2>6. TypeOK'
        BY <2>1, <2>4, <2>5 DEF TypeOK, procVars, callVars, workVars
    <2>7. \A i \in Id : jobs'[i] # NoJob => jobs[i] # NoJob /\ jobs'[i].by = jobs[i].by
        BY <2>1, <2>2 DEF Retained, RequestCancel, Job
    <2>8. Own'
        BY <2>1, <2>7 DEF Own, callVars
    <2> QED BY <2>1, <2>6, <2>8 DEF Begun, procVars, callVars, workVars
<1> QED BY <1>1, <1>2

\* A crash loses the jobs, and a restart finds no file.
LEMMA OwnCrash ==
    ASSUME ExecInv, Crash \/ Restart
    PROVE  Own' /\ Begun' /\ \A c \in Call : call'[c] # "idle" => call[c] # "idle"
<1> USE DEF ExecInv
<1>1. CASE Crash
    <2>1. \A c \in Call : call'[c] # "idle" <=> call[c] # "idle"
        BY <1>1 DEF Crash, InFlight
    <2>2. \A c \in Call : worker'[c] # "none" => worker[c] # "none"
        BY <1>1 DEF Crash
    <2>3. Own'
        BY <1>1 DEF Crash, Own, NoJobs
    <2> QED BY <1>1, <2>1, <2>2, <2>3 DEF Begun, Crash
<1>2. CASE Restart
    <2>1. Loaded(NoJobs) = NoJobs
        BY DEF Loaded, NoJobs, NoJob, Live
    <2> QED BY <1>2, <2>1 DEF Restart, LoadOutcome, Own, Begun, NoJobs, callVars, workVars
<1> QED BY <1>1, <1>2

-----------------------------------------------------------------------------
(* What a step leaves alone stays true while the file only grows.          *)

\* No job leaves the file and none changes its digest.
Grows == \A i \in Id : OnFile(i) => storeDisk'[i] # NoLocal
                                     /\ storeDisk'[i].hash = storeDisk[i].hash

LEMMA StoresFrame ==
    ASSUME Stores, UNCHANGED storeVars, up' => up
    PROVE  Stores' /\ Grows
BY DEF Stores, storeVars, Grows, OnFile

LEMMA DeliveriesFrame ==
    ASSUME Deliveries, Grows, UNCHANGED <<recv, returned>>,
           main' \in {main, Nobody} \cup Call \cup Canceller
    PROVE  Deliveries'
BY IdAssumption DEF Deliveries, Grows, OnFile

LEMMA SubmittedFrame ==
    ASSUME Submitted, Grows, \A c \in Call : call'[c] # "idle" => call[c] # "idle"
    PROVE  Submitted'
BY IdAssumption DEF Submitted, Grows, OnFile

LEMMA ReportersFrame ==
    ASSUME Reporters, Grows, UNCHANGED <<rep, seen>>
    PROVE  Reporters'
BY IdAssumption DEF Reporters, Grows, OnFile, Within

LEMMA MessagesFrame ==
    ASSUME Messages, Grows, UNCHANGED <<outbox, brokerVars>>
    PROVE  Messages'
<1>1. \A n \in 1 .. Len(outbox) : outbox[n].id \in Id
    <2>1. \A n \in 1 .. Len(outbox) : outbox[n] \in Message
        BY DEF Messages
    <2> QED BY <2>1 DEF Message
<1> QED BY <1>1 DEF Messages, Grows, OnFile, brokerVars

LEMMA CountedFrame ==
    ASSUME Counted, UNCHANGED <<link, losses, session, delivered, repSession, crashes>>
    PROVE  Counted'
BY DEF Counted

\* Saving one job: the file has the old or the new one.
LEMMA StorePut ==
    ASSUME Stores, up, up' = up, NEW i \in Id, NEW job \in Entry, job # NoLocal,
           OnFile(i) => job.hash = storeDisk[i].hash,
           store' = [store EXCEPT ![i] = job], storeDisk' \in {storeDisk, store'}
    PROVE  Stores' /\ Grows /\ (storeDisk' = store' => storeDisk'[i] = job)
<1>1. store' \in [Id -> Entry] /\ storeDisk' \in [Id -> Entry]
    BY DEF Stores
<1>2. store'[i] = job /\ \A j \in Id : j # i => store'[j] = store[j]
    BY DEF Stores
<1>3. \A j \in Id : OnFile(j) => store'[j] # NoLocal /\ store'[j].hash = storeDisk[j].hash
    BY <1>2 DEF Stores
<1>4. Grows
    BY <1>3 DEF Grows, OnFile
<1> QED BY <1>1, <1>2, <1>3, <1>4 DEF Stores, OnFile

\* The job a store holds, and the snapshots a reporter takes.
LEMMA ReceivedEntry ==
    ASSUME NEW c \in Call
    PROVE  Received(c) \in Entry /\ Received(c) # NoLocal /\ Received(c).hash = HashOf[c]
BY DEF Received, Entry, LocalJob, JobState, Live, NoLocal

LEMMA SnapshotEntry ==
    ASSUME TypeOK, NEW i \in Id
    PROVE  /\ Snapshot(i) \in Entry
           /\ Snapshot(i) # NoLocal => jobs[i] # NoJob /\ Snapshot(i).hash = HashOf[jobs[i].by]
           /\ jobs[i] # NoJob => Snapshot(i) # NoLocal
<1>1. CASE jobs[i] = NoJob
    BY <1>1 DEF Snapshot, Entry
<1>2. CASE jobs[i] # NoJob
    <2>1. jobs[i].state \in Live \cup Terminal /\ jobs[i].by \in Call
        BY <1>2 DEF TypeOK, Job
    <2>2. paw[jobs[i].by] \in BOOLEAN
        BY <2>1 DEF TypeOK
    <2> DEFINE mark == jobs[i].state \in Terminal /\ paw[jobs[i].by]
    <2>3. mark \in BOOLEAN
        BY <2>2
    <2>4. Snapshot(i) = [state |-> jobs[i].state, paw |-> mark, hash |-> HashOf[jobs[i].by]]
        BY <1>2 DEF Snapshot
    <2> HIDE DEF mark
    <2>5. jobs[i].state \in JobState /\ jobs[i].state # "running" /\ jobs[i].state # "absent"
        BY <2>1 DEF JobState, Live, Terminal
    <2>6. Snapshot(i) \in LocalJob /\ Snapshot(i).state # "running" /\ Snapshot(i).state # "absent"
        BY <2>1, <2>3, <2>4, <2>5 DEF LocalJob
    <2> QED BY <1>2, <2>4, <2>6 DEF Entry, NoLocal
<1> QED BY <1>1, <1>2

\* A message of a job on file may be sent.
LEMMA SendingKept ==
    ASSUME Messages, Counted, NEW s, NEW kind \in {"received", "progress", "result"},
           NEW i \in Id, NEW state \in JobState, kind = "result" => state \in Terminal,
           OnFile(i), CanSend(s), Sending(s, kind, i, state),
           UNCHANGED <<storeDisk, brokerVars>>
    PROVE  Messages'
<1>1. CASE outbox' = outbox
    BY <1>1 DEF Messages, OnFile, brokerVars
<1>2. CASE link /\ s = session
    <2> DEFINE m == [kind |-> kind, id |-> i, state |-> state]
    <2>1. outbox' = Append(outbox, m) /\ m \in Message /\ Len(outbox) < Slots
        BY <1>2 DEF Sending, Message, CanSend
    <2>2. outbox \in Seq(Message) /\ Slots \in Nat
        BY CloudAssumption DEF Messages
    <2>3. /\ outbox' \in Seq(Message) /\ Len(outbox') = Len(outbox) + 1
          /\ \A n \in 1 .. Len(outbox) : outbox'[n] = outbox[n]
          /\ outbox'[Len(outbox) + 1] = m
        BY <2>1, <2>2
    <2>4. ASSUME NEW n \in 1 .. Len(outbox')
          PROVE  /\ OnFile(outbox'[n].id)
                 /\ outbox'[n].kind = "result" => outbox'[n].state \in Terminal
        <3>1. n \in 1 .. Len(outbox) \/ n = Len(outbox) + 1
            BY <2>2, <2>3
        <3> QED BY <2>3, <3>1 DEF Messages
    <2>5. Len(outbox') <= Slots
        BY <2>1, <2>2, <2>3
    <2> QED BY <2>3, <2>4, <2>5 DEF Messages, OnFile, brokerVars
<1> QED BY <1>1, <1>2 DEF Sending

-----------------------------------------------------------------------------
(* The session's steps.                                                    *)

LEMMA SessionStep ==
    ASSUME CloudInv, Connect \/ Lose \/ BrokerTakes
    PROVE  AgentInv' /\ UNCHANGED vars
<1> USE CloudAssumption, BoundAssumption DEF CloudInv, AgentInv
<1>0. UNCHANGED <<vars, storeVars, recvVars, repVars>>
    BY DEF Connect, Lose, BrokerTakes
<1>1. UNCHANGED <<up, crashes, call, store, storeDisk, recv, returned, main, rep, seen, repSession>>
    BY <1>0 DEF vars, procVars, callVars, storeVars, recvVars, repVars
<1>2. Stores' /\ Grows
    BY <1>1, StoresFrame DEF storeVars
<1>3. Deliveries' /\ Submitted' /\ Reporters'
    BY <1>1, <1>2, DeliveriesFrame, SubmittedFrame, ReportersFrame
<1>c. crashes \in 0 .. MaxCrashes
    BY DEF ExecInv, TypeOK
<1>4. CASE Connect
    <2>1. Messages'
        BY <1>2, <1>4, MessagesFrame DEF Connect
    <2>2. Counted'
        BY <1>1, <1>c, <1>4 DEF Connect, Counted
    <2> QED BY <1>0, <1>2, <1>3, <2>1, <2>2
<1>5. CASE Lose
    <2>1. Messages'
        BY <1>1, <1>5 DEF Lose, Messages, OnFile, brokerVars
    <2>2. Counted'
        <3>1. /\ link' = FALSE /\ link = TRUE /\ losses' = losses + 1 /\ losses < MaxLosses
              /\ session' = session /\ crashes' = crashes
              /\ delivered' = delivered /\ repSession' = repSession
            BY <1>1, <1>5 DEF Lose, Counted
        <3>2. losses \in Nat /\ session \in Nat /\ crashes \in Nat /\ MaxLosses \in Nat
              /\ session <= losses + crashes + 1
            BY <1>c, <3>1 DEF Counted
        <3>3. losses + 1 \in 0 .. MaxLosses /\ session <= (losses + 1) + crashes + 0
            BY ONLY <3>1, <3>2
        <3> QED BY <3>1, <3>3 DEF Counted
    <2> QED BY <1>0, <1>2, <1>3, <2>1, <2>2
<1>6. CASE BrokerTakes
    <2>1. Counted'
        BY <1>1, <1>6, CountedFrame DEF BrokerTakes
    <2>2. outbox \in Seq(Message) /\ outbox # <<>> /\ outbox' = Tail(outbox)
        BY <1>6 DEF BrokerTakes, Messages
    <2>3. /\ outbox' \in Seq(Message) /\ Len(outbox') = Len(outbox) - 1
          /\ \A n \in 1 .. Len(outbox') : n + 1 \in 1 .. Len(outbox) /\ outbox'[n] = outbox[n + 1]
        BY <2>2
    <2> DEFINE m == Head(outbox)
    <2>4. m = outbox[1] /\ 1 \in 1 .. Len(outbox) /\ m \in Message
        BY <2>2
    <2>5. OnFile(m.id) /\ (m.kind = "result" => m.state \in Terminal) /\ m.id \in Id
        BY <2>4 DEF Messages, Message
    <2>6. /\ broker' = [broker EXCEPT ![m.id] = IF broker[m.id] \in Terminal THEN broker[m.id]
                                   ELSE IF m.kind = "result" THEN m.state ELSE "delivered"]
          /\ results' = [results EXCEPT ![m.id] =
                IF m.kind = "result" THEN results[m.id] \cup {m.state} ELSE results[m.id]]
        BY <1>6 DEF BrokerTakes
    <2> HIDE DEF m
    <2>7. broker' \in [Id -> {"queued", "delivered"} \cup Terminal]
        <3>1. broker \in [Id -> {"queued", "delivered"} \cup Terminal]
            BY DEF Messages
        <3>2. (IF broker[m.id] \in Terminal THEN broker[m.id]
               ELSE IF m.kind = "result" THEN m.state ELSE "delivered")
              \in {"queued", "delivered"} \cup Terminal
            BY <2>5, <3>1
        <3> QED BY ONLY <2>6, <3>1, <3>2
    <2>8. results' \in [Id -> SUBSET Terminal]
        <3>1. results \in [Id -> SUBSET Terminal]
            BY DEF Messages
        <3>2. (IF m.kind = "result" THEN results[m.id] \cup {m.state} ELSE results[m.id])
              \in SUBSET Terminal
            BY <2>5, <3>1
        <3> QED BY ONLY <2>6, <3>1, <3>2
    <2>9. \A i \in Id : broker'[i] # "queued" => OnFile(i)
        BY <2>5, <2>6 DEF Messages
    <2>10. \A n \in 1 .. Len(outbox') :
               OnFile(outbox'[n].id) /\ (outbox'[n].kind = "result" => outbox'[n].state \in Terminal)
        <3>1. \A n \in 1 .. Len(outbox) :
                  OnFile(outbox[n].id) /\ (outbox[n].kind = "result" => outbox[n].state \in Terminal)
            BY DEF Messages
        <3> QED BY ONLY <2>3, <3>1
    <2>11. Len(outbox') <= Slots
        <3>1. Len(outbox) <= Slots /\ Slots \in Nat
            BY CloudAssumption DEF Messages
        <3>2. Len(outbox) \in Nat
            BY <2>2
        <3> QED BY ONLY <2>3, <3>1, <3>2
    <2>12. Messages'
        BY <1>1, <2>3, <2>7, <2>8, <2>9, <2>10, <2>11 DEF Messages, OnFile
    <2> QED BY <1>0, <1>2, <1>3, <2>1, <2>12
<1> QED BY <1>4, <1>5, <1>6

-----------------------------------------------------------------------------
(* The delivery's steps.                                                   *)

LEMMA ReceiveStep ==
    ASSUME CloudInv, NEW c \in Call, Receive(c)
    PROVE  AgentInv' /\ UNCHANGED vars
<1> USE IdAssumption DEF CloudInv, AgentInv
<1>1. /\ up /\ recv[c] = "idle" /\ delivered' = [delivered EXCEPT ![IdOf[c]] = session]
      /\ UNCHANGED <<vars, link, session, losses, outbox, repVars, brokerVars>>
    BY DEF Receive
<1>2. UNCHANGED <<up, crashes, call>>
    BY <1>1 DEF vars, procVars, callVars
<1>3. Counted'
    BY <1>1, <1>2 DEF Counted, repVars
<1>4. CASE Moved(c, "ignored") /\ UNCHANGED <<storeVars, main, returned>>
    <2>1. Stores' /\ Grows
        BY <1>2, <1>4, StoresFrame
    <2>2. Deliveries'
        BY <1>4 DEF Deliveries, Moved, RecvStage, Within, OnFile, storeVars
    <2> QED BY <1>1, <1>2, <1>3, <2>1, <2>2, SubmittedFrame, ReportersFrame, MessagesFrame DEF repVars
<1>5. CASE /\ ~Conflicts(c)
           /\ store' = Stored(c)
           /\ \E ok \in StoreOutcome :
                 /\ SaveStore(ok)
                 /\ Moved(c, AfterReceive(ok))
                 /\ main' = IF AfterReceive(ok) = "received" THEN c ELSE Nobody
           /\ returned' = [returned EXCEPT ![c] = store'[IdOf[c]]]
    <2>1. PICK ok \in StoreOutcome :
                 /\ SaveStore(ok)
                 /\ Moved(c, AfterReceive(ok))
                 /\ main' = IF AfterReceive(ok) = "received" THEN c ELSE Nobody
        BY <1>5
    <2> DEFINE job == IF store[IdOf[c]] = NoLocal THEN Received(c) ELSE store[IdOf[c]]
    <2>2. job \in Entry /\ job # NoLocal /\ job.hash = HashOf[c]
        BY <1>5, ReceivedEntry DEF Conflicts, Stores
    <2>3. store' = [store EXCEPT ![IdOf[c]] = job]
        BY <1>5 DEF Stored, Stores
    <2>4. OnFile(IdOf[c]) => job.hash = storeDisk[IdOf[c]].hash
        BY <1>1 DEF Stores
    <2> HIDE DEF job
    <2>5. storeDisk' \in {storeDisk, store'}
        BY <2>1 DEF SaveStore
    <2>6. Stores' /\ Grows /\ (storeDisk' = store' => storeDisk'[IdOf[c]] = job)
        BY <1>1, <1>2, <2>2, <2>3, <2>4, <2>5, StorePut
    <2>7. returned' = [returned EXCEPT ![c] = job]
        BY <1>5, <2>3 DEF Stores
    <2>8. returned' \in [Call -> Entry] /\ returned'[c] = job
          /\ \A d \in Call : d # c => returned'[d] = returned[d]
        BY <2>2, <2>7 DEF Deliveries
    <2>9. recv' \in [Call -> RecvStage] /\ recv'[c] \in {"received", "ignored"}
          /\ (recv'[c] = "received" => ok) /\ \A d \in Call : d # c => recv'[d] = recv[d]
        BY <2>1 DEF Moved, AfterReceive, Deliveries, RecvStage
    <2>10. recv'[c] = "received" => storeDisk'[IdOf[c]] = job
        BY <2>1, <2>6, <2>9 DEF SaveStore
    <2>11. ASSUME NEW d \in Call, recv'[d] \in Within
           PROVE  /\ OnFile(IdOf[d])' /\ storeDisk'[IdOf[d]].hash = HashOf[d]
                  /\ returned'[d] # NoLocal /\ returned'[d].hash = HashOf[d]
        <3>1. CASE d = c
            BY <2>2, <2>8, <2>9, <2>10, <2>11, <3>1 DEF OnFile, Within
        <3>2. CASE d # c
            BY <2>6, <2>8, <2>9, <2>11, <3>2 DEF Deliveries, Grows, OnFile
        <3> QED BY <3>1, <3>2
    <2>12. \A d \in Call : recv'[d] \in {"known", "refused"} => returned'[d].state \in Terminal
        BY <2>8, <2>9 DEF Deliveries
    <2>13. Deliveries'
        BY <2>1, <2>8, <2>9, <2>11, <2>12 DEF Deliveries
    <2> QED BY <1>1, <1>2, <1>3, <2>6, <2>13, SubmittedFrame, ReportersFrame, MessagesFrame DEF repVars
<1> QED BY <1>1, <1>4, <1>5 DEF Receive

\* The delivery's message is of its job, which is on file.
LEMMA SpeakStep ==
    ASSUME CloudInv, NEW c \in Call, Acknowledge(c) \/ SendResult(c)
    PROVE  AgentInv' /\ UNCHANGED vars
<1> USE IdAssumption DEF CloudInv, AgentInv
<1>1. /\ recv[c] \in Within /\ UNCHANGED <<vars, storeVars, link, session, losses, delivered,
                                          returned, repVars, brokerVars>>
      /\ CanSend(session) /\ main' \in {main, Nobody}
    BY DEF Acknowledge, SendResult, Within
<1>2. UNCHANGED <<up, crashes, call, store, storeDisk>>
    BY <1>1 DEF vars, procVars, callVars, storeVars
<1>3. Stores' /\ Grows
    BY <1>2, StoresFrame DEF storeVars
<1>4. /\ OnFile(IdOf[c]) /\ returned[c] \in Entry /\ returned[c] # NoLocal
    BY <1>1 DEF Deliveries
<1>5. returned[c].state \in JobState
    BY <1>4 DEF Entry, LocalJob
<1>6. CASE Acknowledge(c)
    <2>1. Messages'
        BY <1>1, <1>2, <1>4, <1>5, <1>6, SendingKept DEF Acknowledge
    <2>2. Moved(c, IF Finished(returned[c]) THEN "known" ELSE "submitting") /\ recv[c] = "received"
        BY <1>6 DEF Acknowledge
    <2>3. Deliveries'
        BY <1>1, <1>2, <2>2 DEF Deliveries, Moved, RecvStage, Within, OnFile, Finished
    <2> QED BY <1>1, <1>2, <1>3, <2>1, <2>3, SubmittedFrame, ReportersFrame, CountedFrame DEF repVars
<1>7. CASE SendResult(c)
    <2>1. returned[c].state \in Terminal
        BY <1>7 DEF SendResult, Deliveries
    <2>2. Messages'
        BY <1>1, <1>2, <1>4, <1>5, <1>7, <2>1, SendingKept DEF SendResult
    <2>3. Moved(c, "over")
        BY <1>7 DEF SendResult
    <2>4. Deliveries'
        BY <1>1, <1>2, <2>3 DEF Deliveries, Moved, RecvStage, Within, OnFile
    <2> QED BY <1>1, <1>2, <1>3, <2>2, <2>4, SubmittedFrame, ReportersFrame, CountedFrame DEF repVars
<1> QED BY <1>6, <1>7

\* The digest of the job a replay finds is the delivery's.
LEMMA ReplayedOwn ==
    ASSUME ExecInv, NEW c \in Call, Submit(c), call'[c] = "replayed", call[c] # "replayed"
    PROVE  jobs[IdOf[c]] # NoJob /\ HashOf[jobs[IdOf[c]].by] = HashOf[c]
<1>1. \E i \in KeyHolders(jobs, c) : SameRequest(i, c)
    BY DEF Submit, Lookup, Reject, Insert, RegisterEvents, RegisterCancellation, Spawn, Answer,
           AfterSave, Recheck, ExecInv, TypeOK
<1>2. PICK i \in KeyHolders(jobs, c) : SameRequest(i, c)
    BY <1>1
<1>3. i \in Id /\ jobs[i] # NoJob /\ KeyOf[jobs[i].by] = KeyOf[c] /\ jobs[i].by \in Call
    BY DEF KeyHolders, Retained, ExecInv, TypeOK, Job
<1>4. i = IdOf[c]
    BY <1>3, CloudAssumption DEF ExecInv, Own
<1> QED BY <1>2, <1>3, <1>4 DEF SameRequest

LEMMA SubmitStep ==
    ASSUME CloudInv, NEW c \in Call, SubmitCloudJob(c)
    PROVE  CloudInv'
<1> USE IdAssumption DEF CloudInv, AgentInv
<1>1. /\ recv[c] = "submitting" /\ Submit(c)
      /\ UNCHANGED <<storeVars, linkVars, main, recv, repVars, brokerVars>>
    BY DEF SubmitCloudJob
<1>2. TypeOK' /\ Own' /\ Begun' /\ \A d \in Call : d # c => call'[d] = call[d]
    BY <1>1, SubmitType, OwnSubmit DEF ExecInv
<1>3. up /\ UNCHANGED <<up, crashes, store, storeDisk>>
    BY <1>1, SubmitFrame DEF Submit, Lookup, Reject, Insert, RegisterEvents, RegisterCancellation,
                             Spawn, procVars, storeVars, ExecInv
<1>4. Stores' /\ Grows
    BY <1>3, StoresFrame DEF storeVars
<1>5. Submitted'
    BY <1>1, <1>2, <1>3 DEF Submitted, Deliveries, Within, OnFile
<1>6. returned' = [returned EXCEPT ![c] = IF call'[c] = "replayed" THEN Snapshot(IdOf[c])
                        ELSE IF call'[c] = "accepted" THEN Received(c)
                        ELSE returned[c]]
    BY DEF SubmitCloudJob
<1>7. call[c] # "replayed"
    BY <1>1 DEF Submit, Lookup, Reject, Insert, RegisterEvents, RegisterCancellation, Spawn
<1>8. PICK job \in Entry : /\ returned' = [returned EXCEPT ![c] = job]
                           /\ job # NoLocal /\ job.hash = HashOf[c]
    <2>1. CASE call'[c] = "replayed"
        <3>1. jobs[IdOf[c]] # NoJob /\ HashOf[jobs[IdOf[c]].by] = HashOf[c]
            BY <1>1, <1>7, <2>1, ReplayedOwn
        <3>2. /\ Snapshot(IdOf[c]) \in Entry /\ Snapshot(IdOf[c]) # NoLocal
              /\ Snapshot(IdOf[c]).hash = HashOf[c]
            BY <3>1, SnapshotEntry DEF ExecInv
        <3>3. returned' = [returned EXCEPT ![c] = Snapshot(IdOf[c])]
            BY <1>6, <2>1
        <3> QED BY <3>2, <3>3
    <2>2. CASE call'[c] = "accepted"
        BY <1>6, <2>2, ReceivedEntry
    <2>3. CASE call'[c] \notin {"replayed", "accepted"}
        BY <1>1, <1>6, <2>3 DEF Deliveries, Within
    <2> QED BY <2>1, <2>2, <2>3
<1>9. Deliveries'
    BY <1>1, <1>3, <1>8 DEF Deliveries, OnFile
<1> QED BY <1>1, <1>2, <1>3, <1>4, <1>5, <1>9, ReportersFrame, MessagesFrame, CountedFrame
        DEF repVars, linkVars, ExecInv

\* A refusal marks the stored job, and an answer of submit replaces it.
LEMMA AnswerStep ==
    ASSUME CloudInv, NEW c \in Call, Refuse(c) \/ Record(c)
    PROVE  AgentInv' /\ UNCHANGED vars
<1> USE IdAssumption DEF CloudInv, AgentInv
<1>1. /\ up /\ recv[c] = "submitting"
      /\ UNCHANGED <<vars, linkVars, seen, brokerVars>>
    BY DEF Refuse, Record, repVars
<1>2. UNCHANGED <<up, crashes, call, link, losses, session, delivered, outbox>>
    BY <1>1 DEF vars, procVars, callVars, linkVars
<1>3. /\ OnFile(IdOf[c]) /\ storeDisk[IdOf[c]].hash = HashOf[c]
      /\ returned[c] \in Entry /\ returned[c] # NoLocal /\ returned[c].hash = HashOf[c]
    BY <1>1 DEF Deliveries, Within
<1>4. store[IdOf[c]] \in Entry /\ store[IdOf[c]] # NoLocal /\ store[IdOf[c]].hash = HashOf[c]
    BY <1>1, <1>3 DEF Stores
<1>5. CASE Refuse(c)
    <2> DEFINE job == [store[IdOf[c]] EXCEPT !.state = "failed"]
    <2>1. job \in Entry /\ job # NoLocal /\ job.hash = HashOf[c] /\ job.state \in Terminal
        BY <1>4 DEF Entry, LocalJob, NoLocal, JobState, Terminal
    <2>2. store' = [store EXCEPT ![IdOf[c]] = job]
        BY <1>5 DEF Refuse
    <2> HIDE DEF job
    <2>3. PICK ok \in StoreOutcome :
              /\ SaveStore(ok) /\ Moved(c, IF ok THEN "refused" ELSE "over")
              /\ main' = IF ok THEN c ELSE Nobody
        BY <1>5 DEF Refuse
    <2>4. storeDisk' \in {storeDisk, store'}
        BY <2>3 DEF SaveStore
    <2>5. Stores' /\ Grows
        BY <1>1, <1>2, <1>3, <2>1, <2>2, <2>4, StorePut
    <2>6. returned' = [returned EXCEPT ![c] = job] /\ UNCHANGED repVars
        BY <1>5, <2>2 DEF Refuse, Stores
    <2>7. returned' \in [Call -> Entry] /\ returned'[c] = job
          /\ \A d \in Call : d # c => returned'[d] = returned[d]
        BY <2>1, <2>6 DEF Deliveries
    <2>8. recv' \in [Call -> RecvStage] /\ recv'[c] \in {"refused", "over"}
          /\ \A d \in Call : d # c => recv'[d] = recv[d]
        BY <2>3 DEF Moved, Deliveries, RecvStage
    <2>9. ASSUME NEW d \in Call, recv'[d] \in Within
          PROVE  /\ OnFile(IdOf[d])' /\ storeDisk'[IdOf[d]].hash = HashOf[d]
                 /\ returned'[d] # NoLocal /\ returned'[d].hash = HashOf[d]
        <3>1. CASE d = c
            BY <1>3, <2>1, <2>5, <2>7, <3>1 DEF OnFile, Grows
        <3>2. CASE d # c
            BY <2>5, <2>7, <2>8, <2>9, <3>2 DEF Deliveries, Grows, OnFile
        <3> QED BY <3>1, <3>2
    <2>10. \A d \in Call : recv'[d] \in {"known", "refused"} => returned'[d].state \in Terminal
        BY <2>1, <2>7, <2>8 DEF Deliveries
    <2>11. Deliveries'
        BY <2>3, <2>7, <2>8, <2>9, <2>10 DEF Deliveries
    <2> QED BY <1>1, <1>2, <2>5, <2>6, <2>11, SubmittedFrame, ReportersFrame, MessagesFrame,
               CountedFrame DEF repVars
<1>6. CASE Record(c)
    <2>1. /\ store' = [store EXCEPT ![IdOf[c]] = returned[c]]
          /\ storeDisk' \in {storeDisk, store'}
          /\ Moved(c, "over") /\ main' = Nobody /\ returned' = returned
          /\ rep' = [rep EXCEPT ![c] = "polling"]
          /\ repSession' = [repSession EXCEPT ![c] = session]
        BY <1>6 DEF Record, SaveStore
    <2>2. Stores' /\ Grows
        BY <1>1, <1>2, <1>3, <2>1, StorePut
    <2>3. Deliveries'
        BY <2>1, <2>2 DEF Deliveries, Moved, RecvStage, Within, OnFile, Grows
    <2>4. Reporters'
        BY <1>1, <1>3, <2>1, <2>2 DEF Reporters, OnFile, Grows
    <2>5. Counted'
        BY <1>2, <2>1 DEF Counted
    <2> QED BY <1>1, <1>2, <2>2, <2>3, <2>4, <2>5, SubmittedFrame, MessagesFrame
<1> QED BY <1>5, <1>6

-----------------------------------------------------------------------------
(* The reporter's steps.                                                   *)

LEMMA ReporterStep ==
    ASSUME CloudInv, NEW c \in Call, Reporter(c)
    PROVE  AgentInv' /\ UNCHANGED vars
<1> USE IdAssumption DEF CloudInv, AgentInv
<1>1. /\ up /\ rep[c] # "none"
      /\ UNCHANGED <<vars, link, losses, session, delivered, recvVars, repSession, brokerVars>>
    BY DEF Reporter, Poll, Keep, Report, linkVars
<1>2. UNCHANGED <<up, crashes, call, recv, returned, main>>
    BY <1>1 DEF vars, procVars, callVars, recvVars
<1>3. Counted'
    BY <1>1, <1>2, CountedFrame
<1>4. OnFile(IdOf[c])
    BY <1>1 DEF Reporters
<1>5. CASE Poll(c)
    <2> DEFINE job == Snapshot(IdOf[c])
    <2>1. UNCHANGED <<storeVars, linkVars>>
        BY <1>5 DEF Poll
    <2>2. Stores' /\ Grows
        BY <1>2, <2>1, StoresFrame
    <2>3. \/ UNCHANGED seen /\ \E stage \in {"polling", "over"} : Step(c, stage)
          \/ job # NoLocal /\ seen' = [seen EXCEPT ![c] = job] /\ Step(c, "read")
        BY <1>5 DEF Poll
    <2>4. job \in Entry /\ (job # NoLocal => job.hash = storeDisk[IdOf[c]].hash)
        <3>1. job \in Entry /\ (job # NoLocal => jobs[IdOf[c]] # NoJob
                                                 /\ job.hash = HashOf[jobs[IdOf[c]].by])
            BY SnapshotEntry DEF ExecInv
        <3>2. jobs[IdOf[c]] # NoJob =>
                  storeDisk[IdOf[c]].hash = HashOf[jobs[IdOf[c]].by]
            <4> SUFFICES ASSUME jobs[IdOf[c]] # NoJob
                         PROVE  storeDisk[IdOf[c]].hash = HashOf[jobs[IdOf[c]].by]
                OBVIOUS
            <4>1. PICK d \in Call : d = jobs[IdOf[c]].by
                BY DEF ExecInv, TypeOK, Job
            <4>2. IdOf[d] = IdOf[c] /\ call[d] # "idle"
                BY <4>1 DEF ExecInv, Own
            <4> QED BY <4>1, <4>2 DEF Submitted
        <3> QED BY <3>1, <3>2
    <2> HIDE DEF job
    <2>5. Reporters'
        BY <1>1, <2>1, <2>3, <2>4 DEF Reporters, Step, OnFile, storeVars
    <2> QED BY <1>1, <1>2, <1>3, <2>1, <2>2, <2>5, DeliveriesFrame, SubmittedFrame, MessagesFrame
            DEF linkVars
<1>6. CASE Keep(c)
    <2>1. /\ rep[c] = "read" /\ store' = [store EXCEPT ![IdOf[c]] = seen[c]]
          /\ storeDisk' \in {storeDisk, store'} /\ UNCHANGED <<linkVars, seen>>
          /\ \E stage \in {"kept", "over"} : Step(c, stage)
        BY <1>6 DEF Keep, SaveStore
    <2>2. seen[c] \in Entry /\ seen[c] # NoLocal /\ seen[c].hash = storeDisk[IdOf[c]].hash
        BY <2>1 DEF Reporters
    <2>3. Stores' /\ Grows
        BY <1>1, <1>2, <2>1, <2>2, StorePut
    <2>4. Reporters'
        BY <2>1, <2>2, <2>3, <1>4 DEF Reporters, Step, OnFile, Grows
    <2> QED BY <1>1, <1>2, <1>3, <2>1, <2>3, <2>4, DeliveriesFrame, SubmittedFrame, MessagesFrame
            DEF linkVars
<1>7. CASE Report(c)
    <2> DEFINE kind == IF Finished(seen[c]) THEN "result" ELSE "progress"
    <2>1. /\ rep[c] = "kept" /\ CanSend(repSession[c])
          /\ Sending(repSession[c], kind, IdOf[c], seen[c].state)
          /\ UNCHANGED <<storeVars, seen>> /\ \E stage \in {"polling", "over"} : Step(c, stage)
        BY <1>7 DEF Report
    <2>2. Stores' /\ Grows
        BY <1>2, <2>1, StoresFrame
    <2>3. seen[c].state \in JobState
        BY <2>1 DEF Reporters, Entry, LocalJob
    <2>4. kind \in {"received", "progress", "result"} /\ (kind = "result" => seen[c].state \in Terminal)
        BY DEF Finished
    <2> HIDE DEF kind
    <2>5. Messages'
        BY <1>1, <1>4, <2>1, <2>3, <2>4, SendingKept DEF storeVars
    <2>6. Reporters'
        BY <1>4, <2>1 DEF Reporters, Step, OnFile, storeVars
    <2> QED BY <1>1, <1>2, <1>3, <2>2, <2>5, <2>6, DeliveriesFrame, SubmittedFrame
<1> QED BY <1>5, <1>6, <1>7 DEF Reporter

-----------------------------------------------------------------------------
(* Workers, cancellations and the process.                                 *)

LEMMA CloudWorkStep ==
    ASSUME CloudInv, NEW c \in Call, CloudWork(c)
    PROVE  CloudInv'
<1> USE DEF CloudInv, AgentInv
<1>1. Work(c) /\ UNCHANGED <<storeVars, linkVars, recvVars, repVars, brokerVars>>
    BY DEF CloudWork, agentVars
<1>2. ExecInv' /\ UNCHANGED <<up, crashes, call>>
    BY <1>1, WorkType, OwnWork DEF ExecInv
<1>3. Stores' /\ Grows
    BY <1>1, <1>2, StoresFrame
<1> QED BY <1>1, <1>2, <1>3, DeliveriesFrame, SubmittedFrame, ReportersFrame, MessagesFrame,
           CountedFrame DEF linkVars, recvVars, repVars

LEMMA CloudCancelStep ==
    ASSUME CloudInv, NEW k \in Canceller, CloudCancel(k)
    PROVE  CloudInv'
<1> USE DEF CloudInv, AgentInv
<1>1. UNCHANGED <<storeVars, linkVars, recv, returned, repVars, brokerVars>> /\ main' \in {k, Nobody}
    BY DEF CloudCancel, CancelCloudFlag, CancelCloudRecord
<1>2. ExecInv' /\ UNCHANGED <<up, crashes, call>>
    BY OwnCancel DEF CloudCancel
<1>3. Stores' /\ Grows
    BY <1>1, <1>2, StoresFrame
<1> QED BY <1>1, <1>2, <1>3, DeliveriesFrame, SubmittedFrame, ReportersFrame, MessagesFrame,
           CountedFrame DEF linkVars, repVars

\* A crash loses the store in memory, the outbox and the tasks; a restart
\* reads the store's file and keeps its digests.
LEMMA CloudProcessStep ==
    ASSUME CloudInv, CloudCrash \/ CloudRestart
    PROVE  CloudInv'
<1> USE CloudAssumption, BoundAssumption DEF CloudInv, AgentInv
<1>1. CASE CloudCrash
    <2>1. ExecInv' /\ \A c \in Call : call'[c] # "idle" => call[c] # "idle"
        BY <1>1, CrashType, OwnCrash DEF CloudCrash, ExecInv
    <2>2. /\ ~up' /\ crashes' = crashes + 1
          /\ store' = [i \in Id |-> NoLocal] /\ link' = FALSE /\ outbox' = <<>> /\ main' = Nobody
          /\ recv' = [c \in Call |-> IF recv[c] \in {"received", "known", "refused", "submitting"}
                                     THEN "over" ELSE recv[c]]
          /\ rep' = [c \in Call |-> IF rep[c] = "none" THEN "none" ELSE "over"]
          /\ storeDisk' = storeDisk /\ session' = session /\ losses' = losses
          /\ delivered' = delivered /\ returned' = returned /\ seen' = seen
          /\ repSession' = repSession /\ broker' = broker /\ results' = results
        BY <1>1 DEF CloudCrash, Crash, brokerVars
    <2>3. Stores' /\ Grows
        BY <2>2 DEF Stores, Entry, Grows, OnFile
    <2>4. Deliveries'
        BY <2>2 DEF Deliveries, RecvStage, Within, OnFile
    <2>5. Reporters'
        BY <2>2 DEF Reporters, OnFile
    <2>6. Messages'
        BY <2>2 DEF Messages, OnFile
    <2>7. Counted'
        <3>1. crashes \in Nat /\ losses \in Nat /\ session \in Nat
              /\ session <= losses + crashes + 1
            BY DEF ExecInv, TypeOK, Counted
        <3>2. session <= losses + (crashes + 1) + 0
            BY ONLY <3>1
        <3> QED BY <2>2, <3>2 DEF Counted
    <2> QED BY <2>1, <2>3, <2>4, <2>5, <2>6, <2>7, SubmittedFrame
<1>2. CASE CloudRestart
    <2>1. ExecInv' /\ \A c \in Call : call'[c] # "idle" => call[c] # "idle"
        BY <1>2, CrashType, OwnCrash DEF CloudRestart, ExecInv
    <2>2. /\ store' = [i \in Id |-> Reconciled(storeDisk[i])] /\ storeDisk' = store'
          /\ UNCHANGED <<crashes, linkVars, recvVars, repVars, brokerVars>>
        BY <1>2 DEF CloudRestart, Restart
    <2>3. \A job \in Entry : Reconciled(job) = job
        BY DEF Reconciled, Entry, NoLocal
    <2>4. store' = storeDisk /\ storeDisk' = storeDisk
        BY <2>2, <2>3 DEF Stores
    <2>5. Stores' /\ Grows
        BY <2>4 DEF Stores, Grows, OnFile
    <2> QED BY <2>1, <2>2, <2>5, DeliveriesFrame, SubmittedFrame, ReportersFrame, MessagesFrame,
               CountedFrame DEF linkVars, recvVars, repVars
<1> QED BY <1>1, <1>2

-----------------------------------------------------------------------------
(* The executor under the agent.                                           *)

\* A job keeps its place and its call, and a finished one its outcome.
Steady ==
    \A i \in Id : /\ jobs[i] # NoJob => jobs'[i] # NoJob /\ jobs'[i].by = jobs[i].by
                  /\ jobs[i].state \in Terminal => jobs'[i] = jobs[i]

\* No job comes under an id, unless it is the one excepted.
NoNew(except) == \A i \in Id \ except : jobs[i] = NoJob => jobs'[i] = NoJob

\* submit and the worker are the executor's own steps.
LEMMA PlacedWork ==
    ASSUME PlacedInv, NEW c \in Call, Submit(c) \/ Work(c)
    PROVE  PlacedInv' /\ Next /\ up /\ up' /\ NoNew({IdOf[c]}) /\ (Work(c) => NoNew({}))
<1> USE IdAssumption DEF PlacedInv, HonestInv, KeptInv
<1>1. Next /\ up /\ up'
    BY SubmitFrame, WorkFrame DEF Next
<1>2. TypeOK'
    BY SubmitType, WorkType
<1>3. PlacedInv'
    BY <1>1, <1>2, KeptStep, WireStep, FinalStep, PlacedStep
<1>4. NoNew({IdOf[c]}) /\ (Work(c) => NoNew({}))
    <2>1. CASE jobs' = jobs
        BY <2>1 DEF NoNew
    <2>2. CASE Insert(c) /\ jobs' # jobs
        <3>1. PICK room \in Room(c) : jobs' = [room EXCEPT ![IdOf[c]] = [state |-> "queued", by |-> c]]
            BY <2>2 DEF Insert
        <3>2. room \in [Id -> Job \cup {NoJob}] /\ \A i \in Id : room[i] \in {jobs[i], NoJob}
            BY RoomType DEF TypeOK
        <3>3. ~Work(c)
            BY <2>2, WorkFrame DEF Insert, WorkerAccepted, HasWorker, Busy
        <3> QED BY <3>1, <3>2, <3>3 DEF NoNew
    <2>3. CASE Finish(c)
        <3>1. Kept(c)
            BY <2>3 DEF Finish, WorkerAt, JobKept, HasWorker, Busy
        <3>2. jobs[IdOf[c]] # NoJob
            BY <3>1, NobodyAssumption DEF Kept, NoJob
        <3> QED BY <2>3, <3>2 DEF Finish, TypeOK, NoNew
    <2> QED BY <2>1, <2>2, <2>3, SubmitFrame, WorkFrame
<1> QED BY <1>1, <1>3, <1>4

\* The agent's own cancellation may mark unfinished jobs, and does no more.
LEMMA PlacedCancel ==
    ASSUME PlacedInv, ExecInv, NEW k \in Canceller, CloudCancel(k)
    PROVE  /\ PlacedInv' /\ Steady /\ NoNew({}) /\ UNCHANGED <<up, call, worker>>
           /\ \A i \in Id : jobs'[i].by = jobs[i].by
<1> USE IdAssumption DEF PlacedInv, HonestInv, KeptInv
<1>1. ExecInv' /\ UNCHANGED <<up, call>>
    BY OwnCancel DEF CloudCancel
<1>2. UNCHANGED <<disk, worker, at, paw, verdict, sent>>
    BY DEF CloudCancel, CancelCloudFlag, CancelFlag, CancelCloudRecord, apiVars, workVars
<1>3. ASSUME NEW i \in Id
      PROVE  \/ jobs'[i] = jobs[i]
             \/ /\ jobs[i] # NoJob /\ jobs[i].state \in Live /\ jobs'[i] # NoJob
                /\ jobs'[i].by = jobs[i].by /\ jobs'[i].state = "cancel-requested"
    <2>1. CASE \E j \in Id : CancelCloudFlag(k, j)
        BY <2>1 DEF CancelCloudFlag, CancelFlag, apiVars
    <2>2. CASE CancelCloudRecord(k)
        <3>1. jobs'[i] = jobs[i] \/ (i \in Retained(jobs) /\ jobs'[i] = RequestCancel(jobs[i]))
            BY <2>2 DEF CancelCloudRecord
        <3>2. i \in Retained(jobs) => jobs[i] \in Job /\ jobs[i] # NoJob
            BY DEF Retained, TypeOK
        <3> QED BY <3>1, <3>2 DEF RequestCancel, Job, NoJob
    <2> QED BY <2>1, <2>2 DEF CloudCancel
<1>4. \A i \in Id : jobs'[i].by = jobs[i].by /\ (jobs'[i] # NoJob => jobs[i] # NoJob)
    BY <1>3
<1>5. \A i \in Id : jobs[i].state \in Live => jobs'[i].state \in Live
    BY <1>3 DEF Live
<1>6. JobKept' /\ WorkerAccepted'
    BY <1>1, <1>2, <1>4, <1>5 DEF JobKept, WorkerAccepted, HasWorker, Busy, Pending, Kept
<1>7. WireInv'
    BY <1>2 DEF WireInv, Wire, Honest
<1>8. ASSUME NEW i \in Retained(jobs)'
      PROVE  FinalJob(jobs[i])'
    <2>1. i \in Id /\ i \in Retained(jobs) /\ jobs'[i].by = jobs[i].by
        BY <1>4, <1>8 DEF Retained
    <2>2. FinalJob(jobs[i])
        BY <2>1 DEF FinalInv, Final
    <2>3. jobs'[i].state \in Terminal => jobs'[i] = jobs[i]
        BY <1>3, <2>1 DEF Terminal
    <2> QED BY <1>1, <1>2, <2>1, <2>2, <2>3 DEF FinalJob, Honest, HasWorker, Busy, Pending
<1>9. FinalInv'
    BY <1>1, <1>2, <1>8 DEF FinalInv, Final, FinalJob, Honest, HasWorker, Busy, Pending, Retained
<1>10. MapsPlaced'
    BY <1>2, <1>4 DEF MapsPlaced, Placed, Retained
<1>11. Steady /\ NoNew({})
    <2>1. \A i \in Id : jobs[i] # NoJob => jobs'[i] # NoJob
        BY <1>3 DEF NoJob
    <2>2. \A i \in Id : jobs[i].state \in Terminal => jobs'[i] = jobs[i]
        BY <1>3 DEF Live, Terminal
    <2> QED BY <1>4, <2>1, <2>2 DEF Steady, NoNew
<1> QED BY <1>1, <1>2, <1>4, <1>6, <1>7, <1>9, <1>10, <1>11 DEF ExecInv

\* A step of the agent alone leaves all of it as it is.
LEMMA PlacedFrame ==
    ASSUME PlacedInv, UNCHANGED vars
    PROVE  PlacedInv' /\ Steady /\ NoNew({})
<1> USE DEF PlacedInv, HonestInv, KeptInv
<1>1. TypeOK'
    BY DEF TypeOK, vars, procVars, apiVars, callVars, workVars, cancelVars
<1>2. PlacedInv'
    BY <1>1, KeptStep, WireStep, FinalStep, PlacedStep
<1> QED BY <1>2 DEF Steady, NoNew, vars, apiVars

-----------------------------------------------------------------------------
(* The executor until the first crash, when its map has room for every id. *)

\* What is to be printed, or has been, is in the map.
Held == \A c \in Call : Pending(c) \/ worker[c] # "none" => jobs[IdOf[c]].by = c

ExecLife == PlacedInv /\ Held

LEMMA LifeStep ==
    ASSUME Spacious, ExecLife, NEW c \in Call, Submit(c) \/ Work(c)
    PROVE  ExecLife' /\ Steady /\ up' /\ NoNew({IdOf[c]}) /\ (Work(c) => NoNew({}))
<1> USE IdAssumption DEF ExecLife, PlacedInv, HonestInv, KeptInv
<1>1. PlacedInv' /\ Next /\ up /\ up' /\ NoNew({IdOf[c]}) /\ (Work(c) => NoNew({}))
    BY PlacedWork
<1>2. ~Crash
    BY <1>1 DEF Crash
<1>3. \A i \in Id : jobs[i] # NoJob => jobs[i].by \in Call /\ jobs'[i].by = jobs[i].by
    BY <1>1, <1>2, PlaceKept DEF TypeOK, Job
<1>4. \A i \in Id : jobs[i] # NoJob => jobs'[i] # NoJob
    BY <1>3, NobodyAssumption DEF NoJob
<1>5. \A i \in Id : jobs[i].state \in Terminal => jobs[i] # NoJob /\ jobs'[i] \in {jobs[i], NoJob}
    BY <1>1, TerminalKept DEF NoJob, Terminal
<1>6. Steady
    BY <1>3, <1>4, <1>5 DEF Steady
<1>7. Held'
    <2> SUFFICES ASSUME NEW d \in Call, Pending(d)' \/ worker'[d] # "none"
                 PROVE  jobs'[IdOf[d]].by = d
        BY DEF Held
    <2>1. CASE Pending(d) \/ worker[d] # "none"
        <3>1. jobs[IdOf[d]].by = d /\ jobs[IdOf[d]] # NoJob
            BY <2>1, NobodyAssumption DEF Held, NoJob
        <3> QED BY <3>1, <1>3
    <2>2. CASE ~(Pending(d) \/ worker[d] # "none")
        BY <1>1, <2>2, NewlyPending
    <2> QED BY <2>1, <2>2
<1> QED BY <1>1, <1>6, <1>7

LEMMA LifeCancel ==
    ASSUME ExecLife, ExecInv, NEW k \in Canceller, CloudCancel(k)
    PROVE  ExecLife' /\ Steady /\ NoNew({})
BY PlacedCancel, IdAssumption DEF ExecLife, Held, Pending

LEMMA LifeFrame ==
    ASSUME ExecLife, UNCHANGED vars
    PROVE  ExecLife' /\ Steady /\ NoNew({})
BY PlacedFrame DEF ExecLife, Held, Pending, vars, apiVars, callVars, workVars

-----------------------------------------------------------------------------
(* The agent until the first crash.                                        *)

\* The session is busy with one delivery or one cancellation at a time.
Turns ==
    /\ \A c \in Call : recv[c] \in Within => main = c
    /\ \A k \in Canceller :
           cancel[k] = "flagged" => main = k /\ \A c \in Call : recv[c] \notin Within

\* A delivery is refused only when it could not be planned, and then the
\* executor has no job under its id; otherwise it has one.
Answered ==
    \A c \in Call :
        /\ call[c] \notin {"conflict", "busy", "unsaved"}
        /\ recv[c] \in {"idle", "ignored", "received", "known"} => call[c] = "idle"
        /\ recv[c] = "submitting" /\ call[c] \in {"planning", "rejected"} => jobs[IdOf[c]] = NoJob
        /\ call[c] \in {"accepted", "replayed"} => jobs[IdOf[c]] # NoJob

\* A job that was refused, and is not submitted again.
Closed(i) == jobs[i] = NoJob /\ store[i].state = "failed"

Ready ==
    \A c \in Call :
        /\ recv[c] = "received" /\ Closed(IdOf[c]) => Finished(returned[c])
        /\ recv[c] = "submitting" => ~Closed(IdOf[c])

\* A terminal state is true of a job that the executor's map has in it, or
\* that was refused.
Truth(i, state) == jobs[i].state = state \/ (state = "failed" /\ Closed(i))

\* All the copies of a terminal state are true: the store's, the delivery's,
\* the reporter's, and the messages' and the broker's.
StoreTrue == \A i \in Id : Finished(store[i]) => Truth(i, store[i].state)
ReturnTrue == \A c \in Call : Finished(returned[c]) => Truth(IdOf[c], returned[c].state)
ReportTrue ==
    \A c \in Call : /\ Finished(seen[c]) => Truth(IdOf[c], seen[c].state)
                    /\ seen[c] # NoLocal => jobs[IdOf[c]] # NoJob
SaidTrue ==
    /\ \A n \in 1 .. Len(outbox) : outbox[n].kind = "result" => Truth(outbox[n].id, outbox[n].state)
    /\ \A i \in Id : \A state \in results[i] : Truth(i, state)

TrueInv == StoreTrue /\ ReturnTrue /\ ReportTrue /\ SaidTrue
LifeInv == up /\ ExecLife /\ Turns /\ Answered /\ Ready /\ TrueInv

\* What is true stays true while the jobs stay and what was refused stays so.
Calm == Steady /\ \A i \in Id : Closed(i) => Closed(i)'

LEMMA TruthStays ==
    ASSUME Calm, NEW i \in Id, NEW state \in Terminal, Truth(i, state)
    PROVE  Truth(i, state)'
BY DEF Calm, Steady, Truth

LEMMA StoreTrueFrame ==
    ASSUME StoreTrue, Calm,
           NEW i \in Id, \A j \in Id : j # i => store'[j] = store[j],
           store'[i] = store[i] \/ (Finished(store[i]) => Truth(i, store[i].state))'
    PROVE  StoreTrue'
<1>1. ASSUME NEW j \in Id, store'[j] = store[j], Finished(store[j])
      PROVE  Truth(j, store[j].state)'
    <2>1. PICK state \in Terminal : state = store[j].state
        BY <1>1 DEF Finished
    <2> QED BY <1>1, <2>1, TruthStays DEF StoreTrue, Truth, Closed
<1> QED BY <1>1 DEF StoreTrue, Finished

LEMMA ReturnTrueFrame ==
    ASSUME ReturnTrue, Calm,
           NEW c \in Call, \A d \in Call : d # c => returned'[d] = returned[d],
           returned'[c] = returned[c] \/ (Finished(returned[c]) => Truth(IdOf[c], returned[c].state))'
    PROVE  ReturnTrue'
<1>1. ASSUME NEW d \in Call, returned'[d] = returned[d], Finished(returned[d])
      PROVE  Truth(IdOf[d], returned[d].state)'
    <2>1. PICK state \in Terminal : state = returned[d].state
        BY <1>1 DEF Finished
    <2> QED BY <1>1, <2>1, IdAssumption, TruthStays DEF ReturnTrue, Truth, Closed
<1> QED BY <1>1 DEF ReturnTrue, Finished

LEMMA ReportTrueFrame ==
    ASSUME ReportTrue, Calm, UNCHANGED seen
    PROVE  ReportTrue'
BY IdAssumption, TruthStays DEF ReportTrue, Finished, Calm, Steady

LEMMA SaidTrueFrame ==
    ASSUME Messages, SaidTrue, Calm, UNCHANGED <<outbox, results>>
    PROVE  SaidTrue'
<1>1. \A n \in 1 .. Len(outbox) : outbox[n] \in Message
    BY DEF Messages
<1>2. \A n \in 1 .. Len(outbox) : outbox[n].id \in Id
    BY <1>1 DEF Message
<1>3. \A n \in 1 .. Len(outbox) : outbox[n].kind = "result" => Truth(outbox[n].id, outbox[n].state)'
    BY <1>2, TruthStays DEF Messages, SaidTrue
<1>4. \A i \in Id : \A state \in results[i] : Truth(i, state)'
    BY TruthStays DEF Messages, SaidTrue
<1> QED BY <1>3, <1>4 DEF SaidTrue

\* A message about a job says what is true of it.
LEMMA SayTrue ==
    ASSUME Messages, SaidTrue, Calm, NEW s, NEW kind, NEW i \in Id, NEW state,
           kind = "result" => state \in Terminal /\ Truth(i, state),
           Sending(s, kind, i, state), UNCHANGED results
    PROVE  SaidTrue'
<1>1. CASE outbox' = outbox
    BY <1>1, SaidTrueFrame
<1>2. CASE outbox' = Append(outbox, [kind |-> kind, id |-> i, state |-> state])
    <2> DEFINE m == [kind |-> kind, id |-> i, state |-> state]
    <2>1. outbox \in Seq(Message)
        BY DEF Messages
    <2>2. /\ Len(outbox') = Len(outbox) + 1 /\ Len(outbox) \in Nat
          /\ \A n \in 1 .. Len(outbox) : outbox'[n] = outbox[n]
          /\ outbox'[Len(outbox) + 1] = m
        BY <1>2, <2>1
    <2>3. m.kind = kind /\ m.id = i /\ m.state = state
        OBVIOUS
    <2> HIDE DEF m
    <2>4. \A n \in 1 .. Len(outbox) : outbox[n].id \in Id
        <3>1. \A n \in 1 .. Len(outbox) : outbox[n] \in Message
            BY <2>1
        <3> QED BY <3>1 DEF Message
    <2>5. ASSUME NEW n \in 1 .. Len(outbox'), outbox'[n].kind = "result"
          PROVE  Truth(outbox[n].id, outbox[n].state)'
        <3>1. CASE n \in 1 .. Len(outbox)
            <4>1. outbox[n].id \in Id /\ outbox[n].state \in Terminal
                  /\ Truth(outbox[n].id, outbox[n].state)
                BY <2>2, <2>4, <2>5, <3>1 DEF Messages, SaidTrue
            <4>2. PICK j \in Id, st \in Terminal : j = outbox[n].id /\ st = outbox[n].state
                BY <4>1
            <4>3. Truth(j, st)'
                BY <4>1, <4>2, TruthStays
            <4> QED BY <2>2, <3>1, <4>2, <4>3 DEF Truth, Closed
        <3>2. CASE n = Len(outbox) + 1
            <4>1. Truth(i, state)'
                BY <2>2, <2>3, <2>5, <3>2, TruthStays
            <4> QED BY <2>2, <2>3, <3>2, <4>1 DEF Truth, Closed
        <3> QED BY <2>2, <3>1, <3>2
    <2>6. \A j \in Id : \A st \in results[j] : Truth(j, st)'
        BY TruthStays DEF Messages, SaidTrue
    <2> QED BY <2>5, <2>6 DEF SaidTrue
<1> QED BY <1>1, <1>2 DEF Sending

LEMMA TurnsFrame ==
    ASSUME Turns, UNCHANGED <<recv, main, cancel>>
    PROVE  Turns'
BY DEF Turns

LEMMA AnsweredFrame ==
    ASSUME Answered, Steady, NoNew({}), UNCHANGED <<recv, call>>
    PROVE  Answered'
BY IdAssumption DEF Answered, Steady, NoNew

LEMMA ReadyFrame ==
    ASSUME Ready, UNCHANGED <<recv, returned>>, \A i \in Id : Closed(i)' => Closed(i)
    PROVE  Ready'
BY IdAssumption DEF Ready, Finished

\* Nothing is closed or reopened by what leaves the store alone.
LEMMA CalmFrame ==
    ASSUME Steady, NoNew({}), UNCHANGED store
    PROVE  Calm /\ \A i \in Id : Closed(i)' => Closed(i)
BY DEF Calm, Steady, NoNew, Closed

\* The session's own steps lose messages or hand them to the broker.
LEMMA SessionLife ==
    ASSUME CloudInv, LifeInv, Connect \/ Lose \/ BrokerTakes
    PROVE  LifeInv'
<1> USE DEF LifeInv, TrueInv, CloudInv, AgentInv
<1>1. UNCHANGED <<vars, storeVars, recvVars, repVars>>
    BY DEF Connect, Lose, BrokerTakes
<1>2. UNCHANGED <<up, call, cancel, store, recv, main, returned, seen>>
    BY <1>1 DEF vars, procVars, callVars, cancelVars, storeVars, recvVars, repVars
<1>3. ExecLife' /\ Steady /\ NoNew({})
    BY <1>1, LifeFrame
<1>4. Calm /\ \A i \in Id : Closed(i)' => Closed(i)
    BY <1>2, <1>3, CalmFrame
<1>5. Turns' /\ Answered' /\ Ready'
    BY <1>2, <1>3, <1>4, TurnsFrame, AnsweredFrame, ReadyFrame
<1>6. StoreTrue' /\ ReturnTrue' /\ ReportTrue'
    <2>1. StoreTrue'
        BY <1>2, <1>4, StoreTrueFrame DEF StoreTrue
    <2>2. ReturnTrue'
        BY <1>2, <1>4, ReturnTrueFrame DEF ReturnTrue
    <2> QED BY <1>2, <1>4, <2>1, <2>2, ReportTrueFrame
<1>7. SaidTrue'
    <2>1. CASE Connect
        BY <1>4, <2>1, SaidTrueFrame DEF Connect, brokerVars
    <2>2. CASE Lose
        <3>1. outbox' = <<>> /\ results' = results
            BY <2>2 DEF Lose, brokerVars
        <3>2. \A i \in Id : \A state \in results[i] : Truth(i, state)'
            BY <1>4, TruthStays DEF Messages, SaidTrue
        <3> QED BY <3>1, <3>2 DEF SaidTrue
    <2>3. CASE BrokerTakes
        <3> DEFINE m == Head(outbox)
        <3>1. /\ outbox \in Seq(Message) /\ outbox # <<>> /\ outbox' = Tail(outbox)
              /\ results' = [results EXCEPT ![m.id] =
                     IF m.kind = "result" THEN results[m.id] \cup {m.state} ELSE results[m.id]]
            BY <2>3 DEF BrokerTakes, Messages
        <3>2. /\ m = outbox[1] /\ 1 \in 1 .. Len(outbox)
              /\ \A n \in 1 .. Len(outbox') : n + 1 \in 1 .. Len(outbox) /\ outbox'[n] = outbox[n + 1]
            BY <3>1
        <3> HIDE DEF m
        <3>3. \A n \in 1 .. Len(outbox') :
                  outbox'[n].kind = "result" => Truth(outbox[n].id, outbox[n].state)'
            BY <1>1, <3>2 DEF SaidTrue, Truth, Closed, vars, apiVars, storeVars
        <3>4. ASSUME NEW i \in Id, NEW state \in results'[i]
              PROVE  Truth(i, state)'
            <4>1. state \in results[i] \/ (i = m.id /\ m.kind = "result" /\ state = m.state)
                BY <3>1, <3>4 DEF Messages
            <4> QED BY <1>1, <3>2, <4>1 DEF SaidTrue, Truth, Closed, vars, apiVars, storeVars
        <3> QED BY <3>3, <3>4 DEF SaidTrue
    <2> QED BY <2>1, <2>2, <2>3
<1> QED BY <1>2, <1>3, <1>5, <1>6, <1>7

\* A delivery that is received finds in the store what is true of its job.
LEMMA ReceiveLife ==
    ASSUME CloudInv, LifeInv, NEW c \in Call, Receive(c)
    PROVE  LifeInv'
<1> USE IdAssumption DEF LifeInv, TrueInv, CloudInv, AgentInv
<1>1. /\ main = Nobody /\ recv[c] = "idle" /\ link
      /\ UNCHANGED <<vars, outbox, repVars, brokerVars>>
    BY DEF Receive
<1>2. UNCHANGED <<up, call, cancel, jobs, seen, outbox, results>>
    BY <1>1 DEF vars, procVars, apiVars, callVars, cancelVars, repVars, brokerVars
<1>3. ExecLife' /\ Steady /\ NoNew({})
    BY <1>1, LifeFrame
<1>4. \A d \in Call : recv[d] \notin Within
    BY <1>1, NobodyAssumption DEF Turns
<1>5. PICK stage \in {"ignored", "received"} :
          /\ Moved(c, stage)
          /\ stage = "ignored" => main' \in {main, Nobody}
          /\ stage = "received" => main' = c /\ returned'[c] = store'[IdOf[c]]
          /\ store' \in {store, Stored(c)}
          /\ UNCHANGED returned \/ returned' = [returned EXCEPT ![c] = store'[IdOf[c]]]
    <2>1. CASE Moved(c, "ignored") /\ UNCHANGED <<storeVars, main, returned>>
        BY <2>1 DEF storeVars
    <2>2. CASE /\ store' = Stored(c)
               /\ \E ok \in StoreOutcome :
                     /\ SaveStore(ok)
                     /\ Moved(c, AfterReceive(ok))
                     /\ main' = IF AfterReceive(ok) = "received" THEN c ELSE Nobody
               /\ returned' = [returned EXCEPT ![c] = store'[IdOf[c]]]
        <3>1. returned'[c] = store'[IdOf[c]]
            BY <2>2 DEF Deliveries
        <3> QED BY <2>2, <3>1 DEF AfterReceive
    <2> QED BY <2>1, <2>2 DEF Receive
<1>6. recv'[c] = stage /\ \A d \in Call : d # c => recv'[d] = recv[d]
    BY <1>5 DEF Moved, Deliveries
<1>7. Turns'
    <2>1. \A k \in Canceller : cancel[k] # "flagged" \/ main = k
        BY DEF Turns
    <2>2. stage = "received" => \A k \in Canceller : cancel[k] # "flagged"
        <3> SUFFICES ASSUME stage = "received", NEW k \in Canceller, cancel[k] = "flagged"
                     PROVE  FALSE
            OBVIOUS
        <3> QED BY <1>1, <2>1, CloudAssumption
    <2> QED BY <1>1, <1>2, <1>4, <1>5, <1>6, <2>2 DEF Turns, Within
<1>8. Answered'
    <2>1. call[c] = "idle"
        BY <1>1 DEF Answered
    <2>2. \A d \in Call : d # c => recv'[d] = recv[d]
        BY <1>6
    <2> QED BY <1>2, <1>5, <1>6, <2>1, <2>2 DEF Answered
<1>9. /\ \A j \in Id : j # IdOf[c] => store'[j] = store[j]
      /\ store'[IdOf[c]] \in {store[IdOf[c]], Received(c)}
      /\ store'[IdOf[c]] # store[IdOf[c]] => store[IdOf[c]] = NoLocal
    BY <1>5 DEF Stored, Stores
<1>10. Received(c).state = "queued" /\ NoLocal.state = "absent"
    BY DEF Received, NoLocal
<1>11. \A i \in Id : Closed(i)' <=> Closed(i)
    BY <1>2, <1>9, <1>10 DEF Closed
<1>12. Calm
    BY <1>3, <1>11 DEF Calm
<1>13. StoreTrue'
    BY <1>9, <1>10, <1>12, StoreTrueFrame DEF Finished, Terminal
<1>14. \A d \in Call : d # c => returned'[d] = returned[d]
    BY <1>5 DEF Deliveries
<1>15. ReturnTrue'
    BY <1>5, <1>12, <1>13, <1>14, ReturnTrueFrame DEF StoreTrue, Deliveries
<1>16. Ready'
    <2> SUFFICES ASSUME NEW d \in Call
                 PROVE  /\ recv'[d] = "received" /\ Closed(IdOf[d])' => Finished(returned[d])'
                        /\ recv'[d] = "submitting" => ~Closed(IdOf[d])'
        BY DEF Ready
    <2>1. CASE d # c
        BY <1>4, <1>6, <2>1 DEF Within
    <2>2. CASE d = c
        BY <1>5, <1>6, <2>2 DEF Closed, Finished, Terminal
    <2> QED BY <2>1, <2>2
<1> QED BY <1>2, <1>3, <1>7, <1>8, <1>12, <1>13, <1>15, <1>16, ReportTrueFrame, SaidTrueFrame

\* It then says what it found.
LEMMA SpeakLife ==
    ASSUME CloudInv, LifeInv, NEW c \in Call, Acknowledge(c) \/ SendResult(c)
    PROVE  LifeInv'
<1> USE IdAssumption DEF LifeInv, TrueInv, CloudInv, AgentInv
<1>1. /\ recv[c] \in Within
      /\ UNCHANGED <<vars, storeVars, returned, repVars, brokerVars>>
    BY DEF Acknowledge, SendResult, Within
<1>2. UNCHANGED <<up, call, cancel, jobs, store, seen, results>>
    BY <1>1 DEF vars, procVars, apiVars, callVars, cancelVars, storeVars, repVars, brokerVars
<1>3. ExecLife' /\ Steady /\ NoNew({})
    BY <1>1, LifeFrame
<1>4. Calm /\ \A i \in Id : Closed(i)' => Closed(i)
    BY <1>2, <1>3, CalmFrame
<1>5. main = c /\ \A d \in Call : d # c => recv[d] \notin Within
    BY <1>1 DEF Turns
<1>6. StoreTrue' /\ ReturnTrue' /\ ReportTrue'
    <2>1. StoreTrue'
        BY <1>2, <1>4, StoreTrueFrame DEF StoreTrue
    <2>2. ReturnTrue'
        BY <1>1, <1>4, ReturnTrueFrame DEF ReturnTrue
    <2> QED BY <1>2, <1>4, <2>1, <2>2, ReportTrueFrame
<1>7. CASE Acknowledge(c)
    <2>1. /\ recv[c] = "received" /\ main' = main
          /\ Sending(session, "received", IdOf[c], returned[c].state)
          /\ Moved(c, IF Finished(returned[c]) THEN "known" ELSE "submitting")
        BY <1>7 DEF Acknowledge
    <2>2. SaidTrue'
        BY <1>2, <1>4, <2>1, SayTrue
    <2>3. /\ recv'[c] = IF Finished(returned[c]) THEN "known" ELSE "submitting"
          /\ \A d \in Call : d # c => recv'[d] = recv[d]
        BY <2>1 DEF Moved, Deliveries
    <2>4. Turns'
        BY <1>2, <1>5, <2>1, <2>3 DEF Turns, Within
    <2>5. call[c] = "idle"
        BY <2>1 DEF Answered
    <2>6. Answered'
        BY <1>2, <2>3, <2>5 DEF Answered
    <2>7. Ready'
        BY <1>2, <1>1, <2>1, <2>3 DEF Ready, Closed, Finished
    <2> QED BY <1>2, <1>3, <1>6, <2>2, <2>4, <2>6, <2>7
<1>8. CASE SendResult(c)
    <2>1. /\ recv[c] \in {"known", "refused"} /\ main' = Nobody
          /\ Sending(session, "result", IdOf[c], returned[c].state)
          /\ Moved(c, "over")
        BY <1>8 DEF SendResult
    <2>2. returned[c].state \in Terminal
        BY <2>1 DEF Deliveries
    <2>3. Truth(IdOf[c], returned[c].state)
        BY <2>2 DEF ReturnTrue, Finished
    <2>4. SaidTrue'
        BY <1>2, <1>4, <2>1, <2>2, <2>3, SayTrue
    <2>5. recv'[c] = "over" /\ \A d \in Call : d # c => recv'[d] = recv[d]
        BY <2>1 DEF Moved, Deliveries
    <2>6. Turns'
        BY <1>1, <1>2, <1>5, <2>1, <2>5 DEF Turns, Within
    <2>7. Answered' /\ Ready'
        BY <1>2, <1>1, <2>5 DEF Answered, Ready, Closed, Finished
    <2> QED BY <1>2, <1>3, <1>6, <2>4, <2>6, <2>7
<1> QED BY <1>7, <1>8

\* The job that the executor has under a delivery's id is found by its key.
LEMMA FoundByKey ==
    ASSUME ExecInv, NEW c \in Call
    PROVE  /\ KeyHolders(jobs, c) \subseteq {IdOf[c]}
           /\ KeyHolders(jobs, c) = {} <=> jobs[IdOf[c]] = NoJob
<1> USE IdAssumption, CloudAssumption DEF ExecInv
<1>1. \A i \in Retained(jobs) : i \in Id /\ jobs[i].by \in Call /\ IdOf[jobs[i].by] = i
    BY DEF Retained, TypeOK, Job, Own
<1>2. \A i \in Retained(jobs) : i \in KeyHolders(jobs, c) <=> i = IdOf[c]
    BY <1>1 DEF KeyHolders
<1>3. IdOf[c] \in Retained(jobs) <=> jobs[IdOf[c]] # NoJob
    BY DEF Retained
<1> QED BY <1>2, <1>3 DEF KeyHolders

\* submit answers a delivery with the job of its id, or cannot plan it.
LEMMA SubmitAnswer ==
    ASSUME Spacious, CloudInv, LifeInv, NEW c \in Call, recv[c] = "submitting", Submit(c)
    PROVE  /\ call'[c] \notin {"conflict", "busy", "unsaved"}
           /\ call'[c] \in {"planning", "rejected"} => jobs'[IdOf[c]] = NoJob
           /\ call'[c] \in {"accepted", "replayed"} => jobs'[IdOf[c]] # NoJob
<1> USE IdAssumption, CloudAssumption DEF LifeInv, CloudInv, AgentInv
<1>0. ExecInv /\ TypeOK /\ call \in [Call -> InFlight \cup {"idle", "replayed", "conflict", "rejected",
                                                           "busy", "unsaved", "accepted", "dropped"}]
    BY DEF ExecInv, TypeOK
<1>1. \A i \in KeyHolders(jobs, c) : SameRequest(i, c)
    <2> SUFFICES ASSUME IdOf[c] \in KeyHolders(jobs, c) PROVE SameRequest(IdOf[c], c)
        BY <1>0, FoundByKey
    <2>1. jobs[IdOf[c]] # NoJob
        BY DEF KeyHolders, Retained
    <2>2. PICK d \in Call : d = jobs[IdOf[c]].by
        BY <1>0, <2>1 DEF TypeOK, Job
    <2>3. IdOf[d] = IdOf[c] /\ call[d] # "idle"
        BY <2>1, <2>2 DEF ExecInv, Own
    <2>4. HashOf[d] = storeDisk[IdOf[c]].hash
        BY <2>3 DEF Submitted
    <2>5. HashOf[c] = storeDisk[IdOf[c]].hash
        BY DEF Deliveries, Within
    <2> QED BY <2>2, <2>4, <2>5 DEF SameRequest
<1>2. \A i \in KeyHolders(jobs, c) : jobs[IdOf[c]] # NoJob
    BY <1>0, FoundByKey
<1>3. CASE Lookup(c)
    <2>1. jobs' = jobs
        BY <1>3 DEF Lookup, apiVars
    <2>2. (\E i \in KeyHolders(jobs, c) : call'[c] = "replayed")
          \/ (KeyHolders(jobs, c) = {} /\ call'[c] = "planning")
        BY <1>0, <1>1, <1>3 DEF Lookup, Answer, Replay
    <2> QED BY <1>0, <1>2, <2>1, <2>2, FoundByKey
<1>4. CASE Reject(c)
    BY <1>0, <1>4 DEF Reject, Answer, apiVars, Answered
<1>5. CASE Insert(c) /\ Recheck(c) # {}
    <2>1. jobs' = jobs /\ call'[c] = "replayed"
        BY <1>0, <1>1, <1>5 DEF Insert, Recheck, Answer, Replay
    <2>2. jobs[IdOf[c]] # NoJob
        BY <1>2, <1>5 DEF Recheck
    <2> QED BY <2>1, <2>2
<1>6. CASE Insert(c) /\ Recheck(c) = {}
    <2>1. jobs[IdOf[c]] = NoJob
        BY <1>0, <1>6, FoundByKey DEF Recheck
    <2>2. Room(c) = {jobs}
        BY <1>0, <2>1, NothingEvicted
    <2>3. SaveOutcome = {TRUE}
        BY DEF SaveOutcome
    <2>4. /\ call' = [call EXCEPT ![c] = "inserted"]
          /\ jobs' = [jobs EXCEPT ![IdOf[c]] = [state |-> "queued", by |-> c]]
        BY <1>6, <2>2, <2>3 DEF Insert, AfterSave, Answer
    <2> QED BY <1>0, <2>4
<1>7. CASE RegisterEvents(c) \/ RegisterCancellation(c) \/ Spawn(c)
    <2>1. call'[c] \in {"evented", "registered", "accepted"} /\ jobs' = jobs /\ Pending(c)
        BY <1>0, <1>7 DEF RegisterEvents, RegisterCancellation, Spawn, Answer, Pending, apiVars
    <2>2. jobs[IdOf[c]].by = c
        BY <2>1 DEF ExecLife, Held
    <2> QED BY <2>1, <2>2, NobodyAssumption DEF NoJob
<1> QED BY <1>3, <1>4, <1>5, <1>6, <1>7 DEF Submit

LEMMA SubmitLife ==
    ASSUME Spacious, CloudInv, LifeInv, NEW c \in Call, SubmitCloudJob(c)
    PROVE  LifeInv'
<1> USE IdAssumption DEF LifeInv, TrueInv, CloudInv, AgentInv
<1>1. /\ recv[c] = "submitting" /\ Submit(c)
      /\ UNCHANGED <<storeVars, linkVars, main, recv, repVars, brokerVars>>
    BY DEF SubmitCloudJob
<1>2. UNCHANGED <<cancel, main, recv, store, seen, outbox, results>>
    BY <1>1 DEF storeVars, linkVars, repVars, brokerVars, Submit, Lookup, Reject, Insert,
                RegisterEvents, RegisterCancellation, Spawn, cancelVars
<1>3. ExecLife' /\ Steady /\ up' /\ NoNew({IdOf[c]})
    BY <1>1, LifeStep
<1>4. \A d \in Call : d # c => recv[d] \notin Within
    BY <1>1 DEF Turns, Within
<1>5. ~Closed(IdOf[c])
    BY <1>1 DEF Ready
<1>6. \A i \in Id : Closed(i)' <=> Closed(i)
    <2>1. \A i \in Id : jobs'[i] = NoJob => jobs[i] = NoJob
        BY <1>3 DEF Steady
    <2>2. \A i \in Id \ {IdOf[c]} : jobs[i] = NoJob => jobs'[i] = NoJob
        BY <1>3 DEF NoNew
    <2> QED BY <1>2, <1>5, <2>1, <2>2 DEF Closed
<1>7. Calm
    BY <1>3, <1>6 DEF Calm
<1>8. Turns'
    BY <1>2, TurnsFrame
<1>9. Answered'
    <2>1. \A d \in Call : d # c => call'[d] = call[d]
        BY <1>1, OwnSubmit
    <2>2. /\ call'[c] \notin {"conflict", "busy", "unsaved"}
          /\ call'[c] \in {"planning", "rejected"} => jobs'[IdOf[c]] = NoJob
          /\ call'[c] \in {"accepted", "replayed"} => jobs'[IdOf[c]] # NoJob
        BY <1>1, SubmitAnswer
    <2>3. \A d \in Call : call[d] \in {"accepted", "replayed"} => jobs'[IdOf[d]] # NoJob
        BY <1>3 DEF Answered, Steady
    <2>4. ASSUME NEW d \in Call, d # c
          PROVE  /\ call'[d] \notin {"conflict", "busy", "unsaved"}
                 /\ recv'[d] \in {"idle", "ignored", "received", "known"} => call'[d] = "idle"
                 /\ recv'[d] # "submitting"
                 /\ call'[d] \in {"accepted", "replayed"} => jobs'[IdOf[d]] # NoJob
        BY <1>2, <1>4, <2>1, <2>3, <2>4 DEF Answered, Within
    <2> QED BY <1>1, <1>2, <2>2, <2>4 DEF Answered
<1>10. /\ \A d \in Call : d # c => returned'[d] = returned[d]
       /\ returned'[c] \in {returned[c], Snapshot(IdOf[c]), Received(c)}
    BY DEF SubmitCloudJob, Deliveries
<1>11. ReturnTrue'
    <2>1. CASE returned'[c] = returned[c]
        BY <1>7, <1>10, <2>1, ReturnTrueFrame
    <2>2. CASE returned'[c] = Received(c)
        <3>1. ~Finished(returned[c])'
            BY <2>2 DEF Received, Finished, Terminal
        <3> QED BY <1>7, <1>10, <3>1, ReturnTrueFrame
    <2>3. CASE returned'[c] = Snapshot(IdOf[c])
        <3>1. Finished(returned[c])' => Truth(IdOf[c], returned[c].state)'
            <4> SUFFICES ASSUME Finished(returned[c])' PROVE Truth(IdOf[c], returned[c].state)'
                OBVIOUS
            <4>1. returned'[c].state = jobs[IdOf[c]].state /\ jobs[IdOf[c]].state \in Terminal
                BY <2>3 DEF Finished, Snapshot, NoLocal, Terminal
            <4> QED BY <1>3, <4>1 DEF Steady, Truth
        <3> QED BY <1>7, <1>10, <3>1, ReturnTrueFrame
    <2> QED BY <1>10, <2>1, <2>2, <2>3
<1>12. Ready'
    BY <1>1, <1>2, <1>4, <1>6 DEF Ready, Within
<1>13. StoreTrue'
    BY <1>2, <1>7, StoreTrueFrame DEF StoreTrue
<1> QED BY <1>2, <1>3, <1>7, <1>8, <1>9, <1>11, <1>12, <1>13, ReportTrueFrame, SaidTrueFrame

\* A refusal closes the job, which nobody has; a record stores the answer.
LEMMA AnswerLife ==
    ASSUME CloudInv, LifeInv, NEW c \in Call, Refuse(c) \/ Record(c)
    PROVE  LifeInv'
<1> USE IdAssumption DEF LifeInv, TrueInv, CloudInv, AgentInv
<1>1. /\ recv[c] = "submitting"
      /\ UNCHANGED <<vars, linkVars, seen, brokerVars>>
    BY DEF Refuse, Record, repVars
<1>2. UNCHANGED <<up, call, cancel, jobs, seen, outbox, results>>
    BY <1>1 DEF vars, procVars, apiVars, callVars, cancelVars, linkVars, brokerVars
<1>3. ExecLife' /\ Steady
    BY <1>1, LifeFrame
<1>4. main = c /\ \A d \in Call : d # c => recv[d] \notin Within
    BY <1>1 DEF Turns, Within
<1>5. store[IdOf[c]] \in Entry /\ store[IdOf[c]] # NoLocal
    BY <1>1 DEF Stores, Deliveries, Within, OnFile
<1>6. CASE Refuse(c)
    <2>1. PICK stage \in {"refused", "over"} :
              /\ Moved(c, stage) /\ main' = IF stage = "refused" THEN c ELSE Nobody
        BY <1>6 DEF Refuse
    <2>2. jobs[IdOf[c]] = NoJob
        BY <1>6 DEF Refuse, Answered
    <2>3. /\ store'[IdOf[c]].state = "failed"
          /\ \A j \in Id : j # IdOf[c] => store'[j] = store[j]
          /\ returned'[c] = store'[IdOf[c]]
          /\ \A d \in Call : d # c => returned'[d] = returned[d]
        <3>1. /\ store' = [store EXCEPT ![IdOf[c]] = [store[IdOf[c]] EXCEPT !.state = "failed"]]
              /\ returned' = [returned EXCEPT ![c] = store'[IdOf[c]]]
            BY <1>6 DEF Refuse
        <3>2. [store[IdOf[c]] EXCEPT !.state = "failed"].state = "failed"
            BY <1>5 DEF Entry, LocalJob
        <3> QED BY <3>1, <3>2 DEF Stores, Deliveries
    <2>4. Closed(IdOf[c])' /\ \A i \in Id : i # IdOf[c] => (Closed(i)' <=> Closed(i))
        BY <1>2, <2>2, <2>3 DEF Closed
    <2>5. Calm
        BY <1>3, <2>4 DEF Calm
    <2>6. StoreTrue'
        BY <2>3, <2>4, <2>5, StoreTrueFrame DEF Truth
    <2>7. ReturnTrue'
        BY <2>3, <2>4, <2>5, ReturnTrueFrame DEF Truth
    <2>8. recv'[c] = stage /\ \A d \in Call : d # c => recv'[d] = recv[d]
        BY <2>1 DEF Moved, Deliveries
    <2>9. Turns'
        BY <1>1, <1>2, <1>4, <2>1, <2>8 DEF Turns, Within
    <2>10. Answered'
        BY <1>2, <2>8 DEF Answered
    <2>11. Ready'
        BY <1>4, <2>8 DEF Ready, Within
    <2> QED BY <1>2, <1>3, <2>5, <2>6, <2>7, <2>9, <2>10, <2>11, ReportTrueFrame, SaidTrueFrame
<1>7. CASE Record(c)
    <2>1. /\ Moved(c, "over") /\ main' = Nobody /\ returned' = returned
          /\ store' = [store EXCEPT ![IdOf[c]] = returned[c]]
          /\ call[c] \in {"accepted", "replayed"}
        BY <1>7 DEF Record
    <2>2. jobs[IdOf[c]] # NoJob
        BY <2>1 DEF Answered
    <2>3. store'[IdOf[c]] = returned[c] /\ \A j \in Id : j # IdOf[c] => store'[j] = store[j]
        BY <2>1 DEF Stores
    <2>4. \A i \in Id : Closed(i)' <=> Closed(i)
        BY <1>2, <2>2, <2>3 DEF Closed
    <2>5. Calm
        BY <1>3, <2>4 DEF Calm
    <2>6. ReturnTrue'
        BY <2>1, <2>5, ReturnTrueFrame DEF ReturnTrue
    <2>7. (Finished(store[IdOf[c]]) => Truth(IdOf[c], store[IdOf[c]].state))'
        BY <2>1, <2>3, <2>6 DEF ReturnTrue, Finished, Truth, Closed
    <2>8. StoreTrue'
        BY <2>3, <2>5, <2>7, StoreTrueFrame
    <2>9. recv'[c] = "over" /\ \A d \in Call : d # c => recv'[d] = recv[d]
        BY <2>1 DEF Moved, Deliveries
    <2>10. Turns'
        BY <1>1, <1>2, <1>4, <2>1, <2>9 DEF Turns, Within
    <2>11. Answered'
        BY <1>2, <2>9 DEF Answered
    <2>12. Ready'
        BY <1>4, <2>9 DEF Ready, Within
    <2> QED BY <1>2, <1>3, <2>5, <2>6, <2>8, <2>10, <2>11, <2>12, ReportTrueFrame, SaidTrueFrame
<1> QED BY <1>6, <1>7

\* A reporter copies what the executor's map has.
LEMMA ReporterLife ==
    ASSUME CloudInv, LifeInv, NEW c \in Call, Reporter(c)
    PROVE  LifeInv'
<1> USE IdAssumption DEF LifeInv, TrueInv, CloudInv, AgentInv
<1>1. UNCHANGED <<vars, recvVars, brokerVars>>
    BY DEF Reporter, Poll, Keep, Report
<1>2. UNCHANGED <<up, call, cancel, jobs, recv, main, returned, results>>
    BY <1>1 DEF vars, procVars, apiVars, callVars, cancelVars, recvVars, brokerVars
<1>3. ExecLife' /\ Steady /\ NoNew({})
    BY <1>1, LifeFrame
<1>4. Turns' /\ Answered'
    BY <1>2, <1>3, TurnsFrame, AnsweredFrame
<1>5. CASE Poll(c)
    <2>1. UNCHANGED <<store, outbox>>
        BY <1>5 DEF Poll, storeVars, linkVars
    <2>2. Calm /\ \A i \in Id : Closed(i)' => Closed(i)
        BY <1>3, <2>1, CalmFrame
    <2>3. \/ seen' = seen
          \/ /\ jobs[IdOf[c]] # NoJob /\ seen'[c] = Snapshot(IdOf[c])
             /\ \A d \in Call : d # c => seen'[d] = seen[d]
        BY <1>5 DEF Poll, Reporters, Snapshot
    <2>4. ReportTrue'
        <3>1. CASE seen' = seen
            BY <2>2, <3>1, ReportTrueFrame
        <3>2. CASE /\ jobs[IdOf[c]] # NoJob /\ seen'[c] = Snapshot(IdOf[c])
                   /\ \A d \in Call : d # c => seen'[d] = seen[d]
            <4>1. seen'[c].state = jobs[IdOf[c]].state
                BY <3>2 DEF Snapshot
            <4> QED BY <1>2, <2>1, <3>2, <4>1 DEF ReportTrue, Truth, Closed, Finished
        <3> QED BY <2>3, <3>1, <3>2
    <2>5. StoreTrue' /\ ReturnTrue'
        <3>1. StoreTrue'
            BY <2>1, <2>2, StoreTrueFrame DEF StoreTrue
        <3>2. ReturnTrue'
            BY <1>2, <2>2, ReturnTrueFrame DEF ReturnTrue
        <3> QED BY <3>1, <3>2
    <2> QED BY <1>2, <1>3, <1>4, <2>1, <2>2, <2>4, <2>5, ReadyFrame, SaidTrueFrame
<1>6. CASE Keep(c)
    <2>1. /\ rep[c] = "read" /\ store' = [store EXCEPT ![IdOf[c]] = seen[c]]
          /\ UNCHANGED <<seen, outbox>>
        BY <1>6 DEF Keep, linkVars
    <2>2. store'[IdOf[c]] = seen[c] /\ \A j \in Id : j # IdOf[c] => store'[j] = store[j]
        BY <2>1 DEF Stores
    <2>3. jobs[IdOf[c]] # NoJob
        BY <2>1 DEF Reporters, ReportTrue
    <2>4. \A i \in Id : Closed(i)' <=> Closed(i)
        BY <1>2, <2>2, <2>3 DEF Closed
    <2>5. Calm
        BY <1>3, <2>4 DEF Calm
    <2>6. ReportTrue'
        BY <2>1, <2>5, ReportTrueFrame
    <2>7. (Finished(store[IdOf[c]]) => Truth(IdOf[c], store[IdOf[c]].state))'
        BY <2>1, <2>2, <2>6 DEF ReportTrue, Finished, Truth, Closed
    <2>8. StoreTrue'
        BY <2>2, <2>5, <2>7, StoreTrueFrame
    <2>9. ReturnTrue'
        BY <1>2, <2>5, ReturnTrueFrame DEF ReturnTrue
    <2> QED BY <1>2, <1>3, <1>4, <2>1, <2>4, <2>5, <2>6, <2>8, <2>9, ReadyFrame, SaidTrueFrame
<1>7. CASE Report(c)
    <2> DEFINE kind == IF Finished(seen[c]) THEN "result" ELSE "progress"
    <2>1. Sending(repSession[c], kind, IdOf[c], seen[c].state) /\ UNCHANGED <<store, seen>>
        BY <1>7 DEF Report, storeVars
    <2>2. kind = "result" => seen[c].state \in Terminal /\ Truth(IdOf[c], seen[c].state)
        BY DEF Finished, ReportTrue
    <2> HIDE DEF kind
    <2>3. Calm /\ \A i \in Id : Closed(i)' => Closed(i)
        BY <1>3, <2>1, CalmFrame
    <2>4. SaidTrue'
        BY <1>2, <2>1, <2>2, <2>3, SayTrue
    <2>5. StoreTrue' /\ ReturnTrue'
        <3>1. StoreTrue'
            BY <2>1, <2>3, StoreTrueFrame DEF StoreTrue
        <3>2. ReturnTrue'
            BY <1>2, <2>3, ReturnTrueFrame DEF ReturnTrue
        <3> QED BY <3>1, <3>2
    <2> QED BY <1>2, <1>3, <1>4, <2>1, <2>3, <2>4, <2>5, ReadyFrame, ReportTrueFrame
<1> QED BY <1>5, <1>6, <1>7 DEF Reporter

\* Workers and cancellations leave the agent's copies alone.
LEMMA WorkLife ==
    ASSUME Spacious, CloudInv, LifeInv,
           (\E c \in Call : CloudWork(c)) \/ (\E k \in Canceller : CloudCancel(k))
    PROVE  LifeInv'
<1> USE IdAssumption DEF LifeInv, TrueInv, CloudInv, AgentInv
<1>1. UNCHANGED <<call, store, recv, returned, seen, outbox, results>>
    BY WorkFrame, OwnCancel
       DEF CloudWork, CloudCancel, CancelCloudFlag, CancelCloudRecord, agentVars, storeVars,
           linkVars, recvVars, repVars, brokerVars, ExecInv
<1>2. ExecLife' /\ Steady /\ NoNew({}) /\ up'
    <2>1. ASSUME NEW c \in Call, CloudWork(c)
          PROVE  ExecLife' /\ Steady /\ NoNew({}) /\ up'
        BY <2>1, LifeStep DEF CloudWork
    <2>2. ASSUME NEW k \in Canceller, CloudCancel(k)
          PROVE  ExecLife' /\ Steady /\ NoNew({}) /\ up'
        BY <2>2, LifeCancel, OwnCancel DEF CloudCancel
    <2> QED BY <2>1, <2>2
<1>3. Calm /\ \A i \in Id : Closed(i)' => Closed(i)
    BY <1>1, <1>2, CalmFrame
<1>4. Turns'
    <2>1. ASSUME NEW c \in Call, CloudWork(c) PROVE Turns'
        <3>1. UNCHANGED <<cancel, main, recv>>
            BY <2>1 DEF CloudWork, agentVars, recvVars, Work, Begin, Open, ExecuteRead, ExecuteWrite,
                        TransportWrite, Executed, IppCapture, IppCheck, IppPost, Judge, Publish,
                        Finish, cancelVars
        <3> QED BY <3>1, TurnsFrame
    <2>2. ASSUME NEW k \in Canceller, NEW i \in Id, CancelCloudFlag(k, i) PROVE Turns'
        <3>1. main = Nobody /\ main' = k /\ cancel' = [cancel EXCEPT ![k] = "flagged"]
              /\ recv' = recv
            BY <2>2 DEF CancelCloudFlag, CancelFlag
        <3>2. \A c \in Call : recv[c] \notin Within
            BY <3>1, NobodyAssumption DEF Turns
        <3>3. \A q \in Canceller : cancel[q] # "flagged"
            BY <3>1, CloudAssumption DEF Turns
        <3>4. \A q \in Canceller : q # k => cancel'[q] = cancel[q]
            BY <3>1 DEF ExecInv, TypeOK
        <3> QED BY <3>1, <3>2, <3>3, <3>4 DEF Turns
    <2>3. ASSUME NEW k \in Canceller, CancelCloudRecord(k) PROVE Turns'
        <3>1. /\ cancel[k] = "flagged" /\ recv' = recv /\ main' = Nobody
              /\ cancel'[k] # "flagged" /\ \A q \in Canceller : q # k => cancel'[q] = cancel[q]
            BY <2>3 DEF CancelCloudRecord, ExecInv, TypeOK
        <3>2. \A q \in Canceller : q # k => cancel[q] # "flagged"
            BY <3>1 DEF Turns
        <3> QED BY <3>1, <3>2 DEF Turns
    <2> QED BY <2>1, <2>2, <2>3 DEF CloudCancel
<1>5. StoreTrue' /\ ReturnTrue'
    <2>1. StoreTrue'
        <3>1. CASE Id = {}
            BY <3>1 DEF StoreTrue
        <3>2. CASE Id # {}
            BY <1>1, <1>3, <3>2, StoreTrueFrame
        <3> QED BY <3>1, <3>2
    <2>2. ReturnTrue'
        <3>1. CASE Call = {}
            BY <3>1 DEF ReturnTrue
        <3>2. CASE Call # {}
            BY <1>1, <1>3, <3>2, ReturnTrueFrame
        <3> QED BY <3>1, <3>2
    <2> QED BY <2>1, <2>2
<1> QED BY <1>1, <1>2, <1>3, <1>4, <1>5, AnsweredFrame, ReadyFrame, ReportTrueFrame, SaidTrueFrame

-----------------------------------------------------------------------------
(* The theorems.                                                           *)

\* The agent begins with nothing stored, said or submitted.
LEMMA CloudStart == CloudInit => CloudInv
<1> SUFFICES ASSUME CloudInit PROVE CloudInv
    OBVIOUS
<1> USE CloudAssumption, BoundAssumption
<1>1. ExecInv
    BY InitType DEF CloudInit, Init, ExecInv, Own, Begun, NoJobs
<1>2. Stores /\ Deliveries /\ Submitted
    BY DEF CloudInit, Init, Stores, Deliveries, Submitted, Entry, RecvStage, Within, OnFile
<1>3. Reporters
    BY DEF CloudInit, Reporters, Entry
<1>4. Messages
    BY DEF CloudInit, Messages
<1>5. Counted
    <2>1. crashes = 0
        BY DEF CloudInit, Init
    <2>2. link = FALSE /\ losses = 0 /\ session = 0
          /\ delivered = [i \in Id |-> 0] /\ repSession = [c \in Call |-> 0]
        BY DEF CloudInit
    <2>3. 0 \in 0 .. MaxLosses /\ 0 \in 0 .. 0 /\ 0 <= 0 + 0 + 0
        OBVIOUS
    <2>4. delivered \in [Id -> 0 .. session] /\ repSession \in [Call -> 0 .. session]
        BY <2>2
    <2> QED BY <2>1, <2>2, <2>3, <2>4 DEF Counted
<1> QED BY <1>1, <1>2, <1>3, <1>4, <1>5 DEF CloudInv, AgentInv

\* The invariant is inductive.
LEMMA CloudStep ==
    ASSUME CloudInv, [CloudNext]_cloudVars
    PROVE  CloudInv'
<1>1. CASE UNCHANGED vars /\ AgentInv'
    BY <1>1 DEF CloudInv, ExecInv, TypeOK, Own, Begun, vars, procVars, apiVars, callVars, workVars,
                cancelVars
<1>2. ASSUME NEW c \in Call, Receive(c) \/ Delivery(c) \/ Reporter(c) \/ CloudWork(c)
      PROVE  CloudInv'
    BY <1>1, <1>2, ReceiveStep, SpeakStep, SubmitStep, AnswerStep, ReporterStep, CloudWorkStep
       DEF Delivery
<1>3. CASE UNCHANGED cloudVars
    <2>1. UNCHANGED <<vars, storeVars, linkVars, recvVars, repVars, brokerVars>>
        BY <1>3 DEF cloudVars, agentVars
    <2>2. UNCHANGED <<up, crashes, call>>
        BY <2>1 DEF vars, procVars, callVars
    <2>3. Stores' /\ Grows
        BY <2>1, <2>2, StoresFrame DEF CloudInv, AgentInv
    <2>4. AgentInv'
        BY <2>1, <2>2, <2>3, DeliveriesFrame, SubmittedFrame, ReportersFrame, MessagesFrame,
           CountedFrame DEF linkVars, recvVars, repVars, CloudInv, AgentInv
    <2> QED BY <1>1, <2>1, <2>4
<1> QED BY <1>1, <1>2, <1>3, SessionStep, CloudCancelStep, CloudProcessStep DEF CloudNext

LEMMA CloudAlways == CloudSpec => []CloudInv
BY CloudStart, CloudStep, PTL DEF CloudSpec

\* The types of the agent, its store and its messages, and the bounds of its
\* channel and of its sessions.  The executor's map never shows a running job,
\* so the store never holds one, and reconcile_interrupted has nothing to do.
THEOREM CloudTypeCorrect == CloudSpec => []CloudTypeOK
<1>1. CloudInv => CloudTypeOK
    <2> SUFFICES ASSUME CloudInv PROVE CloudTypeOK
        OBVIOUS
    <2> USE CloudAssumption, BoundAssumption DEF CloudInv, AgentInv
    <2>1. \A s \in {store, storeDisk} : \A i \in Id :
              s[i] \in LocalJob \cup {NoLocal} /\ s[i].state # "running"
        BY DEF Stores, Entry, NoLocal
    <2>2. \A c \in Call : {returned[c], seen[c]} \subseteq LocalJob \cup {NoLocal}
        BY DEF Deliveries, Reporters, Entry
    <2>3. session \in 0 .. 1 + MaxLosses + MaxCrashes
        <3>1. /\ session \in Nat /\ losses \in 0 .. MaxLosses /\ crashes \in 0 .. MaxCrashes
              /\ session <= losses + crashes + 1 /\ MaxLosses \in Nat /\ MaxCrashes \in Nat
            BY DEF ExecInv, TypeOK, Counted
        <3>2. session <= 1 + MaxLosses + MaxCrashes
            BY ONLY <3>1
        <3> QED BY ONLY <3>1, <3>2
    <2> QED BY <2>1, <2>2, <2>3 DEF CloudTypeOK, ExecInv, Deliveries, Reporters, Messages, Counted,
                                    RecvStage
<1> QED BY <1>1, CloudAlways, PTL

\* "delivered means the agent has persisted the exact job": whatever the agent
\* says of a job, and whatever it prints, the job is in the store's file, for
\* any number of jobs, deliveries, sessions, failed saves and crashes.
THEOREM StoredBefore == CloudSpec => []StoredFirst
<1>1. CloudInv => StoredFirst
    <2> SUFFICES ASSUME CloudInv, NEW c \in Call,
                        broker[IdOf[c]] # "queued" \/ Mentioned(IdOf[c]) \/ sent[c] # {}
                 PROVE  storeDisk[IdOf[c]] # NoLocal
        BY DEF StoredFirst
    <2> USE IdAssumption DEF CloudInv, AgentInv
    <2>1. CASE broker[IdOf[c]] # "queued"
        BY <2>1 DEF Messages, OnFile
    <2>2. CASE Mentioned(IdOf[c])
        BY <2>2 DEF Mentioned, Messages, OnFile
    <2>3. CASE sent[c] # {}
        BY <2>3 DEF ExecInv, Begun, Submitted, OnFile
    <2> QED BY <2>1, <2>2, <2>3
<1> QED BY <1>1, CloudAlways, PTL

\* A delivery whose digest is not the stored one is never submitted, and the
\* digest that is on file never changes under one that was.
THEOREM DigestBefore == CloudSpec => []StoredDigestOnly
<1>1. CloudInv => StoredDigestOnly
    BY DEF CloudInv, AgentInv, Submitted, StoredDigestOnly
<1> QED BY <1>1, CloudAlways, PTL
-----------------------------------------------------------------------------
(* One life of the process.                                                *)

LifeAlone == crashes = 0 => LifeInv

LEMMA LifeStart == CloudInit => LifeAlone
<1> SUFFICES ASSUME CloudInit PROVE LifeInv
    BY DEF LifeAlone
<1>1. Init
    BY DEF CloudInit
<1>2. PlacedInv
    BY <1>1, InitType DEF Init, PlacedInv, HonestInv, KeptInv, JobKept, WorkerAccepted, HasWorker,
                          Busy, Pending, WireInv, Wire, FinalInv, Final, MapsPlaced, Placed, Retained,
                          NoJobs
<1>3. ExecLife
    BY <1>1, <1>2 DEF ExecLife, Held, Init, Pending
<1>4. Turns /\ Answered /\ Ready
    BY <1>1 DEF CloudInit, Init, Turns, Within, Answered, Ready
<1>5. TrueInv
    <2>1. ~Finished(NoLocal)
        BY DEF Finished, NoLocal, Terminal
    <2> QED BY <2>1, IdAssumption DEF CloudInit, TrueInv, StoreTrue, ReturnTrue, ReportTrue, SaidTrue
<1> QED BY <1>1, <1>3, <1>4, <1>5 DEF LifeInv, Init

\* It is inductive until the first crash.
LEMMA LifeAloneStep ==
    ASSUME Spacious, CloudInv, LifeAlone, [CloudNext]_cloudVars
    PROVE  LifeAlone'
<1> SUFFICES ASSUME crashes' = 0 PROVE LifeInv'
    BY DEF LifeAlone
<1>1. ~CloudCrash
    <2> SUFFICES ASSUME CloudCrash PROVE FALSE
        OBVIOUS
    <2>1. crashes \in Nat /\ crashes' = crashes + 1
        BY BoundAssumption DEF CloudCrash, Crash, CloudInv, ExecInv, TypeOK
    <2> QED BY <2>1
<1>2. crashes = 0
    <2>1. ASSUME NEW c \in Call, Receive(c) \/ Acknowledge(c) \/ SendResult(c) \/ Refuse(c) \/ Record(c)
                                 \/ Reporter(c)
          PROVE  crashes = 0
        BY <2>1, ReceiveStep, SpeakStep, AnswerStep, ReporterStep DEF vars, procVars
    <2>2. ASSUME NEW c \in Call, SubmitCloudJob(c) PROVE crashes = 0
        BY <2>2 DEF SubmitCloudJob, Submit, Lookup, Reject, Insert, RegisterEvents,
                    RegisterCancellation, Spawn, procVars
    <2>3. ASSUME NEW c \in Call, CloudWork(c) PROVE crashes = 0
        BY <2>3, OwnWork DEF CloudWork, CloudInv
    <2>4. ASSUME NEW k \in Canceller, CloudCancel(k) PROVE crashes = 0
        BY <2>4, OwnCancel DEF CloudCancel, CloudInv
    <2>5. CASE Connect \/ Lose \/ BrokerTakes
        BY <2>5, SessionStep DEF vars, procVars
    <2>6. CASE CloudRestart \/ UNCHANGED cloudVars
        BY <2>6 DEF CloudRestart, Restart, cloudVars, vars, procVars
    <2> QED BY <1>1, <2>1, <2>2, <2>3, <2>4, <2>5, <2>6 DEF CloudNext, Delivery
<1>3. LifeInv
    BY <1>2 DEF LifeAlone
<1>4. ~CloudRestart
    BY <1>3 DEF CloudRestart, Restart, LifeInv
<1>5. CASE UNCHANGED cloudVars
    <2>1. UNCHANGED <<vars, store, main, recv, returned, seen, outbox, results>>
        BY <1>5 DEF cloudVars, agentVars, storeVars, linkVars, recvVars, repVars, brokerVars
    <2>2. ExecLife'
        BY <1>3, <2>1, LifeFrame DEF LifeInv
    <2> QED BY <1>3, <2>1, <2>2
            DEF LifeInv, Turns, Answered, Ready, TrueInv, StoreTrue, ReturnTrue, ReportTrue, SaidTrue,
                Truth, Closed, Finished, vars, procVars, apiVars, callVars, cancelVars
<1> QED BY <1>1, <1>3, <1>4, <1>5, SessionLife, ReceiveLife, SpeakLife, SubmitLife, AnswerLife,
           ReporterLife, WorkLife DEF CloudNext, Delivery

LEMMA LifeAlways ==
    ASSUME Spacious
    PROVE  CloudSpec => [](CloudInv /\ LifeAlone)
<1>1. CloudInv /\ LifeAlone /\ [CloudNext]_cloudVars => LifeAlone'
    BY LifeAloneStep
<1> QED BY <1>1, LifeStart, CloudAlways, PTL DEF CloudSpec

\* While the process lives, a job is printed by one of its deliveries, for any
\* number of deliveries, sessions and cancellations, when the executor's map
\* has room for every job.
THEOREM OnePrint ==
    ASSUME Spacious
    PROVE  CloudSpec => []OnePrintPerLife
<1>1. LifeAlone => OnePrintPerLife
    <2> SUFFICES ASSUME LifeInv, NEW c \in Call, NEW d \in Call, c # d, SameKey(c, d),
                        sent[c] # {}, sent[d] # {}
                 PROVE  FALSE
        BY DEF LifeAlone, OnePrintPerLife, OnePrintPerKey
    <2>1. worker[c] # "none" /\ worker[d] # "none"
        BY DEF LifeInv, ExecLife, PlacedInv, HonestInv, WireInv, Wire
    <2>2. IdOf[c] = IdOf[d]
        BY CloudAssumption DEF SameKey
    <2> QED BY <2>1, <2>2 DEF LifeInv, ExecLife, Held
<1> QED BY <1>1, LifeAlways, PTL

\* While the process lives, a result that the broker has of a job is true of
\* the printer, whether the session, a reporter of whichever delivery, or a
\* refusal sent it, and whatever was lost in between.
THEOREM ResultsHonest ==
    ASSUME Spacious
    PROVE  CloudSpec => []HonestResult
<1>1. CloudInv /\ LifeAlone => HonestResult
    <2> SUFFICES ASSUME CloudInv, LifeInv, NEW i \in Id, NEW state \in results[i]
                 PROVE  /\ state \in {"failed", "cancelled-before-send"} =>
                               \A c \in {d \in Call : IdOf[d] = i} : sent[c] = {}
                        /\ state = "completed" =>
                               \E c \in {d \in Call : IdOf[d] = i} : sent[c] = WriteSteps
        BY DEF LifeAlone, HonestResult
    <2> USE DEF LifeInv, ExecLife, PlacedInv, HonestInv
    <2>1. Truth(i, state) /\ state \in Terminal
        BY DEF TrueInv, SaidTrue, CloudInv, AgentInv, Messages
    <2>2. ASSUME NEW c \in Call, IdOf[c] = i, sent[c] # {}
          PROVE  jobs[i].by = c
        BY <2>2 DEF WireInv, Wire, Held
    <2>3. CASE jobs[i].state = state
        <3>1. i \in Retained(jobs) /\ jobs[i].by \in Call
            BY <2>1, <2>3 DEF Retained, NoJob, Terminal, KeptInv, TypeOK, Job
        <3>2. IdOf[jobs[i].by] = i
            BY <3>1 DEF MapsPlaced, Placed
        <3>3. Honest(state, jobs[i].by)
            BY <2>1, <2>3, <3>1 DEF FinalInv, Final, FinalJob
        <3> QED BY <2>2, <3>1, <3>2, <3>3 DEF Honest
    <2>4. CASE state = "failed" /\ jobs[i] = NoJob
        BY <2>2, <2>4, NobodyAssumption DEF NoJob
    <2> QED BY <2>1, <2>3, <2>4 DEF Truth, Closed
<1> QED BY <1>1, LifeAlways, PTL
-----------------------------------------------------------------------------
(* The outcome in the store's file.                                        *)

\* A delivery that is being received or reported.
Handled(c) == recv[c] \in Within \/ rep[c] \in {"polling", "read", "kept"}

\* A job has one such delivery, of the running session, and so has whatever
\* the executor has in its map.
OneHandler ==
    /\ link => up
    /\ \A c \in Call : Handled(c) => link /\ delivered[IdOf[c]] = session
    /\ \A c, d \in Call : Handled(c) /\ Handled(d) /\ IdOf[c] = IdOf[d] => c = d
    /\ \A c \in Call : rep[c] # "none" => recv[c] = "over"
    /\ \A i \in Id : jobs[i] # NoJob => link /\ delivered[i] = session

\* Until a delivery is planned the executor has no job under its id, so that
\* submit does not answer it with an older one.
Unasked ==
    \A c \in Call :
        /\ recv[c] \in {"idle", "received"} => call[c] = "idle"
        /\ recv[c] \in {"received", "submitting"} /\ call[c] \in {"idle", "planning"}
               => jobs[IdOf[c]] = NoJob
        /\ recv[c] = "submitting" => call[c] # "replayed" /\ ~Finished(returned[c])

\* An outcome on file is in memory as well, and whoever is to write an entry
\* finds none in it.
Level ==
    /\ up => \A i \in Id : Finished(storeDisk[i]) => store[i].state = storeDisk[i].state
    /\ \A c \in Call :
           /\ recv[c] = "received" => returned[c].state = store[IdOf[c]].state
           /\ recv[c] = "submitting" \/ rep[c] \in {"polling", "read"} => ~Finished(store[IdOf[c]])
           /\ rep[c] = "kept" => store[IdOf[c]].state = seen[c].state

FirstInv == OneHandler /\ Unasked /\ Level

\* What OutcomeStands says of a step.
Stands == \A i \in Id : Finished(storeDisk[i]) => storeDisk'[i].state = storeDisk[i].state

LEMMA HandlerFrame ==
    ASSUME OneHandler, UNCHANGED <<up, link, session, delivered>>,
           \A c \in Call : Handled(c)' => Handled(c),
           \A c \in Call : rep'[c] # "none" => recv'[c] = "over",
           \A i \in Id : jobs'[i] # NoJob =>
                             jobs[i] # NoJob \/ \E c \in Call : IdOf[c] = i /\ Handled(c)
    PROVE  OneHandler'
BY DEF OneHandler

LEMMA UnaskedFrame ==
    ASSUME Unasked, call' = call, NoNew({}),
           \A c \in Call : \/ recv'[c] = recv[c] /\ returned'[c] = returned[c]
                           \/ recv'[c] \notin {"idle", "received", "submitting"}
    PROVE  Unasked'
BY IdAssumption DEF Unasked, NoNew, Finished

LEMMA LevelFrame ==
    ASSUME Level, UNCHANGED <<up, store, storeDisk>>,
           \A c \in Call : \/ /\ recv'[c] = recv[c]
                              /\ recv[c] = "received" => returned'[c] = returned[c]
                           \/ recv'[c] \notin {"received", "submitting"},
           \A c \in Call : \/ rep'[c] = rep[c] /\ seen'[c] = seen[c]
                           \/ rep'[c] \notin {"polling", "read", "kept"}
                           \/ {rep[c], rep'[c]} \subseteq {"polling", "read"}
    PROVE  Level' /\ Stands
BY DEF Level, Finished, Stands

\* Whoever handles a job may write its entry.
LEMMA LevelPut ==
    ASSUME CloudInv, FirstInv, up, up', NEW c \in Call, Handled(c), ~Finished(store[IdOf[c]]),
           NEW job, store' = [store EXCEPT ![IdOf[c]] = job], storeDisk' \in {storeDisk, store'},
           \A d \in Call \ {c} : /\ recv'[d] = recv[d] /\ returned'[d] = returned[d]
                                 /\ rep'[d] = rep[d] /\ seen'[d] = seen[d],
           recv'[c] \notin {"received", "submitting"},
           rep'[c] \in {"polling", "read"} => job.state \notin Terminal,
           rep'[c] = "kept" => job.state = seen'[c].state
    PROVE  Level' /\ Stands
<1> USE IdAssumption DEF CloudInv, AgentInv, FirstInv
<1>1. store'[IdOf[c]] = job /\ \A i \in Id : i # IdOf[c] => store'[i] = store[i]
    BY DEF Stores
<1>2. ~Finished(storeDisk[IdOf[c]])
    BY DEF Level, Finished
<1>3. \A i \in Id : Finished(storeDisk[i])' => store'[i].state = storeDisk'[i].state
    BY <1>1, <1>2 DEF Level, Finished
<1>4. Stands
    <2>1. \A i \in Id : Finished(storeDisk[i]) => store'[i].state = storeDisk[i].state
        BY <1>1, <1>2 DEF Level
    <2> QED BY <2>1 DEF Stands
<1>5. \A d \in Call \ {c} : Handled(d) => store'[IdOf[d]] = store[IdOf[d]]
    BY <1>1 DEF OneHandler
<1>6. ASSUME NEW d \in Call \ {c}
      PROVE  /\ recv'[d] = "received" => returned'[d].state = store'[IdOf[d]].state
             /\ recv'[d] = "submitting" \/ rep'[d] \in {"polling", "read"} => ~Finished(store[IdOf[d]])'
             /\ rep'[d] = "kept" => store'[IdOf[d]].state = seen'[d].state
    BY <1>5 DEF Handled, Within, Level, Finished
<1>7. /\ recv'[c] = "received" => returned'[c].state = store'[IdOf[c]].state
      /\ recv'[c] = "submitting" \/ rep'[c] \in {"polling", "read"} => ~Finished(store[IdOf[c]])'
      /\ rep'[c] = "kept" => store'[IdOf[c]].state = seen'[c].state
    BY <1>1 DEF Finished
<1>8. Level'
    BY <1>3, <1>6, <1>7 DEF Level
<1> QED BY <1>4, <1>8

\* A new session finds nothing left of the last one.
LEMMA SessionFirst ==
    ASSUME CloudInv, FirstInv, Connect \/ BrokerTakes \/ UNCHANGED cloudVars
    PROVE  FirstInv' /\ Stands
<1> USE DEF FirstInv
<1>1. UNCHANGED <<vars, storeVars, delivered, recvVars, repVars>>
    BY DEF Connect, BrokerTakes, cloudVars, agentVars, linkVars
<1>2. UNCHANGED <<up, call, jobs, store, storeDisk, recv, returned, rep, seen>> /\ NoNew({})
    BY <1>1 DEF vars, procVars, apiVars, callVars, storeVars, recvVars, repVars, NoNew
<1>3. OneHandler'
    <2>1. CASE Connect
        BY <1>2, <2>1 DEF Connect, OneHandler, Handled
    <2>2. CASE UNCHANGED <<link, session, delivered>>
        BY <1>2, <2>2, HandlerFrame DEF Handled, OneHandler
    <2> QED BY <2>1, <2>2 DEF BrokerTakes, cloudVars, agentVars, linkVars
<1>4. Unasked'
    BY <1>2, UnaskedFrame
<1>5. Level' /\ Stands
    BY <1>2, LevelFrame
<1> QED BY <1>3, <1>4, <1>5

\* A job comes once a session: nobody handles it, and the executor has none.
LEMMA ReceiveFirst ==
    ASSUME CloudInv, FirstInv, NEW c \in Call, Receive(c)
    PROVE  FirstInv' /\ Stands
<1> USE IdAssumption DEF FirstInv, CloudInv, AgentInv
<1>1. /\ up /\ link /\ recv[c] = "idle" /\ delivered[IdOf[c]] < session
      /\ UNCHANGED <<up, call, jobs, link, session, rep, seen>>
      /\ delivered'[IdOf[c]] = session
      /\ \A i \in Id : i # IdOf[c] => delivered'[i] = delivered[i]
    BY DEF Receive, vars, procVars, apiVars, callVars, repVars, Counted
<1>2. jobs[IdOf[c]] = NoJob /\ \A d \in Call : IdOf[d] = IdOf[c] => ~Handled(d)
    BY <1>1 DEF OneHandler, Counted
<1>3. /\ \A d \in Call \ {c} : recv'[d] = recv[d] /\ returned'[d] = returned[d]
      /\ recv'[c] \in {"ignored", "received"}
      /\ \A i \in Id : i # IdOf[c] => store'[i] = store[i]
      /\ store'[IdOf[c]] # store[IdOf[c]] => store[IdOf[c]] = NoLocal
      /\ recv'[c] = "received" => returned'[c] = store'[IdOf[c]]
      /\ storeDisk' \in {storeDisk, store'}
    <2>1. CASE /\ Moved(c, "ignored")
               /\ UNCHANGED <<storeVars, main, returned>>
        BY <2>1 DEF Moved, storeVars, Deliveries
    <2>2. CASE /\ store' = Stored(c)
               /\ \E ok \in StoreOutcome : SaveStore(ok) /\ Moved(c, AfterReceive(ok))
               /\ returned' = [returned EXCEPT ![c] = store'[IdOf[c]]]
        <3>1. /\ returned'[c] = store'[IdOf[c]]
              /\ \A d \in Call \ {c} : recv'[d] = recv[d] /\ returned'[d] = returned[d]
              /\ recv'[c] \in {"ignored", "received"}
            BY <2>2 DEF Moved, AfterReceive, Deliveries
        <3> QED BY <2>2, <3>1 DEF Stored, SaveStore, Stores
    <2> QED BY <2>1, <2>2 DEF Receive
<1>4. OneHandler'
    <2>1. \A d \in Call : Handled(d)' => d = c \/ (Handled(d) /\ IdOf[d] # IdOf[c])
        BY <1>1, <1>2, <1>3 DEF Handled
    <2>2. rep[c] = "none"
        BY <1>1 DEF OneHandler
    <2> QED BY <1>1, <1>2, <1>3, <2>1, <2>2 DEF OneHandler
<1>5. Unasked'
    BY <1>1, <1>2, <1>3 DEF Unasked, Finished
<1>6. ~Finished(NoLocal) /\ (store[IdOf[c]] = NoLocal => storeDisk[IdOf[c]] = NoLocal)
    BY <1>1 DEF Finished, NoLocal, Terminal, Stores, OnFile
<1>7. Level' /\ Stands
    <2>1. \A i \in Id : Finished(storeDisk[i]) => store'[i] = store[i]
        BY <1>3, <1>6
    <2>2. Stands
        BY <1>1, <1>3, <2>1 DEF Stands, Level
    <2>3. \A i \in Id : Finished(storeDisk[i])' => store'[i].state = storeDisk'[i].state
        BY <1>1, <1>3, <2>1 DEF Level, Finished
    <2>4. ASSUME NEW d \in Call
          PROVE  /\ recv'[d] = "received" => returned'[d].state = store'[IdOf[d]].state
                 /\ recv'[d] = "submitting" \/ rep'[d] \in {"polling", "read"} =>
                        ~Finished(store[IdOf[d]])'
                 /\ rep'[d] = "kept" => store'[IdOf[d]].state = seen'[d].state
        <3>1. CASE d = c
            BY <1>1, <1>2, <1>3, <3>1 DEF Handled
        <3>2. CASE d # c /\ Handled(d)
            <4>1. store'[IdOf[d]] = store[IdOf[d]]
                BY <1>2, <1>3, <3>2
            <4> QED BY <1>1, <1>3, <3>2, <4>1 DEF Level, Finished
        <3>3. CASE d # c /\ ~Handled(d)
            BY <1>1, <1>3, <3>3 DEF Handled, Within
        <3> QED BY <3>1, <3>2, <3>3
    <2> QED BY <2>2, <2>3, <2>4 DEF Level
<1> QED BY <1>4, <1>5, <1>7

\* What is known already goes no further than the store.
LEMMA SpeakFirst ==
    ASSUME CloudInv, FirstInv, NEW c \in Call, Acknowledge(c) \/ SendResult(c)
    PROVE  FirstInv' /\ Stands
<1> USE IdAssumption DEF FirstInv, CloudInv, AgentInv
<1>1. UNCHANGED <<up, call, jobs, link, session, delivered, store, storeDisk, returned, rep, seen>>
    BY DEF Acknowledge, SendResult, vars, procVars, apiVars, callVars, storeVars, repVars
<1>2. NoNew({})
    BY <1>1 DEF NoNew
<1>3. /\ recv[c] \in Within /\ recv'[c] \in {"known", "submitting", "over"}
      /\ recv'[c] = "submitting" => recv[c] = "received" /\ ~Finished(returned[c])
      /\ \A d \in Call \ {c} : recv'[d] = recv[d]
    BY DEF Acknowledge, SendResult, Moved, Within, Deliveries
<1>4. OneHandler'
    <2>1. \A d \in Call : Handled(d)' => Handled(d)
        BY <1>1, <1>3 DEF Handled
    <2>2. \A d \in Call : rep'[d] # "none" => recv'[d] = "over"
        BY <1>1, <1>3 DEF OneHandler, Within
    <2> QED BY <1>1, <2>1, <2>2, HandlerFrame
<1>5. Unasked'
    BY <1>1, <1>3 DEF Unasked, Finished
<1>6. Level' /\ Stands
    BY <1>1, <1>3 DEF Level, Stands, Finished
<1> QED BY <1>4, <1>5, <1>6
\* submit finds no job under the delivery's key, and adds one under its id.
LEMMA SubmitFirst ==
    ASSUME CloudInv, PlacedInv, FirstInv, NEW c \in Call, SubmitCloudJob(c)
    PROVE  FirstInv' /\ Stands
<1> USE IdAssumption DEF FirstInv, CloudInv, AgentInv
<1>1. /\ recv[c] = "submitting" /\ Submit(c)
      /\ UNCHANGED <<link, session, delivered, store, storeDisk, recv, rep, seen>>
    BY DEF SubmitCloudJob, storeVars, linkVars, repVars
<1>2. /\ up' = up /\ NoNew({IdOf[c]}) /\ call'[c] # "idle"
      /\ \A d \in Call \ {c} : call'[d] = call[d]
    <2>1. up' = up
        BY <1>1 DEF Submit, Lookup, Reject, Insert, RegisterEvents, RegisterCancellation, Spawn, procVars
    <2> QED BY <1>1, <2>1, PlacedWork, OwnSubmit
<1>3. ASSUME call[c] \in {"idle", "planning"}
      PROVE  jobs[IdOf[c]] = NoJob /\ KeyHolders(jobs, c) = {}
    BY <1>1, <1>3, FoundByKey DEF Unasked
<1>4. /\ call'[c] # "replayed"
      /\ call'[c] = "planning" => jobs'[IdOf[c]] = NoJob
    <2>1. call \in [Call -> InFlight \cup {"idle", "replayed", "conflict", "rejected", "busy",
                                           "unsaved", "accepted", "dropped"}]
        BY DEF ExecInv, TypeOK
    <2>2. CASE Lookup(c)
        BY <1>3, <2>1, <2>2 DEF Lookup, Answer, apiVars
    <2>3. CASE Insert(c)
        BY <1>3, <2>1, <2>3 DEF Insert, Recheck, Answer, AfterSave
    <2>4. CASE Reject(c) \/ RegisterEvents(c) \/ RegisterCancellation(c) \/ Spawn(c)
        BY <2>1, <2>4 DEF Reject, RegisterEvents, RegisterCancellation, Spawn, Answer
    <2> QED BY <1>1, <2>2, <2>3, <2>4 DEF Submit
<1>5. /\ ~Finished(returned[c])'
      /\ \A d \in Call \ {c} : returned'[d] = returned[d]
    <2>1. returned'[c] \in {returned[c], Received(c)} /\ \A d \in Call \ {c} : returned'[d] = returned[d]
        BY <1>4 DEF SubmitCloudJob, Deliveries
    <2>2. ~Finished(returned[c])
        BY <1>1 DEF Unasked
    <2> QED BY <2>1, <2>2 DEF Finished, Received, Terminal
<1>6. Handled(c)
    BY <1>1 DEF Handled, Within
<1>7. OneHandler'
    <2>1. \A i \in Id : jobs'[i] # NoJob => jobs[i] # NoJob \/ (IdOf[c] = i /\ Handled(c))
        BY <1>2, <1>6 DEF NoNew
    <2>2. \A d \in Call : /\ Handled(d)' => Handled(d)
                          /\ rep'[d] # "none" => recv'[d] = "over"
        BY <1>1 DEF Handled, OneHandler
    <2> QED BY <1>1, <1>2, <2>1, <2>2, HandlerFrame
<1>8. Unasked'
    <2>1. ASSUME NEW d \in Call \ {c}
          PROVE  /\ recv'[d] \in {"idle", "received"} => call'[d] = "idle"
                 /\ recv'[d] \in {"received", "submitting"} /\ call'[d] \in {"idle", "planning"}
                        => jobs'[IdOf[d]] = NoJob
                 /\ recv'[d] = "submitting" => call'[d] # "replayed" /\ ~Finished(returned[d])'
        <3>1. recv[d] \in Within => IdOf[d] # IdOf[c]
            BY <1>6, <2>1 DEF OneHandler, Handled
        <3>2. IdOf[d] # IdOf[c] /\ jobs[IdOf[d]] = NoJob => jobs'[IdOf[d]] = NoJob
            BY <1>2 DEF NoNew
        <3> QED BY <1>1, <1>2, <1>5, <3>1, <3>2 DEF Unasked, Within, Finished
    <2>2. /\ recv'[c] = "submitting"
          /\ call'[c] \in {"idle", "planning"} => jobs'[IdOf[c]] = NoJob
          /\ call'[c] # "replayed" /\ ~Finished(returned[c])'
        BY <1>1, <1>2, <1>4, <1>5
    <2> QED BY <2>1, <2>2 DEF Unasked
<1>9. Level' /\ Stands
    BY <1>1, <1>2, <1>5, LevelFrame
<1> QED BY <1>7, <1>8, <1>9

\* Its answer is the first outcome that the store gets.
LEMMA AnswerFirst ==
    ASSUME CloudInv, FirstInv, NEW c \in Call, Refuse(c) \/ Record(c)
    PROVE  FirstInv' /\ Stands
<1> USE IdAssumption DEF FirstInv, CloudInv, AgentInv
<1>1. /\ up /\ recv[c] = "submitting"
      /\ UNCHANGED <<up, call, jobs, link, session, delivered, seen>>
    BY DEF Refuse, Record, vars, procVars, apiVars, callVars, linkVars, repVars
<1>2. NoNew({}) /\ Handled(c) /\ ~Finished(store[IdOf[c]]) /\ ~Finished(returned[c])
    BY <1>1 DEF NoNew, Handled, Within, Level, Unasked
<1>3. PICK job : /\ store' = [store EXCEPT ![IdOf[c]] = job]
                 /\ rep'[c] = "polling" => job = returned[c]
    <2>1. rep[c] = "none"
        BY <1>1 DEF OneHandler
    <2>2. CASE Refuse(c)
        <3>1. store' = [store EXCEPT ![IdOf[c]] = [store[IdOf[c]] EXCEPT !.state = "failed"]]
            BY <2>2 DEF Refuse
        <3> QED BY <2>1, <2>2, <3>1 DEF Refuse, repVars
    <2>3. CASE Record(c)
        BY <2>3 DEF Record
    <2> QED BY <2>2, <2>3
<1>4. /\ recv'[c] \in {"refused", "over"} /\ rep'[c] \in {"none", "polling"}
      /\ rep'[c] = "polling" => recv'[c] = "over"
      /\ \A d \in Call \ {c} : /\ recv'[d] = recv[d] /\ returned'[d] = returned[d]
                               /\ rep'[d] = rep[d]
      /\ storeDisk' \in {storeDisk, store'}
    <2>1. rep[c] = "none"
        BY <1>1 DEF OneHandler
    <2> QED BY <2>1 DEF Refuse, Record, Moved, SaveStore, repVars, Deliveries, Reporters
<1>5. Level' /\ Stands
    <2>1. rep'[c] \in {"polling", "read"} => job.state \notin Terminal
        BY <1>2, <1>3, <1>4 DEF Finished
    <2> QED BY <1>1, <1>2, <1>3, <1>4, <2>1, LevelPut
<1>6. OneHandler'
    <2>1. \A d \in Call : Handled(d)' => Handled(d)
        BY <1>2, <1>4 DEF Handled
    <2>2. \A d \in Call : rep'[d] # "none" => recv'[d] = "over"
        BY <1>4 DEF OneHandler
    <2> QED BY <1>1, <2>1, <2>2, HandlerFrame
<1>7. Unasked'
    BY <1>1, <1>2, <1>4, UnaskedFrame
<1> QED BY <1>5, <1>6, <1>7

\* A reporter stores what it has read, and goes on unless that is the outcome.
LEMMA ReporterFirst ==
    ASSUME CloudInv, FirstInv, NEW c \in Call, Reporter(c)
    PROVE  FirstInv' /\ Stands
<1> USE IdAssumption DEF FirstInv, CloudInv, AgentInv
<1>1. UNCHANGED <<up, call, jobs, link, session, delivered, recv, returned>>
    BY DEF Reporter, Poll, Keep, Report, vars, procVars, apiVars, callVars, linkVars, recvVars
<1>2. /\ up /\ NoNew({}) /\ Handled(c) /\ rep[c] # "none"
      /\ \A d \in Call \ {c} : rep'[d] = rep[d] /\ seen'[d] = seen[d]
    BY <1>1 DEF Reporter, Poll, Keep, Report, NoNew, Handled, Step, Reporters
<1>3. OneHandler'
    <2>1. \A d \in Call : Handled(d)' => Handled(d)
        BY <1>1, <1>2 DEF Handled
    <2>2. \A d \in Call : rep'[d] # "none" => recv'[d] = "over"
        BY <1>1, <1>2 DEF OneHandler
    <2> QED BY <1>1, <2>1, <2>2, HandlerFrame
<1>4. Unasked'
    BY <1>1, <1>2, UnaskedFrame
<1>5. CASE Poll(c)
    <2>1. /\ rep[c] = "polling" /\ rep'[c] \in {"polling", "read", "over"}
          /\ UNCHANGED <<store, storeDisk>>
        BY <1>5 DEF Poll, Step, Reporters, storeVars
    <2>2. Level' /\ Stands
        BY <1>1, <1>2, <2>1, LevelFrame
    <2> QED BY <1>3, <1>4, <2>2
<1>6. CASE Keep(c)
    <2>1. /\ rep[c] = "read" /\ rep'[c] \in {"kept", "over"} /\ seen' = seen
          /\ store' = [store EXCEPT ![IdOf[c]] = seen[c]] /\ storeDisk' \in {storeDisk, store'}
        BY <1>6 DEF Keep, Step, SaveStore, Reporters
    <2>2. ~Finished(store[IdOf[c]]) /\ recv[c] = "over"
        BY <2>1 DEF Level, OneHandler
    <2>3. Level' /\ Stands
        BY <1>1, <1>2, <2>1, <2>2, LevelPut
    <2> QED BY <1>3, <1>4, <2>3
<1>7. CASE Report(c)
    <2>1. /\ rep[c] = "kept" /\ UNCHANGED <<store, storeDisk, seen>>
          /\ rep'[c] = "over" \/ (rep'[c] = "polling" /\ ~Finished(seen[c]))
        BY <1>7 DEF Report, Step, Reporters, storeVars
    <2>2. Level' /\ Stands
        BY <1>1, <1>2, <2>1 DEF Level, Stands, Finished
    <2> QED BY <1>3, <1>4, <2>2
<1> QED BY <1>5, <1>6, <1>7 DEF Reporter

\* Workers and cancellations leave the store alone and bring no job.
LEMMA WorkFirst ==
    ASSUME CloudInv, PlacedInv, FirstInv,
           (\E c \in Call : CloudWork(c)) \/ (\E k \in Canceller : CloudCancel(k))
    PROVE  FirstInv' /\ Stands
<1> USE IdAssumption DEF FirstInv, CloudInv, AgentInv
<1>1. UNCHANGED <<store, storeDisk, link, session, delivered, recv, returned, rep, seen>>
    BY DEF CloudWork, CloudCancel, CancelCloudFlag, CancelCloudRecord, agentVars, storeVars,
           linkVars, recvVars, repVars
<1>2. UNCHANGED <<up, call>> /\ NoNew({})
    <2>1. ASSUME NEW c \in Call, CloudWork(c) PROVE UNCHANGED <<up, call>> /\ NoNew({})
        BY <2>1, OwnWork, PlacedWork DEF CloudWork
    <2>2. ASSUME NEW k \in Canceller, CloudCancel(k) PROVE UNCHANGED <<up, call>> /\ NoNew({})
        BY <2>2, PlacedCancel
    <2> QED BY <2>1, <2>2
<1>3. OneHandler'
    <2>1. \A i \in Id : jobs'[i] # NoJob => jobs[i] # NoJob
        BY <1>2 DEF NoNew
    <2>2. \A d \in Call : Handled(d)' <=> Handled(d)
        BY <1>1 DEF Handled
    <2>3. \A d \in Call : rep'[d] # "none" => recv'[d] = "over"
        BY <1>1 DEF OneHandler
    <2> QED BY <1>1, <1>2, <2>1, <2>2, <2>3, HandlerFrame
<1>4. Unasked'
    BY <1>1, <1>2, UnaskedFrame
<1>5. Level' /\ Stands
    BY <1>1, <1>2, LevelFrame
<1> QED BY <1>3, <1>4, <1>5

\* A crash ends the session; the next process begins with what is on file.
LEMMA ProcessFirst ==
    ASSUME CloudInv, FirstInv, CloudCrash \/ CloudRestart
    PROVE  FirstInv' /\ Stands
<1> USE IdAssumption DEF FirstInv, CloudInv, AgentInv
<1>1. \A c \in Call : call[c] = "idle" => call'[c] = "idle"
    BY OwnCrash DEF CloudCrash, CloudRestart, ExecInv, TypeOK, Crash, Restart, callVars
<1>2. CASE CloudCrash
    <2>1. /\ ~link' /\ ~up' /\ jobs' = NoJobs /\ storeDisk' = storeDisk
          /\ \A c \in Call : /\ recv'[c] \notin Within
                             /\ recv'[c] = recv[c] \/ recv'[c] = "over"
                             /\ rep'[c] \in {"none", "over"}
                             /\ rep'[c] # "none" => rep[c] # "none"
        BY <1>2 DEF CloudCrash, Crash, Within
    <2>2. OneHandler'
        BY <2>1 DEF OneHandler, Handled, NoJobs
    <2>3. Unasked'
        BY <1>1, <2>1 DEF Unasked, Within
    <2>4. Level' /\ Stands
        BY <2>1 DEF Level, Stands, Within
    <2> QED BY <2>2, <2>3, <2>4
<1>3. CASE CloudRestart
    <2>1. /\ ~up /\ up' /\ store' = [i \in Id |-> Reconciled(storeDisk[i])] /\ storeDisk' = store'
          /\ UNCHANGED <<call, link, session, delivered, recv, returned, rep, seen>>
        BY <1>3 DEF CloudRestart, Restart, callVars, linkVars, recvVars, repVars
    <2>2. \A i \in Id : jobs'[i] = NoJob
        <3>1. disk = NoJobs /\ Loaded(NoJobs) = NoJobs
            BY DEF ExecInv, Own, Loaded, NoJobs, NoJob, Live
        <3> QED BY <1>3, <3>1 DEF CloudRestart, Restart, LoadOutcome, NoJobs
    <2>3. ~link /\ \A c \in Call : ~Handled(c)
        BY <2>1 DEF OneHandler
    <2>4. storeDisk' = storeDisk
        <3>1. \A job \in Entry : Reconciled(job) = job
            BY DEF Reconciled, Entry, NoLocal
        <3> QED BY <2>1, <3>1 DEF Stores
    <2>5. OneHandler'
        BY <2>1, <2>2, <2>3 DEF OneHandler, Handled
    <2>6. Unasked'
        BY <2>1, <2>2 DEF Unasked, Finished
    <2>7. Level' /\ Stands
        BY <2>1, <2>3, <2>4 DEF Level, Stands, Handled, Within
    <2> QED BY <2>5, <2>6, <2>7
<1> QED BY <1>2, <1>3

FirstAlone == losses = 0 => FirstInv

\* The executor's invariants hold below the agent, crashes and all.
LEMMA UnderAgentAlways == CloudSpec => [](CloudInv /\ PlacedInv)
<1>1. CloudInit => PlacedInv
    BY CloudStart, CloudAssumption, NobodyAssumption
       DEF CloudInit, Init, CloudInv, ExecInv, PlacedInv, MapsPlaced, Placed, HonestInv, KeptInv,
           JobKept, WorkerAccepted, WireInv, Wire, FinalInv, Final, FinalJob, Retained, NoJobs,
           HasWorker, Busy, Pending, Honest
<1>2. CloudInv /\ PlacedInv /\ [CloudNext]_cloudVars => PlacedInv'
    <2> SUFFICES ASSUME CloudInv, PlacedInv, [CloudNext]_cloudVars PROVE PlacedInv'
        OBVIOUS
    <2>1. ASSUME Crash \/ Restart PROVE PlacedInv'
        <3>1. TypeOK'
            BY <2>1, CrashType DEF CloudInv, ExecInv
        <3> QED BY <2>1, <3>1, KeptStep, WireStep, FinalStep, PlacedStep
                DEF PlacedInv, HonestInv, KeptInv, Next
    <2>2. ASSUME NEW c \in Call, Receive(c) \/ Acknowledge(c) \/ SendResult(c) \/ Refuse(c) \/ Record(c)
                                 \/ Reporter(c)
          PROVE  UNCHANGED vars
        BY <2>2 DEF Receive, Acknowledge, SendResult, Refuse, Record, Reporter, Poll, Keep, Report
    <2>3. CASE Connect \/ Lose \/ BrokerTakes \/ UNCHANGED cloudVars
        BY <2>3, PlacedFrame DEF Connect, Lose, BrokerTakes, cloudVars
    <2>4. ASSUME NEW c \in Call, SubmitCloudJob(c) \/ CloudWork(c) PROVE PlacedInv'
        BY <2>4, PlacedWork DEF SubmitCloudJob, CloudWork
    <2>5. ASSUME NEW k \in Canceller, CloudCancel(k) PROVE PlacedInv'
        BY <2>5, PlacedCancel DEF CloudInv
    <2> QED BY <2>1, <2>2, <2>3, <2>4, <2>5, PlacedFrame
            DEF CloudNext, Delivery, CloudCrash, CloudRestart
<1> QED BY <1>1, <1>2, CloudAlways, PTL DEF CloudSpec

LEMMA FirstAloneStep ==
    ASSUME CloudInv, PlacedInv, FirstAlone, [CloudNext]_cloudVars
    PROVE  FirstAlone' /\ (losses = 0 => Stands)
<1>1. losses \in Nat
    BY CloudAssumption DEF CloudInv, AgentInv, Counted
<1>2. CASE Lose
    BY <1>1, <1>2 DEF Lose, FirstAlone, Stands, storeVars
<1>3. ASSUME ~Lose PROVE losses' = losses
    BY <1>3 DEF CloudNext, Connect, BrokerTakes, CloudCrash, CloudRestart, Receive, Delivery, Acknowledge,
           SendResult, SubmitCloudJob, Refuse, Record, Reporter, Poll, Keep, Report, CloudCancel,
           CancelCloudFlag, CancelCloudRecord, CloudWork, cloudVars, agentVars, linkVars
<1>4. ASSUME FirstInv, ~Lose PROVE FirstInv' /\ Stands
    BY <1>4, SessionFirst, ReceiveFirst, SpeakFirst, SubmitFirst, AnswerFirst, ReporterFirst,
       WorkFirst, ProcessFirst DEF CloudNext, Delivery
<1> QED BY <1>2, <1>3, <1>4 DEF FirstAlone

\* While no session is lost, the outcome of a job in the store's file is never
\* replaced by another one, whatever is delivered again, refused, reported,
\* cancelled or saved in vain, and over crashes.
THEOREM StoredOutcomeStands == CloudSpec => OutcomeStands
<1>1. CloudInit => FirstAlone
    BY CloudAssumption, NobodyAssumption
       DEF CloudInit, Init, NoJobs, FirstAlone, FirstInv, OneHandler, Handled, Within, Unasked, Level,
           Finished, NoLocal, Terminal
<1>2. CloudInv /\ PlacedInv /\ FirstAlone /\ [CloudNext]_cloudVars
          => FirstAlone' /\ [losses = 0 => Stands]_cloudVars
    BY FirstAloneStep
<1>3. [losses = 0 => Stands]_cloudVars
          => [losses = 0 => \A i \in Id : Finished(storeDisk[i])
                 => storeDisk'[i].state = storeDisk[i].state]_cloudVars
    BY DEF Stands
<1> QED BY <1>1, <1>2, <1>3, UnderAgentAlways, PTL DEF CloudSpec, OutcomeStands
=============================================================================
