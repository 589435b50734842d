----------------------------- MODULE CloudAgent -----------------------------
(***************************************************************************)
(* The cloud print agent (src/cloud/agent.rs) with its durable job store   *)
(* (src/cloud/store.rs), on top of the shared job executor.                *)
(*                                                                         *)
(* A call of the executor is here one delivery of a cloud job: the broker  *)
(* may deliver a job again in a later session, and every delivery that is  *)
(* not answered from the store goes through submit with the job's own id   *)
(* and key.  run_session handles one inbound message at a time, so at most *)
(* one delivery or cancellation is in progress; workers and reporters run  *)
(* beside it.  The broker is external; it is modelled by what the agent    *)
(* relies on: it sends a job that is not finished at most once a session.  *)
(***************************************************************************)
EXTENDS JobExecutor

CONSTANTS
    Unusable,     \* deliveries for an unpublished printer, or with a bad payload
    Slots,        \* capacity of the outgoing channel (16 in the code)
    MaxLosses,    \* bound on the sessions lost while the agent runs
    StoreFaults,  \* saving the cloud job store may fail
    CoarseClock   \* two updates of a job may carry the same millisecond

\* "mb-printer cloud connect" runs the executor without a jobs file, and the
\* key of a cloud job is its id.
ASSUME CloudAssumption ==
    /\ ~Durable /\ Fickle = {} /\ Nobody \notin Canceller
    /\ \A c \in Call : KeyOf[c] # NoKey
    /\ \A c, d \in Call : KeyOf[c] = KeyOf[d] <=> IdOf[c] = IdOf[d]
    /\ Unusable \subseteq Call
    /\ Slots \in Nat \ {0} /\ MaxLosses \in Nat
    /\ StoreFaults \in BOOLEAN /\ CoarseClock \in BOOLEAN

VARIABLES
    store,      \* CloudJobStore in memory: the local job of each cloud job
    storeDisk,  \* the store's file
    link,       \* a session with the broker is up
    session,    \* its number
    losses,     \* how often the stream broke while the agent ran
    main,       \* the delivery or cancellation run_session is busy with
    recv,       \* where each delivery is
    returned,   \* the job a delivery found in the store or got from submit
    rep,        \* where each delivery's reporter task is
    seen,       \* the job the reporter last found changed
    repSession, \* the session whose channel the reporter sends on
    outbox,     \* messages of the session that the broker has not taken
    delivered,  \* the last session in which the broker sent the job
    broker,     \* the broker's state of each job
    results     \* the terminal states the broker ever received of each job

storeVars  == <<store, storeDisk>>
linkVars   == <<link, session, losses, outbox, delivered>>
recvVars   == <<main, recv, returned>>
repVars    == <<rep, seen, repSession>>
brokerVars == <<broker, results>>
agentVars  == <<storeVars, linkVars, recvVars, repVars, brokerVars>>
cloudVars  == <<vars, agentVars>>

-----------------------------------------------------------------------------
LocalJob == [state : JobState, paw : BOOLEAN, hash : {HashOf[c] : c \in Call}]
NoLocal  == [state |-> "absent", paw |-> FALSE, hash |-> "none"]

Received(c) == [state |-> "queued", paw |-> FALSE, hash |-> HashOf[c]]

\* The job the executor has under id i.  Its map is not touched while the
\* worker runs: an unfinished job never shows a possible write.
Snapshot(i) ==
    IF jobs[i] = NoJob THEN NoLocal
    ELSE [state |-> jobs[i].state,
          paw   |-> jobs[i].state \in Terminal /\ paw[jobs[i].by],
          hash  |-> HashOf[jobs[i].by]]

\* CloudJobStore::reconcile_interrupted
Reconciled(job) ==
    IF job.state = "running"
    THEN [job EXCEPT !.state = IF job.paw THEN "outcome-unknown" ELSE "queued"]
    ELSE job

Finished(job) == job.state \in Terminal

StoreOutcome == IF StoreFaults THEN BOOLEAN ELSE {TRUE}
SaveStore(ok) == storeDisk' = IF ok THEN store' ELSE storeDisk

-----------------------------------------------------------------------------
CloudInit ==
    /\ Init
    /\ store = [i \in Id |-> NoLocal] /\ storeDisk = [i \in Id |-> NoLocal]
    /\ link = FALSE /\ session = 0 /\ losses = 0 /\ outbox = <<>>
    /\ delivered = [i \in Id |-> 0]
    /\ main = Nobody
    /\ recv = [c \in Call |-> "idle"] /\ returned = [c \in Call |-> NoLocal]
    /\ rep = [c \in Call |-> "none"] /\ seen = [c \in Call |-> NoLocal]
    /\ repSession = [c \in Call |-> 0]
    /\ broker = [i \in Id |-> "queued"] /\ results = [i \in Id |-> {}]

-----------------------------------------------------------------------------
(* The session.                                                            *)

\* Mutant of CanSend: an unbounded channel.
CanSend_Always(s) == TRUE

\* mpsc::Sender::send: waits for a slot; fails at once when the session whose
\* receiver it belongs to is over.
CanSend(s) == link /\ s = session => Len(outbox) < Slots
Sending(s, kind, i, state) ==
    outbox' = IF link /\ s = session
              THEN Append(outbox, [kind |-> kind, id |-> i, state |-> state])
              ELSE outbox

\* run_session once the previous one is over; Hello carries no agent state the
\* model's broker depends on.
Connect ==
    /\ up /\ ~link /\ main = Nobody
    /\ link' = TRUE /\ session' = session + 1
    /\ UNCHANGED <<vars, storeVars, losses, outbox, delivered, recvVars, repVars, brokerVars>>

\* The stream breaks: what the broker has not taken is lost.
Lose ==
    /\ link /\ losses < MaxLosses
    /\ link' = FALSE /\ losses' = losses + 1 /\ outbox' = <<>>
    /\ UNCHANGED <<vars, storeVars, session, delivered, recvVars, repVars, brokerVars>>

BrokerTakes ==
    /\ link /\ outbox # <<>>
    /\ outbox' = Tail(outbox)
    /\ LET m == Head(outbox) IN
       /\ broker' = [broker EXCEPT ![m.id] =
                        IF @ \in Terminal THEN @
                        ELSE IF m.kind = "result" THEN m.state ELSE "delivered"]
       /\ results' = [results EXCEPT ![m.id] = IF m.kind = "result" THEN @ \cup {m.state} ELSE @]
    /\ UNCHANGED <<vars, storeVars, link, session, losses, delivered, recvVars, repVars>>

-----------------------------------------------------------------------------
(* receive_job.                                                            *)

Moved(c, stage) == recv' = [recv EXCEPT ![c] = stage]

\* Mutants of Stored, Conflicts and AfterReceive: a known job is stored anew;
\* the digest is not compared; a failed save is ignored.
Stored_Anew(c) == [store EXCEPT ![IdOf[c]] = Received(c)]
Conflicts_Never(c) == FALSE
AfterReceive_Unsaved(ok) == "received"

\* CloudJobStore::receive and the save that follows it.
Stored(c) == IF store[IdOf[c]] = NoLocal THEN [store EXCEPT ![IdOf[c]] = Received(c)] ELSE store
Conflicts(c) == store[IdOf[c]] # NoLocal /\ store[IdOf[c]].hash # HashOf[c]

\* Where receive_job is after the save: a failed one drops the delivery.
AfterReceive(ok) == IF ok THEN "received" ELSE "ignored"

Receive(c) ==
    /\ up /\ link /\ main = Nobody /\ recv[c] = "idle"
    /\ broker[IdOf[c]] \notin Terminal /\ delivered[IdOf[c]] < session
    /\ delivered' = [delivered EXCEPT ![IdOf[c]] = session]
    /\ \/ /\ c \in Unusable \/ Conflicts(c)
          /\ Moved(c, "ignored")
          /\ UNCHANGED <<storeVars, main, returned>>
       \/ /\ c \notin Unusable /\ ~Conflicts(c)
          /\ store' = Stored(c)
          /\ \E ok \in StoreOutcome :
                /\ SaveStore(ok)
                /\ Moved(c, AfterReceive(ok))
                /\ main' = IF AfterReceive(ok) = "received" THEN c ELSE Nobody
          /\ returned' = [returned EXCEPT ![c] = store'[IdOf[c]]]
    /\ UNCHANGED <<vars, link, session, losses, outbox, repVars, brokerVars>>

Acknowledge(c) ==
    /\ up /\ recv[c] = "received" /\ CanSend(session)
    /\ Sending(session, "received", IdOf[c], returned[c].state)
    /\ Moved(c, IF Finished(returned[c]) THEN "known" ELSE "submitting")
    /\ UNCHANGED <<vars, storeVars, link, session, losses, delivered, main, returned, repVars,
                   brokerVars>>

\* The store already has the outcome, or submit has refused the job.
SendResult(c) ==
    /\ up /\ recv[c] \in {"known", "refused"} /\ CanSend(session)
    /\ Sending(session, "result", IdOf[c], returned[c].state)
    /\ Moved(c, "over") /\ main' = Nobody
    /\ UNCHANGED <<vars, storeVars, link, session, losses, delivered, returned, repVars, brokerVars>>

\* One step of submit_cloud_job.  It returns the job as submit answers it.
SubmitCloudJob(c) ==
    /\ recv[c] = "submitting"
    /\ Submit(c)
    /\ returned' = [returned EXCEPT ![c] =
                        IF call'[c] = "replayed" THEN Snapshot(IdOf[c])
                        ELSE IF call'[c] = "accepted" THEN Received(c)
                        ELSE @]
    /\ UNCHANGED <<storeVars, linkVars, main, recv, repVars, brokerVars>>

\* submit failed: the stored job is marked failed, whatever it was by now.
Refuse(c) ==
    /\ up /\ recv[c] = "submitting" /\ call[c] \in {"rejected", "conflict", "busy", "unsaved"}
    /\ store' = [store EXCEPT ![IdOf[c]].state = "failed"]
    /\ \E ok \in StoreOutcome :
          /\ SaveStore(ok)
          /\ Moved(c, IF ok THEN "refused" ELSE "over")
          /\ main' = IF ok THEN c ELSE Nobody
    /\ returned' = [returned EXCEPT ![c] = store'[IdOf[c]]]
    /\ UNCHANGED <<vars, linkVars, repVars, brokerVars>>

\* submit succeeded: its answer replaces the stored job; a reporter is spawned.
Record(c) ==
    /\ up /\ recv[c] = "submitting" /\ call[c] \in {"accepted", "replayed"}
    /\ store' = [store EXCEPT ![IdOf[c]] = returned[c]]
    /\ \E ok \in StoreOutcome : SaveStore(ok)
    /\ Moved(c, "over") /\ main' = Nobody
    /\ rep' = [rep EXCEPT ![c] = "polling"]
    /\ repSession' = [repSession EXCEPT ![c] = session]
    /\ UNCHANGED <<vars, linkVars, returned, seen, brokerVars>>

-----------------------------------------------------------------------------
(* report_job.                                                             *)

Step(c, stage) == rep' = [rep EXCEPT ![c] = stage]

\* Mutant of LooksChanged: only the first snapshot is reported.
LooksChanged_Once(c, job) == {seen[c] = NoLocal}

\* updated_at_ms tells a changed job, unless both updates share a millisecond.
LooksChanged(c, job) ==
    IF job = seen[c] THEN {FALSE}
    ELSE IF CoarseClock /\ seen[c] # NoLocal THEN BOOLEAN ELSE {TRUE}

Poll(c) ==
    LET job == Snapshot(IdOf[c]) IN
    /\ up /\ rep[c] = "polling"
    /\ \/ job = NoLocal /\ Step(c, "over") /\ UNCHANGED seen
       \/ /\ job # NoLocal
          /\ \E changed \in LooksChanged(c, job) :
                \/ changed /\ seen' = [seen EXCEPT ![c] = job] /\ Step(c, "read")
                \/ ~changed /\ UNCHANGED seen
                   /\ Step(c, IF Finished(job) THEN "over" ELSE "polling")
    /\ UNCHANGED <<vars, storeVars, linkVars, recvVars, repSession, brokerVars>>

Keep(c) ==
    /\ up /\ rep[c] = "read"
    /\ store' = [store EXCEPT ![IdOf[c]] = seen[c]]
    /\ \E ok \in StoreOutcome : SaveStore(ok) /\ Step(c, IF ok THEN "kept" ELSE "over")
    /\ UNCHANGED <<vars, linkVars, recvVars, seen, repSession, brokerVars>>

Report(c) ==
    /\ up /\ rep[c] = "kept" /\ CanSend(repSession[c])
    /\ Sending(repSession[c], IF Finished(seen[c]) THEN "result" ELSE "progress",
               IdOf[c], seen[c].state)
    /\ Step(c, IF Finished(seen[c]) \/ ~(link /\ repSession[c] = session)
               THEN "over" ELSE "polling")
    /\ UNCHANGED <<vars, storeVars, link, session, losses, delivered, recvVars, seen, repSession,
                   brokerVars>>

-----------------------------------------------------------------------------
(* cancel_cloud_job, in the session's task: no event is sent.              *)

CancelCloudFlag(k, i) ==
    /\ link /\ main = Nobody /\ broker[i] = "delivered"
    /\ CancelFlag(k, i)
    /\ main' = k
    /\ UNCHANGED <<storeVars, linkVars, recv, returned, repVars, brokerVars>>

CancelCloudRecord(k) ==
    /\ up /\ cancel[k] = "flagged"
    /\ cancel' = [cancel EXCEPT ![k] = IF target[k] \in Retained(jobs) THEN "answered"
                                       ELSE "missing"]
    /\ jobs' = [i \in Id |-> IF i = target[k] /\ i \in Retained(jobs)
                             THEN RequestCancel(jobs[i]) ELSE jobs[i]]
    /\ main' = Nobody
    /\ UNCHANGED <<procVars, disk, senders, cancellations, holder, callVars, flag, workVars,
                   published, target, storeVars, linkVars, recv, returned, repVars, brokerVars>>

-----------------------------------------------------------------------------
(* The process.                                                            *)

CloudWork(c) == Work(c) /\ UNCHANGED agentVars

CloudCrash ==
    /\ Crash
    /\ store' = [i \in Id |-> NoLocal]
    /\ link' = FALSE /\ outbox' = <<>> /\ main' = Nobody
    /\ recv' = [c \in Call |-> IF recv[c] \in {"received", "known", "refused", "submitting"}
                               THEN "over" ELSE recv[c]]
    /\ rep' = [c \in Call |-> IF rep[c] = "none" THEN "none" ELSE "over"]
    /\ UNCHANGED <<storeDisk, session, losses, delivered, returned, seen, repSession, brokerVars>>

\* run: loads the store, reconciles it and saves it before the first session.
CloudRestart ==
    /\ Restart
    /\ store' = [i \in Id |-> Reconciled(storeDisk[i])]
    /\ storeDisk' = store'
    /\ UNCHANGED <<linkVars, recvVars, repVars, brokerVars>>

-----------------------------------------------------------------------------
Delivery(c) == Acknowledge(c) \/ SendResult(c) \/ SubmitCloudJob(c) \/ Refuse(c) \/ Record(c)
Reporter(c) == Poll(c) \/ Keep(c) \/ Report(c)
CloudCancel(k) == (\E i \in Id : CancelCloudFlag(k, i)) \/ CancelCloudRecord(k)

CloudNext ==
    \/ \E c \in Call : Receive(c) \/ Delivery(c) \/ Reporter(c) \/ CloudWork(c)
    \/ \E k \in Canceller : CloudCancel(k)
    \/ Connect \/ Lose \/ BrokerTakes \/ CloudCrash \/ CloudRestart

CloudSpec == CloudInit /\ [][CloudNext]_cloudVars

\* The runtime polls every task that can go on, the agent reconnects for ever,
\* and the broker takes messages and resends unfinished jobs.
CloudFairness ==
    /\ WF_cloudVars(Connect) /\ WF_cloudVars(BrokerTakes) /\ WF_cloudVars(CloudRestart)
    /\ \A c \in Call : /\ WF_cloudVars(Receive(c)) /\ WF_cloudVars(Delivery(c))
                       /\ WF_cloudVars(Reporter(c)) /\ WF_cloudVars(CloudWork(c))
    /\ \A k \in Canceller : WF_cloudVars(CancelCloudRecord(k))

CloudFairSpec == CloudSpec /\ CloudFairness

-----------------------------------------------------------------------------
(* Properties.                                                             *)

Message == [kind : {"received", "progress", "result"}, id : Id, state : JobState]

\* Every variable of the agent has its type.  The store never holds a running
\* job: it only ever copies the executor's map, which never shows one.
CloudTypeOK ==
    /\ TypeOK
    /\ \A s \in {store, storeDisk} : \A i \in Id :
           s[i] \in LocalJob \cup {NoLocal} /\ s[i].state # "running"
    /\ link \in BOOLEAN /\ losses \in 0 .. MaxLosses
    /\ session \in 0 .. 1 + MaxLosses + MaxCrashes
    /\ main \in {Nobody} \cup Call \cup Canceller
    /\ recv \in [Call -> {"idle", "ignored", "received", "known", "submitting", "refused", "over"}]
    /\ \A c \in Call : {returned[c], seen[c]} \subseteq LocalJob \cup {NoLocal}
    /\ rep \in [Call -> {"none", "polling", "read", "kept", "over"}]
    /\ repSession \in [Call -> 0 .. session]
    /\ outbox \in Seq(Message) /\ Len(outbox) <= Slots
    /\ delivered \in [Id -> 0 .. session]
    /\ broker \in [Id -> {"queued", "delivered"} \cup Terminal]
    /\ results \in [Id -> SUBSET Terminal]

Mentioned(i) == \E n \in DOMAIN outbox : outbox[n].id = i

\* "delivered means the agent has persisted the exact job": whatever the agent
\* has said of a job, or printed of it, the job is in the store's file, across
\* failed saves, lost sessions and crashes.
StoredFirst ==
    \A c \in Call :
        broker[IdOf[c]] # "queued" \/ Mentioned(IdOf[c]) \/ sent[c] # {}
            => storeDisk[IdOf[c]] # NoLocal

\* "Same job ID and different digest: reject it as a conflict and do not
\* print": of all the deliveries of a job only those with the digest that was
\* stored are ever submitted.
StoredDigestOnly ==
    \A c \in Call : call[c] # "idle" => storeDisk[IdOf[c]].hash = HashOf[c]

\* Within one life of the process a job is printed by one of its deliveries,
\* over however many sessions it is delivered.  (Not over a restart:
\* OnePrintPerKey.)
OnePrintPerLife == crashes = 0 => OnePrintPerKey

\* A result the broker has of a job is borne out by the printer, whichever
\* delivery, reporter or refusal it came from, until a crash.
HonestResult ==
    crashes = 0 =>
    \A i \in Id :
        LET deliveries == {c \in Call : IdOf[c] = i} IN
        /\ {"failed", "cancelled-before-send"} \cap results[i] # {}
               => \A c \in deliveries : sent[c] = {}
        /\ "completed" \in results[i] => \E c \in deliveries : sent[c] = WriteSteps

\* "Terminal outcomes are immutable": the outcome in the store's file stays,
\* over crashes, failed saves and cancels, while no session is lost.
OutcomeStands ==
    [][losses = 0 => \A i \in Id : Finished(storeDisk[i])
           => storeDisk'[i].state = storeDisk[i].state]_cloudVars

\* A job the broker knows to be delivered comes to an outcome the broker knows,
\* although sessions are lost with the results in them.
ResultReported ==
    \A i \in Id : broker[i] = "delivered" ~> broker[i] \in Terminal
=============================================================================
