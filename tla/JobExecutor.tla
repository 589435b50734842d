----------------------------- MODULE JobExecutor -----------------------------
(***************************************************************************)
(* The shared print-job executor: JobExecutor::submit, its blocking worker *)
(* and the cancel handler (src/api/jobs.rs), over the maps of ApiState     *)
(* (src/api.rs) and the jobs file.                                         *)
(*                                                                         *)
(* A call is one execution of submit; it creates at most one job and at    *)
(* most one worker, so the worker is named after its call.  Every .await   *)
(* of submit ends a step: other calls, workers and cancel handlers run in  *)
(* between, and an HTTP client that disconnects there drops the call.      *)
(*                                                                         *)
(* Abstractions.  Time stamps are left out: eviction takes any terminal    *)
(* job, which includes the oldest one whatever the wall clock does.  The   *)
(* plan is a sequence of transport steps; what a write puts on the wire is *)
(* its position in the plan.                                               *)
(***************************************************************************)
EXTENDS Integers, Sequences, FiniteSets

CONSTANTS
    Call,        \* executions of submit
    Id,          \* job identifiers
    Conn,        \* saved connections
    Canceller,   \* executions of the cancel handler
    Nobody,      \* "no call": absent map entries, free locks
    NoKey,       \* a submission without Idempotency-Key
    NoConn,      \* a submission with an explicit transport
    IdOf,        \* the job id a call creates (forced_job_id or a fresh UUID)
    KeyOf,       \* the scoped idempotency key of a call
    HashOf,      \* the digest of the call's request body
    ConnOf,      \* the saved connection a call names
    Ipp,         \* the calls that print through the IPP adapter
    Fickle,      \* the calls whose client may disconnect
    Hanging,     \* the calls whose transport may block in a write for ever (TCP, a FIFO)
    Plan,        \* the transport steps of a plan
    MaxRecent,   \* config.max_recent_jobs
    Durable,     \* config.jobs_path is set
    SaveFaults,  \* saving the jobs file may fail
    LoadFaults,  \* the jobs file may be unreadable when the process starts
    MaxCrashes   \* bound on the crashes of a behaviour

PlanStep == {"subscribe", "write", "wait"}

ASSUME NobodyAssumption == Nobody \notin Call /\ NoConn \notin Conn

\* Fresh UUIDs never collide; a forced id comes with its own key "cloud\0id".
ASSUME IdAssumption ==
    /\ IdOf \in [Call -> Id]
    /\ \A c, d \in Call : c # d /\ IdOf[c] = IdOf[d] =>
                              KeyOf[c] = KeyOf[d] /\ KeyOf[c] # NoKey

ASSUME CallAssumption ==
    /\ ConnOf \in [Call -> Conn \cup {NoConn}]
    /\ Ipp \subseteq Call /\ Fickle \subseteq Call /\ Hanging \subseteq Call
    /\ Plan \in Seq(PlanStep)

ASSUME BoundAssumption ==
    /\ MaxRecent \in Nat
    /\ MaxCrashes \in Nat
    /\ Durable \in BOOLEAN
    /\ SaveFaults \in BOOLEAN
    /\ LoadFaults \in BOOLEAN

VARIABLES
    up,             \* the process runs
    crashes,        \* how often it crashed
    jobs,           \* ApiState.jobs: the retained job of each id
    disk,           \* the jobs file
    senders,        \* ApiState.events: ids with a broadcast channel
    cancellations,  \* ApiState.cancellations: the call whose flag an id maps to
    holder,         \* ApiState.connection_executions: who holds each lock
    call,           \* where each call is, or how it answered
    told,           \* ids some client has learned from an answer
    flag,           \* the cancel flag a call shares with its worker
    worker,         \* where each worker is
    at,             \* how many plan steps a worker has done
    paw,            \* the worker's potentially_accepted_write
    verdict,        \* the final state a worker has computed
    sent,           \* plan positions whose bytes may have reached the printer
    published,      \* the last state sent on an id's broadcast channel
    cancel,         \* where each cancel handler is
    target          \* the id it cancels

apiVars    == <<jobs, disk, senders, cancellations>>
callVars   == <<call, told>>
workVars   == <<worker, at, paw, verdict, sent>>
cancelVars == <<cancel, target>>
procVars   == <<up, crashes>>
vars == <<procVars, apiVars, holder, callVars, flag, workVars, published, cancelVars>>

-----------------------------------------------------------------------------
(* Job states and the maps of jobs.                                        *)

Terminal == {"cancelled-before-send", "cancelled-partial", "outcome-unknown",
             "completed", "failed"}
Live     == {"queued", "cancel-requested"}   \* what the map holds of unfinished jobs
JobState == Live \cup {"running"} \cup Terminal

Job   == [state : Live \cup Terminal, by : Call]
NoJob == [state |-> "absent", by |-> Nobody]
NoJobs == [i \in Id |-> NoJob]

Retained(js) == {i \in Id : js[i] # NoJob}

\* Mutant of KeyHolders: the lookups never find a key.
KeyHolders_Blind(js, c) == {}

\* The retained jobs that carry the idempotency key of call c.
KeyHolders(js, c) ==
    {i \in Retained(js) : KeyOf[c] # NoKey /\ KeyOf[js[i].by] = KeyOf[c]}

SameRequest(i, c) == HashOf[jobs[i].by] = HashOf[c]

\* Mutants of Loaded: unfinished jobs are kept as they are; finished jobs are
\* marked too.
Loaded_AsIs(js) == js
Loaded_All(js) ==
    [i \in Id |-> IF i \in Retained(js) THEN [js[i] EXCEPT !.state = "outcome-unknown"]
                                       ELSE js[i]]

\* load_jobs: whatever had not finished is of unknown outcome now.  The cut to
\* the newest MaxRecent jobs is the identity on every file save_jobs writes.
Loaded(js) ==
    [i \in Id |-> IF js[i].state \in Live
                  THEN [js[i] EXCEPT !.state = "outcome-unknown"]
                  ELSE js[i]]

\* A file that cannot be read is taken for an empty one.
LoadOutcome == IF LoadFaults THEN {Loaded(disk), NoJobs} ELSE {Loaded(disk)}

\* save_jobs: without a path there is nothing to do; otherwise the file is
\* replaced as a whole by a rename, or left as it was.
SaveOutcome == IF Durable /\ SaveFaults THEN BOOLEAN ELSE {TRUE}
Save(js, ok) == disk' = IF Durable /\ ok THEN js ELSE disk

\* Mutant of RequestCancel: a terminal job is not left alone.
RequestCancel_Late(job) == [job EXCEPT !.state = "cancel-requested"]

\* Job::request_cancel
RequestCancel(job) ==
    IF job.state \in Terminal THEN job ELSE [job EXCEPT !.state = "cancel-requested"]

-----------------------------------------------------------------------------
Init ==
    /\ up = TRUE /\ crashes = 0
    /\ jobs = NoJobs /\ disk = NoJobs
    /\ senders = {} /\ cancellations = [i \in Id |-> Nobody]
    /\ holder = [n \in Conn |-> Nobody]
    /\ call = [c \in Call |-> "idle"] /\ told = {}
    /\ flag = [c \in Call |-> FALSE]
    /\ worker = [c \in Call |-> "none"]
    /\ at = [c \in Call |-> 0]
    /\ paw = [c \in Call |-> FALSE]
    /\ verdict = [c \in Call |-> "queued"]
    /\ sent = [c \in Call |-> {}]
    /\ published = [i \in Id |-> "none"]
    /\ cancel = [k \in Canceller |-> "idle"]
    /\ target = [k \in Canceller |-> Nobody]

-----------------------------------------------------------------------------
(* submit.                                                                 *)

Answer(c, answer) == call' = [call EXCEPT ![c] = answer]

\* An answer that returns the job with id i.
Replay(c, i) == Answer(c, "replayed") /\ told' = told \cup {i}

\* The first look at the idempotency key, under the read lock.
Lookup(c) ==
    /\ up /\ call[c] = "idle"
    /\ \/ \E i \in KeyHolders(jobs, c) : SameRequest(i, c) /\ Replay(c, i)
       \/ \E i \in KeyHolders(jobs, c) : ~SameRequest(i, c) /\ Answer(c, "conflict")
                                         /\ UNCHANGED told
       \/ KeyHolders(jobs, c) = {} /\ Answer(c, "planning") /\ UNCHANGED told
    /\ UNCHANGED <<procVars, apiVars, holder, flag, workVars, published, cancelVars>>

\* Validation, rendering or planning fails.
Reject(c) ==
    /\ up /\ call[c] = "planning"
    /\ Answer(c, "rejected")
    /\ UNCHANGED <<procVars, apiVars, holder, told, flag, workVars, published, cancelVars>>

\* Mutant of Removable: a job may be evicted while its worker runs.
Removable_Any(js) == Retained(js)

\* The jobs that may give up their place to a new one: the finished ones.
Removable(js) == {i \in Retained(js) : js[i].state \in Terminal}

\* Mutant of Room: one job too many.
Room_OffByOne(c) ==
    IF Cardinality(Retained(jobs)) > MaxRecent
    THEN {[jobs EXCEPT ![old] = NoJob] : old \in Removable(jobs)}
    ELSE {jobs}

\* The map once call c has made room in it; no way to do so is the empty set.
Room(c) ==
    IF Cardinality(Retained(jobs)) >= MaxRecent
    THEN {[jobs EXCEPT ![old] = NoJob] : old \in Removable(jobs)}
    ELSE {jobs}

\* Mutant of Recheck: only the first lookup counts.
Recheck_Skipped(c) == {}

\* The key again, now that nobody else can insert.
Recheck(c) == KeyHolders(jobs, c)

\* Mutant of AfterSave: the error is ignored.
AfterSave_Ignored(ok) == "inserted"

\* How submit goes on after save_jobs.
AfterSave(ok) == IF ok THEN "inserted" ELSE "unsaved"

\* Under the write lock: the key again, room for one more job, the job, the
\* file.  When the file cannot be saved the call fails, but the job stays.
Insert(c) ==
    /\ up /\ call[c] = "planning"
    /\ \/ /\ \/ \E i \in Recheck(c) : SameRequest(i, c) /\ Replay(c, i)
             \/ \E i \in Recheck(c) : ~SameRequest(i, c) /\ Answer(c, "conflict")
                                               /\ UNCHANGED told
             \/ Recheck(c) = {} /\ Room(c) = {} /\ Answer(c, "busy")
                /\ UNCHANGED told
          /\ UNCHANGED <<jobs, disk>>
       \/ /\ Recheck(c) = {}
          /\ \E room \in Room(c), ok \in SaveOutcome :
                /\ jobs' = [room EXCEPT ![IdOf[c]] = [state |-> "queued", by |-> c]]
                /\ Save(jobs', ok)
                /\ Answer(c, AfterSave(ok))
          /\ UNCHANGED told
    /\ UNCHANGED <<procVars, senders, cancellations, holder, flag, workVars, published,
                   cancelVars>>

RegisterEvents(c) ==
    /\ up /\ call[c] = "inserted"
    /\ Answer(c, "evented")
    /\ senders' = senders \cup {IdOf[c]}
    /\ published' = [published EXCEPT ![IdOf[c]] = "none"]
    /\ UNCHANGED <<procVars, jobs, disk, cancellations, holder, told, flag, workVars,
                   cancelVars>>

RegisterCancellation(c) ==
    /\ up /\ call[c] = "evented"
    /\ Answer(c, "registered")
    /\ cancellations' = [cancellations EXCEPT ![IdOf[c]] = c]
    /\ UNCHANGED <<procVars, jobs, disk, senders, holder, told, flag, workVars, published,
                   cancelVars>>

\* Mutant of Spawn: the worker is started before its flag is registered.
Spawn_Early(c) ==
    /\ up /\ call[c] = "evented"
    /\ Answer(c, "accepted")
    /\ told' = told \cup {IdOf[c]}
    /\ worker' = [worker EXCEPT ![c] = "spawned"]
    /\ UNCHANGED <<procVars, apiVars, holder, flag, at, paw, verdict, sent, published,
                   cancelVars>>

\* Finds the connection's lock, spawns the worker and answers 202.
Spawn(c) ==
    /\ up /\ call[c] = "registered"
    /\ Answer(c, "accepted")
    /\ told' = told \cup {IdOf[c]}
    /\ worker' = [worker EXCEPT ![c] = "spawned"]
    /\ UNCHANGED <<procVars, apiVars, holder, flag, at, paw, verdict, sent, published,
                   cancelVars>>

\* The client disconnects and the server drops the handler at an .await.
Awaiting(c) ==
    \/ call[c] \in {"planning", "inserted", "evented"}
    \/ call[c] = "registered" /\ ConnOf[c] # NoConn

Disconnect(c) ==
    /\ up /\ c \in Fickle /\ Awaiting(c)
    /\ Answer(c, "dropped")
    /\ UNCHANGED <<procVars, apiVars, holder, told, flag, workVars, published, cancelVars>>

-----------------------------------------------------------------------------
(* The worker.                                                             *)

WorkerAt(c, stage) == up /\ worker[c] = stage
Goto(c, stage) == worker' = [worker EXCEPT ![c] = stage]

\* Mutant of LockFree: the connection's lock is not taken.
LockFree_Unlocked(c) == TRUE

\* A job without a saved connection takes no lock.
LockFree(c) == ConnOf[c] # NoConn => holder[ConnOf[c]] = Nobody

\* Mutant of Released: the guard is leaked.
Released_Never(c) == holder

Acquired(c) == [n \in Conn |-> IF n = ConnOf[c] THEN c ELSE holder[n]]
Released(c) == [n \in Conn |-> IF n = ConnOf[c] THEN Nobody ELSE holder[n]]

\* Takes the connection's lock and announces that the job runs.
Begin(c) ==
    /\ WorkerAt(c, "spawned") /\ LockFree(c)
    /\ holder' = Acquired(c)
    /\ Goto(c, "opening")
    /\ published' = [published EXCEPT ![IdOf[c]] = "running"]
    /\ UNCHANGED <<procVars, apiVars, callVars, flag, at, paw, verdict, sent, cancelVars>>

\* Opens the transport of any adapter but IPP.
Open(c) ==
    /\ WorkerAt(c, "opening") /\ c \notin Ipp
    /\ \/ Goto(c, "executing")
       \/ Goto(c, "errored")
    /\ UNCHANGED <<procVars, apiVars, holder, callVars, flag, at, paw, verdict, sent,
                   published, cancelVars>>

WriteSteps == {n \in DOMAIN Plan : Plan[n] = "write"}

\* Cancellable and the IPP path look at the flag before each step, not during it.
Refused(c) == flag[c]

\* The next step is a subscription or a response: refused once cancelled.
ExecuteRead(c) ==
    /\ WorkerAt(c, "executing")
    /\ at[c] < Len(Plan) /\ Plan[at[c] + 1] # "write"
    /\ \/ ~Refused(c) /\ Goto(c, "executing") /\ at' = [at EXCEPT ![c] = @ + 1]
       \/ Goto(c, "errored") /\ UNCHANGED at
    /\ UNCHANGED <<procVars, apiVars, holder, callVars, flag, paw, verdict, sent, published,
                   cancelVars>>

\* The next step is a write.  The native executor records the possible write
\* before it calls the transport, which refuses once cancelled.
ExecuteWrite(c) ==
    /\ WorkerAt(c, "executing")
    /\ at[c] < Len(Plan) /\ Plan[at[c] + 1] = "write"
    /\ paw' = [paw EXCEPT ![c] = TRUE]
    /\ Goto(c, IF Refused(c) THEN "errored" ELSE "writing")
    /\ UNCHANGED <<procVars, apiVars, holder, callVars, flag, at, verdict, sent, published,
                   cancelVars>>

\* The write itself: a cancel that comes now does not stop it.  A write that
\* fails may or may not have reached the printer.
TransportWrite(c) ==
    /\ WorkerAt(c, "writing") /\ at[c] + 1 \in WriteSteps
    /\ \/ /\ Goto(c, "executing")
          /\ at' = [at EXCEPT ![c] = @ + 1]
          /\ sent' = [sent EXCEPT ![c] = @ \cup {at[c] + 1}]
       \/ /\ Goto(c, "errored")
          /\ sent' \in {sent, [sent EXCEPT ![c] = @ \cup {at[c] + 1}]}
          /\ UNCHANGED at
    /\ UNCHANGED <<procVars, apiVars, holder, callVars, flag, paw, verdict, published,
                   cancelVars>>

Executed(c) ==
    /\ WorkerAt(c, "executing")
    /\ at[c] = Len(Plan)
    /\ Goto(c, "succeeded")
    /\ UNCHANGED <<procVars, apiVars, holder, callVars, flag, at, paw, verdict, sent,
                   published, cancelVars>>

\* IPP: queries the loaded media, then runs the plan into a capture buffer.
\* The progress callback reports the capture's writes as the job's own.
IppCapture(c) ==
    /\ WorkerAt(c, "opening") /\ c \in Ipp
    /\ \/ Goto(c, "errored") /\ UNCHANGED paw                        \* query fails, or cancelled
       \/ /\ ~Refused(c)
          /\ \/ Goto(c, "captured") /\ paw' = [paw EXCEPT ![c] = (WriteSteps # {})]
             \/ Goto(c, "errored") /\ \E wrote \in BOOLEAN : paw' = [paw EXCEPT ![c] = wrote]
    /\ UNCHANGED <<procVars, apiVars, holder, callVars, flag, at, verdict, sent, published,
                   cancelVars>>

\* IPP: the last look at the flag.
IppCheck(c) ==
    /\ WorkerAt(c, "captured")
    /\ Goto(c, IF Refused(c) THEN "errored" ELSE "posting")
    /\ UNCHANGED <<procVars, apiVars, holder, callVars, flag, at, paw, verdict, sent, published,
                   cancelVars>>

\* IPP: the whole document in one Print-Job request.
IppPost(c) ==
    /\ WorkerAt(c, "posting")
    /\ \/ Goto(c, "succeeded") /\ sent' = [sent EXCEPT ![c] = WriteSteps]
       \/ /\ Goto(c, "errored")
          /\ \E reached \in SUBSET WriteSteps : sent' = [sent EXCEPT ![c] = reached]
    /\ UNCHANGED <<procVars, apiVars, holder, callVars, flag, at, paw, verdict, published,
                   cancelVars>>

\* Mutant of Outcome: a failed write counts as nothing printed.
Outcome_Optimistic(c) ==
    IF flag[c]
    THEN IF paw[c] THEN "cancelled-partial" ELSE "cancelled-before-send"
    ELSE IF worker[c] = "succeeded" THEN "completed" ELSE "failed"

\* The terminal state of a worker that succeeded or met an error.
Outcome(c) ==
    IF flag[c]
    THEN IF paw[c] THEN "cancelled-partial" ELSE "cancelled-before-send"
    ELSE IF worker[c] = "succeeded" THEN "completed"
    ELSE IF paw[c] THEN "outcome-unknown" ELSE "failed"

\* Reads the flag and fixes the outcome.
Judge(c) ==
    /\ WorkerAt(c, "succeeded") \/ WorkerAt(c, "errored")
    /\ verdict' = [verdict EXCEPT ![c] = Outcome(c)]
    /\ Goto(c, "judged")
    /\ UNCHANGED <<procVars, apiVars, holder, callVars, flag, at, paw, sent, published,
                   cancelVars>>

\* The terminal state goes out on the channel before the map has it.
Publish(c) ==
    /\ WorkerAt(c, "judged")
    /\ Goto(c, "published")
    /\ published' = [published EXCEPT ![IdOf[c]] = verdict[c]]
    /\ UNCHANGED <<procVars, apiVars, holder, callVars, flag, at, paw, verdict, sent,
                   cancelVars>>

\* Overwrites the map's job, saves the file (an error is ignored) and returns,
\* which releases the connection.
Finish(c) ==
    /\ WorkerAt(c, "published")
    /\ jobs' = [jobs EXCEPT ![IdOf[c]] = [state |-> verdict[c], by |-> c]]
    /\ \E ok \in SaveOutcome : Save(jobs', ok)
    /\ holder' = Released(c)
    /\ Goto(c, "done")
    /\ UNCHANGED <<procVars, senders, cancellations, callVars, flag, at, paw, verdict, sent,
                   published, cancelVars>>

-----------------------------------------------------------------------------
(* The cancel handler, for an id some client has been told.                *)

\* The flags once the one that id i maps to is set; there may be none.
Raised(i) == [c \in Call |-> flag[c] \/ cancellations[i] = c]

CancelFlag(k, i) ==
    /\ up /\ cancel[k] = "idle"
    /\ flag' = Raised(i)
    /\ cancel' = [cancel EXCEPT ![k] = "flagged"]
    /\ target' = [target EXCEPT ![k] = i]
    /\ UNCHANGED <<procVars, apiVars, holder, callVars, workVars, published>>

CancelRecord(k) ==
    LET i == target[k] IN
    /\ up /\ cancel[k] = "flagged"
    /\ \/ i \notin Retained(jobs) /\ cancel' = [cancel EXCEPT ![k] = "missing"]
          /\ UNCHANGED <<jobs, disk, published>>
       \/ /\ i \in Retained(jobs)
          /\ jobs' = [jobs EXCEPT ![i] = RequestCancel(@)]
          /\ \E ok \in SaveOutcome :
                /\ Save(jobs', ok)
                /\ cancel' = [cancel EXCEPT ![k] = IF ok THEN "answered" ELSE "unsaved"]
                /\ published' = IF ok /\ i \in senders
                                THEN [published EXCEPT ![i] = jobs'[i].state]
                                ELSE published
    /\ UNCHANGED <<procVars, senders, cancellations, holder, callVars, flag, workVars, target>>

\* The client disconnects between the two steps.
CancelDropped(k) ==
    /\ up /\ cancel[k] = "flagged"
    /\ cancel' = [cancel EXCEPT ![k] = "dropped"]
    /\ UNCHANGED <<procVars, apiVars, holder, callVars, flag, workVars, published, target>>

-----------------------------------------------------------------------------
(* The process.                                                            *)

InFlight == {"planning", "inserted", "evented", "registered"}

\* Everything in memory is gone; the file and the printer stay as they are.
Crash ==
    /\ up /\ crashes < MaxCrashes
    /\ up' = FALSE /\ crashes' = crashes + 1
    /\ jobs' = NoJobs /\ senders' = {} /\ cancellations' = [i \in Id |-> Nobody]
    /\ holder' = [n \in Conn |-> Nobody]
    /\ call' = [c \in Call |-> IF call[c] \in InFlight THEN "dropped" ELSE call[c]]
    /\ worker' = [c \in Call |-> IF worker[c] \in {"none", "done"} THEN worker[c] ELSE "dead"]
    /\ published' = [i \in Id |-> "none"]
    /\ cancel' = [k \in Canceller |-> IF cancel[k] = "flagged" THEN "dropped" ELSE cancel[k]]
    /\ UNCHANGED <<disk, told, flag, at, paw, verdict, sent, target>>

Restart ==
    /\ ~up /\ up' = TRUE
    /\ jobs' \in LoadOutcome
    /\ UNCHANGED <<crashes, disk, senders, cancellations, holder, callVars, flag, workVars,
                   published, cancelVars>>

-----------------------------------------------------------------------------
Submit(c) == Lookup(c) \/ Reject(c) \/ Insert(c) \/ RegisterEvents(c)
             \/ RegisterCancellation(c) \/ Spawn(c)

Work(c) == Begin(c) \/ Open(c) \/ ExecuteRead(c) \/ ExecuteWrite(c) \/ Executed(c)
           \/ TransportWrite(c) \/ IppCapture(c) \/ IppCheck(c) \/ IppPost(c)
           \/ Judge(c) \/ Publish(c) \/ Finish(c)

CancelJob(k) == (\E i \in told : CancelFlag(k, i)) \/ CancelRecord(k) \/ CancelDropped(k)

Next ==
    \/ \E c \in Call : Submit(c) \/ Disconnect(c) \/ Work(c)
    \/ \E k \in Canceller : CancelJob(k)
    \/ Crash \/ Restart

Spec == Init /\ [][Next]_vars

\* A worker has a thread of its own and its transport's calls return, unless it
\* is one that may hang; the service manager starts a service that stopped.
\* Nothing obliges a client to submit or to cancel.
Fairness == WF_vars(Restart) /\ \A c \in Call \ Hanging : WF_vars(Work(c))

FairSpec == Spec /\ Fairness

-----------------------------------------------------------------------------
(* Properties.                                                             *)

Stage == {"none", "spawned", "opening", "executing", "writing", "captured", "posting",
          "succeeded", "errored", "judged", "published", "done", "dead"}

\* Every variable has its type.  In particular the jobs map never holds a job
\* in state "running": that state is only ever sent on the event channel.
TypeOK ==
    /\ up \in BOOLEAN /\ crashes \in 0 .. MaxCrashes
    /\ jobs \in [Id -> Job \cup {NoJob}]
    /\ disk \in [Id -> Job \cup {NoJob}]
    /\ senders \subseteq Id
    /\ cancellations \in [Id -> Call \cup {Nobody}]
    /\ holder \in [Conn -> Call \cup {Nobody}]
    /\ call \in [Call -> InFlight \cup {"idle", "replayed", "conflict", "rejected", "busy",
                                        "unsaved", "accepted", "dropped"}]
    /\ told \subseteq Id
    /\ flag \in [Call -> BOOLEAN]
    /\ worker \in [Call -> Stage]
    /\ at \in [Call -> 0 .. Len(Plan)]
    /\ paw \in [Call -> BOOLEAN]
    /\ verdict \in [Call -> Terminal \cup {"queued"}]
    /\ sent \in [Call -> SUBSET WriteSteps]
    /\ published \in [Id -> JobState \cup {"none"}]
    /\ cancel \in [Canceller -> {"idle", "flagged", "missing", "answered", "unsaved", "dropped"}]
    /\ target \in [Canceller -> Id \cup {Nobody}]

\* The stages in which a worker is inside the connection's critical section.
Busy(c) == worker[c] \in {"opening", "executing", "writing", "captured", "posting",
                          "succeeded", "errored", "judged", "published"}
HasWorker(c) == worker[c] = "spawned" \/ Busy(c)

\* "Only one job can use a connection at a time": two workers of one saved
\* connection never execute together.
ConnectionExclusive ==
    \A c, d \in Call : c # d /\ ConnOf[c] = ConnOf[d] /\ ConnOf[c] # NoConn
                           => ~(Busy(c) /\ Busy(d))

SameKey(c, d) == KeyOf[c] # NoKey /\ KeyOf[c] = KeyOf[d]

\* No two retained jobs carry the same idempotency key, in memory or in the
\* file, however the lookups and inserts of concurrent submissions interleave.
OneJobPerKey ==
    \A js \in {jobs, disk} : \A i, j \in Retained(js) :
        i # j => ~SameKey(js[i].by, js[j].by)

\* An exact retry never starts a second print, across disconnects, failed
\* saves, cancellations and restarts: of all the calls with one key, only one
\* ever puts bytes on the wire.  (While MaxRecent leaves room for every job;
\* an evicted key is forgotten by design.)
OnePrintPerKey ==
    \A c, d \in Call : c # d /\ SameKey(c, d) => sent[c] = {} \/ sent[d] = {}

\* A job whose worker has not finished is retained and not terminal, so that
\* it can be polled and cancelled, and eviction never takes it.
LiveJobRetained ==
    \A c \in Call : HasWorker(c) =>
        jobs[IdOf[c]].by = c /\ jobs[IdOf[c]].state \in Live

\* Never more than max_recent_jobs, in memory or in the file.
RetentionBound ==
    \A js \in {jobs, disk} : Cardinality(Retained(js)) <= MaxRecent

\* The verdict of a retained job is borne out by the printer: nothing was sent
\* of a job that failed or was cancelled before sending, everything of a
\* completed one.
HonestVerdict ==
    \A js \in {jobs, disk} : \A i \in Retained(js) :
        LET c == js[i].by IN
        /\ js[i].state \in {"failed", "cancelled-before-send"} => sent[c] = {}
        /\ js[i].state = "completed" => sent[c] = WriteSteps

\* A terminal state in memory never changes while the process runs: not by a
\* late cancel, not by a worker.  It can only be evicted.
TerminalStands ==
    [][\A i \in Id : up /\ up' /\ jobs[i].state \in Terminal => jobs'[i] \in {jobs[i], NoJob}]_vars

\* Nor does a terminal state in the file, whatever crashes and saves follow.
DurableVerdictStands ==
    [][\A i \in Id : disk[i].state \in Terminal => disk'[i] \in {disk[i], NoJob}]_vars

\* The writes that a worker has asked its transport for and that may yet leave.
InHand(c) ==
    {n \in WriteSteps : worker[c] = "posting" \/ (worker[c] = "writing" /\ n = at[c] + 1)}

\* A cancel that names a job with a worker reaches that worker, whoever else
\* submits under the same key: its flag goes up at once and stays up, nothing
\* is written any more but what the transport had been asked for, and the job
\* ends as cancelled unless its verdict was already fixed.
CancelReachesWorker ==
    [][\A c \in Call :
           /\ \A k \in Canceller :
                  HasWorker(c) /\ cancel[k] = "idle" /\ cancel'[k] = "flagged"
                      /\ target'[k] = IdOf[c] => flag'[c]
           /\ flag[c] =>
                  /\ flag'[c]
                  /\ sent'[c] \subseteq sent[c] \cup InHand(c)
                  /\ InHand(c)' \subseteq InHand(c)
                  /\ verdict'[c] # verdict[c] =>
                         verdict'[c] \in {"cancelled-before-send", "cancelled-partial"}]_vars

\* "Jobs ... cooperatively cancel": a job that reads "cancel-requested" before
\* its worker has asked for any write stays unwritten.  Not so: a client that
\* retries with the same key learns the id before submit registers the flag, so
\* its cancel marks the job and reaches nobody.
EveryCancelReaches ==
    [][\A c \in Call :
           jobs[IdOf[c]] = [state |-> "cancel-requested", by |-> c]
               /\ sent[c] = {} /\ InHand(c) = {} => sent'[c] = {} /\ InHand(c)' = {}]_vars

\* Every unfinished retained job has a worker, or a submission that will still
\* start one (the 429 answer says "all retained jobs are active").
UnfinishedIsActive ==
    \A i \in Retained(jobs) : jobs[i].state \in Live =>
        HasWorker(jobs[i].by) \/ call[jobs[i].by] \in InFlight

\* A transport that hangs keeps its connection's lock.
HeldUp == {c \in Call : \E d \in Hanging : c = d \/ (ConnOf[c] = ConnOf[d] /\ ConnOf[c] # NoConn)}

\* Every accepted job comes to a terminal state that can be polled, also when
\* the process crashes in between; a transport that hangs holds up nothing but
\* the jobs of its own connection.
AcceptedFinishes ==
    \A c \in Call \ HeldUp : call[c] = "accepted" ~>
        jobs[IdOf[c]].by = c /\ jobs[IdOf[c]].state \in Terminal

\* The jobs file is a write-ahead journal of the printer.
Journal == INSTANCE PrintJournal WITH
    Full  <- WriteSteps,
    entry <- [c \in Call |-> IF disk[IdOf[c]].by = c THEN Loaded(disk)[IdOf[c]].state
                                                    ELSE "absent"],
    wire  <- sent

JournalKept == Journal!Spec
=============================================================================
