------------------------------ MODULE JobEvents ------------------------------
(***************************************************************************)
(* The event streams of the jobs: the broadcast channel submit opens for a *)
(* job, what the worker and the cancel handler send on it, and the handler *)
(* of GET /v1/jobs/ID/events, which answers with a snapshot of the job and *)
(* then everything the channel still holds (src/api/jobs.rs).              *)
(*                                                                         *)
(* Every step of JobExecutor is taken as it is; this module adds what the  *)
(* step sends.  An event is the job's state: the counters of JobView are   *)
(* left out.  Job ids are fresh, so a job has one channel.                 *)
(***************************************************************************)
EXTENDS JobExecutor

CONSTANTS
    Follower,    \* executions of the event handler
    Slots        \* places of a broadcast channel (32 in the code)

ASSUME SlotsAssumption == Slots \in Nat \ {0}

VARIABLES
    follow,      \* where each follower is
    watched,     \* the job it follows
    seen,        \* the state it was shown last
    outcome,     \* the last outcome it was shown
    inbox        \* what the channel holds for it

feedVars == <<follow, watched, seen, outcome, inbox>>
allVars  == <<vars, feedVars>>

FeedInit ==
    /\ Init
    /\ follow = [f \in Follower |-> "idle"]
    /\ watched = [f \in Follower |-> Nobody]
    /\ seen = [f \in Follower |-> "none"]
    /\ outcome = [f \in Follower |-> "none"]
    /\ inbox = [f \in Follower |-> <<>>]

\* JobView: a terminal state is the outcome, any other is none.
View(state, before) == IF state \in Terminal THEN state ELSE before

-----------------------------------------------------------------------------
(* What the steps of the executor send.                                    *)

\* Mutant of Buffered: a full channel refuses the new event.
Buffered_Oldest(events) == IF Len(events) > Slots THEN SubSeq(events, 1, Slots) ELSE events

\* A full channel forgets its oldest events; a receiver that lags goes on with
\* the oldest one left.
Buffered(events) ==
    IF Len(events) > Slots THEN SubSeq(events, Len(events) - Slots + 1, Len(events)) ELSE events

\* Sends the given states, one event each.
Send(i, states) ==
    /\ inbox' = [f \in Follower |-> IF follow[f] = "following" /\ watched[f] = i
                                    THEN Buffered(inbox[f] \o states)
                                    ELSE inbox[f]]
    /\ UNCHANGED <<follow, watched, seen, outcome>>

\* The progress of n steps of the plan.
Progress(n) == [step \in 1 .. n |-> "running"]

Silent == UNCHANGED feedVars

\* Mutant of Announced: the event is decided by the plan alone.
Announced_Plain(c) == IF at[c] = Len(Plan) THEN "completed" ELSE "failed"

\* What the worker sends last.
Announced(c) == verdict[c]

\* A step of the worker: it announces that it runs, each finished step of the
\* plan, and the terminal state.  An IPP job announces the steps as it captures
\* them, before any of it is sent.
WorkHeard(c) ==
    \/ Begin(c) /\ Send(IdOf[c], <<"running">>)
    \/ /\ ExecuteRead(c) \/ TransportWrite(c)
       /\ IF at'[c] # at[c] THEN Send(IdOf[c], <<"running">>) ELSE Silent
    \/ /\ IppCapture(c)
       /\ IF worker'[c] = "captured" THEN Send(IdOf[c], Progress(Len(Plan)))
          ELSE \E n \in 0 .. Len(Plan) : Send(IdOf[c], Progress(n))
    \/ Publish(c) /\ Send(IdOf[c], <<Announced(c)>>)
    \/ (Open(c) \/ ExecuteWrite(c) \/ Executed(c) \/ IppCheck(c) \/ IppPost(c) \/ Judge(c)
        \/ Finish(c)) /\ Silent

\* The cancel handler sends the job as it is now, terminal or not.
CancelHeard(k) ==
    \/ (\E i \in told : CancelFlag(k, i)) /\ Silent
    \/ CancelRecord(k) /\ IF cancel'[k] = "answered" /\ target[k] \in senders
                          THEN Send(target[k], <<jobs'[target[k]].state>>)
                          ELSE Silent
    \/ CancelDropped(k) /\ Silent

\* The process takes its streams with it.
CrashHeard ==
    /\ Crash
    /\ follow' = [f \in Follower |-> IF follow[f] = "idle" THEN "idle" ELSE "closed"]
    /\ inbox' = [f \in Follower |-> <<>>]
    /\ UNCHANGED <<watched, seen, outcome>>

-----------------------------------------------------------------------------
(* The handler.                                                            *)

\* Reads the job; without one the answer is 404.
Snapshot(f, i) ==
    /\ up /\ follow[f] = "idle"
    /\ watched' = [watched EXCEPT ![f] = i]
    /\ \/ i \notin Retained(jobs) /\ follow' = [follow EXCEPT ![f] = "missing"]
          /\ UNCHANGED <<seen, outcome>>
       \/ /\ i \in Retained(jobs)
          /\ follow' = [follow EXCEPT ![f] = "snapshot"]
          /\ seen' = [seen EXCEPT ![f] = jobs[i].state]
          /\ outcome' = [outcome EXCEPT ![f] = View(jobs[i].state, @)]
    /\ UNCHANGED <<vars, inbox>>

\* Then, after an await, subscribes.  A job of an earlier process has no
\* channel: 404 too.
Subscribe(f) ==
    /\ up /\ follow[f] = "snapshot"
    /\ follow' = [follow EXCEPT ![f] = IF watched[f] \in senders THEN "following"
                                                                 ELSE "missing"]
    /\ UNCHANGED <<vars, watched, seen, outcome, inbox>>

Hear(f) ==
    /\ follow[f] = "following" /\ inbox[f] # <<>>
    /\ seen' = [seen EXCEPT ![f] = Head(inbox[f])]
    /\ outcome' = [outcome EXCEPT ![f] = View(Head(inbox[f]), @)]
    /\ inbox' = [inbox EXCEPT ![f] = Tail(@)]
    /\ UNCHANGED <<vars, follow, watched>>

JobEvents(f) == (\E i \in told : Snapshot(f, i)) \/ Subscribe(f) \/ Hear(f)

-----------------------------------------------------------------------------
FeedNext ==
    \/ \E c \in Call : (Submit(c) \/ Disconnect(c)) /\ Silent
    \/ \E c \in Call : WorkHeard(c)
    \/ \E k \in Canceller : CancelHeard(k)
    \/ \E f \in Follower : JobEvents(f)
    \/ CrashHeard
    \/ Restart /\ Silent

FeedSpec == FeedInit /\ [][FeedNext]_allVars

\* The workers as in JobExecutor; the server polls a stream while its client
\* is there.
FeedFairness ==
    /\ WF_allVars(Restart /\ Silent)
    /\ \A c \in Call \ Hanging : WF_allVars(WorkHeard(c))
    /\ \A f \in Follower : WF_allVars(Hear(f))

FairFeedSpec == FeedSpec /\ FeedFairness

-----------------------------------------------------------------------------
(* Properties.                                                             *)

FeedTypeOK ==
    /\ follow \in [Follower -> {"idle", "snapshot", "following", "missing", "closed"}]
    /\ watched \in [Follower -> Id \cup {Nobody}]
    /\ seen \in [Follower -> JobState \cup {"none"}]
    /\ outcome \in [Follower -> Terminal \cup {"none"}]
    /\ inbox \in [Follower -> Seq(JobState)]
    /\ \A f \in Follower : Len(inbox[f]) <= Slots

\* The outcome a stream has shown stays true for as long as the process lives:
\* the map still has the unfinished job only until its worker's next step, and
\* says the same from then on.  A cancel-requested shown after the outcome
\* (a cancel handler that came between the worker's send and its insert) does
\* not change it.
ShownStands ==
    \A f \in Follower :
        LET i == watched[f] IN
        follow[f] = "following" /\ outcome[f] # "none" /\ i \in Retained(jobs) =>
            \/ jobs[i].state = outcome[f]
            \/ worker[jobs[i].by] = "published" /\ verdict[jobs[i].by] = outcome[f]

\* Nobody is ever shown two different outcomes of one job, however the events
\* of the worker and of cancel handlers, and a snapshot, come together.
OneOutcomeShown ==
    [][\A f \in Follower : outcome[f] # "none" => outcome'[f] = outcome[f]]_allVars

\* A channel full of cancel-requested while the outcome waits for the map.
Displaced(f, c) ==
    /\ worker[c] = "published"
    /\ inbox[f] = [slot \in 1 .. Slots |-> "cancel-requested"]

\* Whoever subscribes before the job's outcome goes out is shown it, however
\* much of the progress the channel dropped.  Besides the end of the process
\* only one thing can take the outcome away: as many cancel handlers as the
\* channel has places, all between the worker's send and its insert.
OutcomeReachesFollower ==
    \A f \in Follower, c \in Call \ HeldUp :
        follow[f] = "following" /\ watched[f] = IdOf[c] /\ HasWorker(c)
            /\ worker[c] # "published"
        ~> outcome[f] # "none" \/ follow[f] = "closed" \/ Displaced(f, c)
=============================================================================
