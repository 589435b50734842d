-------------------------- MODULE JobEventsProofs --------------------------
(***************************************************************************)
(* What the followers of a job are shown, proved: no stream ever shows two *)
(* outcomes, and the one it shows is the job's.                            *)
(***************************************************************************)
EXTENDS JobEvents, JobExecutorProofs, SequenceTheorems

\* Job ids are fresh: submit draws a new UUID for every job.
Own == \A c, d \in Call : IdOf[c] = IdOf[d] => c = d

-----------------------------------------------------------------------------
(* The executor below the streams.                                         *)

\* What the streams add leaves the executor's steps what they are.
LEMMA FeedSteps == [FeedNext]_allVars => [Next]_vars
<1> SUFFICES ASSUME FeedNext PROVE [Next]_vars
    BY DEF allVars
<1>1. ASSUME NEW c \in Call, (Submit(c) \/ Disconnect(c)) /\ Silent PROVE Next
    BY <1>1 DEF Next
<1>2. ASSUME NEW c \in Call, WorkHeard(c) PROVE Next
    BY <1>2 DEF Next, Work, WorkHeard
<1>3. ASSUME NEW k \in Canceller, CancelHeard(k) PROVE Next
    BY <1>3 DEF Next, CancelJob, CancelHeard
<1>4. ASSUME NEW f \in Follower, JobEvents(f) PROVE UNCHANGED vars
    BY <1>4 DEF JobEvents, Snapshot, Subscribe, Hear
<1>5. CrashHeard \/ (Restart /\ Silent) => Next
    BY DEF Next, CrashHeard
<1> QED BY <1>1, <1>2, <1>3, <1>4, <1>5 DEF FeedNext

\* So what holds of the executor holds below the streams.
LEMMA PlacedBelow == FeedSpec => []PlacedInv
<1>1. FeedInit => Init
    BY DEF FeedInit
<1> QED BY <1>1, FeedSteps, PlacedAlways, PTL DEF FeedSpec, Spec

-----------------------------------------------------------------------------
(* Types.                                                                  *)

\* What is left in a channel is some of what was sent on it, and not too much.
LEMMA BufferedPart ==
    ASSUME NEW events \in Seq(JobState)
    PROVE  /\ Buffered(events) \in Seq(JobState) /\ Len(Buffered(events)) <= Slots
           /\ \A n \in DOMAIN Buffered(events) :
                  \E m \in DOMAIN events : Buffered(events)[n] = events[m]
<1> USE SlotsAssumption
<1>1. CASE Len(events) <= Slots
    BY <1>1 DEF Buffered
<1>2. CASE Len(events) > Slots
    <2> DEFINE skipped == Len(events) - Slots
    <2>1. skipped \in Nat /\ Len(events) = skipped + Slots /\ Slots \in Nat
        BY <1>2
    <2>2. Buffered(events) = SubSeq(events, skipped + 1, Len(events))
        BY <1>2 DEF Buffered
    <2>3. /\ Len(SubSeq(events, skipped + 1, Len(events))) = Slots
          /\ SubSeq(events, skipped + 1, Len(events)) \in Seq(JobState)
          /\ \A n \in 1 .. Slots : /\ SubSeq(events, skipped + 1, Len(events))[n] = events[skipped + n]
                                   /\ skipped + n \in DOMAIN events
        <3> HIDE DEF skipped
        <3> QED BY <2>1
    <2>4. DOMAIN Buffered(events) = 1 .. Slots
        <3> HIDE DEF skipped
        <3> QED BY <2>1, <2>2, <2>3
    <2> HIDE DEF skipped
    <2> QED BY ONLY <2>1, <2>2, <2>3, <2>4
<1> QED BY <1>1, <1>2

\* The states a step may send on a channel.
LEMMA SendType ==
    ASSUME FeedTypeOK, NEW i, NEW states \in Seq(JobState), Send(i, states)
    PROVE  FeedTypeOK'
<1>1. ASSUME NEW events \in Seq(JobState)
      PROVE  Buffered(events \o states) \in Seq(JobState)
             /\ Len(Buffered(events \o states)) <= Slots
    <2>1. events \o states \in Seq(JobState)
        BY <1>1
    <2> QED BY <2>1, BufferedPart
<1>2. inbox' \in [Follower -> Seq(JobState)] /\ \A f \in Follower : Len(inbox'[f]) <= Slots
    BY <1>1 DEF Send, FeedTypeOK
<1> QED BY <1>2 DEF Send, FeedTypeOK

\* The progress that the worker sends.
LEMMA ProgressType ==
    ASSUME NEW n \in Nat
    PROVE  /\ Progress(n) \in Seq(JobState)
           /\ \A step \in DOMAIN Progress(n) : Progress(n)[step] = "running"
BY DEF Progress, JobState

\* Every step keeps the types.
LEMMA FeedTypeStep ==
    ASSUME TypeOK, TypeOK', FeedTypeOK, [FeedNext]_allVars
    PROVE  FeedTypeOK'
<1>1. Silent => FeedTypeOK'
    BY DEF Silent, feedVars, FeedTypeOK
<1>2. ASSUME NEW c \in Call, WorkHeard(c)
      PROVE  FeedTypeOK'
    <2>1. <<"running">> \in Seq(JobState) /\ <<verdict[c]>> \in Seq(JobState)
        BY DEF JobState, Live, TypeOK
    <2>2. Len(Plan) \in Nat
        BY CallAssumption
    <2>3. ASSUME NEW states \in Seq(JobState), Send(IdOf[c], states) PROVE FeedTypeOK'
        BY <2>3, SendType
    <2>4. \A n \in 0 .. Len(Plan) : Progress(n) \in Seq(JobState)
        BY <2>2, ProgressType
    <2>5. Progress(Len(Plan)) \in Seq(JobState)
        BY <2>2, <2>4
    <2> QED BY <1>1, <1>2, <2>1, <2>3, <2>4, <2>5 DEF WorkHeard, Announced
<1>3. ASSUME NEW k \in Canceller, CancelHeard(k)
      PROVE  FeedTypeOK'
    <2>1. ASSUME CancelRecord(k), cancel'[k] = "answered"
          PROVE  <<jobs'[target[k]].state>> \in Seq(JobState)
        <3>1. target[k] \in Retained(jobs) /\ jobs'[target[k]] = RequestCancel(jobs[target[k]])
            BY <2>1 DEF CancelRecord, Retained, TypeOK
        <3>2. jobs[target[k]] \in Job
            BY <3>1 DEF Retained, TypeOK
        <3>3. RequestCancel(jobs[target[k]]) \in Job
            BY <3>2, RequestCancelType
        <3> QED BY <3>1, <3>3 DEF Job, JobState
    <2> QED BY <1>1, <1>3, <2>1, SendType DEF CancelHeard
<1>4. ASSUME NEW f \in Follower, JobEvents(f)
      PROVE  FeedTypeOK'
    <2>1. ASSUME NEW i \in told, Snapshot(f, i) PROVE FeedTypeOK'
        <3>1. i \in Id
            BY <2>1 DEF TypeOK
        <3>2. i \in Retained(jobs) => jobs[i].state \in JobState
            BY <3>1 DEF TypeOK, Retained, Job, JobState
        <3> QED BY <2>1, <3>1, <3>2 DEF Snapshot, View, FeedTypeOK
    <2>2. CASE Subscribe(f)
        BY <2>2 DEF Subscribe, FeedTypeOK
    <2>3. CASE Hear(f)
        <3>1. inbox[f] \in Seq(JobState) /\ inbox[f] # <<>>
            BY <2>3 DEF Hear, FeedTypeOK
        <3>2. /\ Head(inbox[f]) \in JobState /\ Tail(inbox[f]) \in Seq(JobState)
              /\ Len(Tail(inbox[f])) = Len(inbox[f]) - 1
            BY <3>1
        <3>3. View(Head(inbox[f]), outcome[f]) \in Terminal \cup {"none"}
            BY DEF View, FeedTypeOK
        <3>4. inbox' \in [Follower -> Seq(JobState)] /\ \A g \in Follower : Len(inbox'[g]) <= Slots
            BY <2>3, <3>2, SlotsAssumption DEF Hear, FeedTypeOK
        <3> QED BY <2>3, <3>2, <3>3, <3>4 DEF Hear, FeedTypeOK
    <2> QED BY <1>4, <2>1, <2>2, <2>3 DEF JobEvents
<1>5. CASE CrashHeard
    BY <1>5, SlotsAssumption DEF CrashHeard, FeedTypeOK
<1> QED BY <1>1, <1>2, <1>3, <1>4, <1>5 DEF FeedNext, allVars, feedVars, Silent

\* Types hold in every reachable state.
LEMMA FeedTyped == FeedSpec => [](PlacedInv /\ FeedTypeOK)
<1>1. FeedInit => FeedTypeOK
    BY SlotsAssumption DEF FeedInit, FeedTypeOK
<1>2. PlacedInv => TypeOK
    BY DEF PlacedInv, HonestInv, KeptInv
<1> QED BY <1>1, <1>2, FeedTypeStep, PlacedBelow, PTL DEF FeedSpec

-----------------------------------------------------------------------------
(* What a follower has been, or will be, shown.                            *)

Watching(f) == follow[f] \in {"snapshot", "following"}

\* The outcomes a follower was shown last or has waiting.
Given(f) == {o \in Terminal : outcome[f] = o \/ \E n \in DOMAIN inbox[f] : inbox[f][n] = o}

\* The call of job i is past its insert.
Past(i) == \A c \in Call : IdOf[c] = i => call[c] \notin {"idle", "planning"}

\* The executor says that o is the outcome of job i, or has evicted it.
Says(i, o) ==
    \/ jobs[i] = NoJob
    \/ jobs[i].state = o
    \/ worker[jobs[i].by] = "published" /\ verdict[jobs[i].by] = o

Follows(f) ==
    /\ Watching(f) => /\ up /\ watched[f] \in Id /\ Past(watched[f])
                      /\ \A o \in Given(f) : Says(watched[f], o)
    /\ \A o, p \in Given(f) : o = p
    /\ follow[f] # "following" => inbox[f] = <<>>
    /\ follow[f] = "idle" => outcome[f] = "none"

ShowInv == \A f \in Follower : Follows(f)

\* A call past its insert stays there.
LEMMA PastStays ==
    ASSUME TypeOK, [Next]_vars, NEW c \in Call, call[c] \notin {"idle", "planning"}
    PROVE  call'[c] \notin {"idle", "planning"}
<1>1. ASSUME NEW d \in Call, Submit(d) \/ Disconnect(d) PROVE call'[c] \notin {"idle", "planning"}
    <2>1. CASE d # c
        BY <1>1, <2>1, SubmitFrame
    <2>2. CASE d = c
        BY <1>1, <2>2 DEF Submit, Lookup, Reject, Insert, RegisterEvents, RegisterCancellation,
                         Spawn, Disconnect, Answer, Replay, AfterSave, TypeOK
    <2> QED BY <2>1, <2>2
<1>2. ASSUME NEW d \in Call, Work(d) PROVE call' = call
    BY <1>2, WorkFrame
<1>3. ASSUME NEW k \in Canceller, CancelJob(k) PROVE call' = call
    BY <1>3, CancelFrame
<1>4. CASE Crash
    BY <1>4 DEF Crash, TypeOK
<1>5. CASE Restart
    BY <1>5 DEF Restart, callVars
<1>6. CASE UNCHANGED vars
    BY <1>6 DEF vars, callVars
<1> QED BY <1>1, <1>2, <1>3, <1>4, <1>5, <1>6 DEF Next

\* Nobody but its own worker moves a worker that has published.
LEMMA PublishedStays ==
    ASSUME KeptInv, [Next]_vars, ~Crash, NEW c \in Call, worker[c] = "published", ~Finish(c)
    PROVE  worker'[c] = "published" /\ verdict'[c] = verdict[c]
<1> USE DEF KeptInv
<1>1. ASSUME NEW d \in Call, Submit(d) \/ Disconnect(d)
      PROVE  worker'[c] = "published" /\ verdict'[c] = verdict[c]
    <2>1. d # c
        BY <1>1, SubmitCall DEF WorkerAccepted
    <2> QED BY <1>1, <2>1 DEF Submit, Lookup, Reject, Insert, RegisterEvents,
                              RegisterCancellation, Spawn, Disconnect, workVars, TypeOK
<1>2. ASSUME NEW d \in Call, Work(d)
      PROVE  worker'[c] = "published" /\ verdict'[c] = verdict[c]
    <2>1. CASE d # c
        BY <1>2, <2>1, WorkOthers
    <2>2. CASE d = c
        BY <1>2, <2>2 DEF Work, WorkerAt, Begin, Open, ExecuteRead, ExecuteWrite, TransportWrite,
                          Executed, IppCapture, IppCheck, IppPost, Judge, Publish
    <2> QED BY <2>1, <2>2
<1>3. ASSUME NEW k \in Canceller, CancelJob(k) PROVE UNCHANGED workVars
    BY <1>3 DEF CancelJob, CancelFlag, CancelRecord, CancelDropped
<1>4. CASE Restart
    BY <1>4 DEF Restart, workVars
<1>5. CASE UNCHANGED vars
    BY <1>5 DEF vars, workVars
<1> QED BY <1>1, <1>2, <1>3, <1>4, <1>5 DEF Next, workVars

\* What the executor says of a job it goes on saying while the process runs.
LEMMA SaysStays ==
    ASSUME PlacedInv, [Next]_vars, ~Crash, up, NEW i \in Id, Past(i),
           NEW o \in Terminal, Says(i, o)
    PROVE  up' /\ Past(i)' /\ Says(i, o)'
<1> USE DEF PlacedInv, HonestInv, KeptInv
<1>1. Past(i)'
    BY PastStays DEF Past
<1>2. ~Restart
    BY DEF Restart
<1>3. MapStep \/ UNCHANGED <<jobs, disk, up>>
    BY <1>2, MapSteps
<1>4. ASSUME jobs'[i] = jobs[i] PROVE Says(i, o)'
    <2>1. CASE jobs[i] = NoJob \/ jobs[i].state = o
        BY <1>4, <2>1 DEF Says
    <2>2. CASE jobs[i] # NoJob /\ jobs[i].state # o
        <3> DEFINE c == jobs[i].by
        <3>1. c \in Call /\ IdOf[c] = i /\ worker[c] = "published" /\ verdict[c] = o
            <4>1. i \in Retained(jobs) /\ jobs[i] \in Job
                BY <2>2 DEF Retained, TypeOK
            <4> QED BY <2>2, <4>1 DEF Says, Job, MapsPlaced, Placed
        <3>2. CASE Finish(c)
            <4>1. jobs'[i] = [state |-> o, by |-> c]
                BY <3>1, <3>2 DEF Finish, TypeOK
            <4> QED BY <4>1 DEF Says
        <3>3. CASE ~Finish(c)
            BY <1>4, <3>1, <3>3, PublishedStays DEF Says
        <3> QED BY <3>2, <3>3
    <2> QED BY <2>1, <2>2
<1>5. ~Inserted(i)
    <2> SUFFICES ASSUME NEW c \in Call, Insert(c), i = IdOf[c]
                 PROVE  FALSE
        BY DEF Inserted
    <2>1. call[c] = "planning"
        BY DEF Insert
    <2> QED BY <2>1 DEF Past
<1>6. ASSUME Ended(i) PROVE Says(i, o)'
    <2>1. PICK c \in Call : /\ Finish(c) /\ i = IdOf[c] /\ Kept(c)
                            /\ jobs'[i] = [state |-> verdict[c], by |-> c]
        BY <1>6 DEF Ended
    <2>2. jobs[i].by = c /\ jobs[i].state \in Live /\ jobs[i].state \notin Terminal
        BY <2>1 DEF Kept, Live, Terminal
    <2>3. jobs[i] # NoJob
        BY <2>2 DEF NoJob, Live
    <2>4. verdict[c] = o
        BY <2>2, <2>3 DEF Says
    <2> QED BY <2>1, <2>4 DEF Says
<1>7. ASSUME Evicted(i) PROVE Says(i, o)'
    BY <1>7 DEF Evicted, Says
<1>8. ASSUME CancelledAt(i) PROVE Says(i, o)'
    <2> DEFINE c == jobs[i].by
    <2>1. /\ i \in Retained(jobs) /\ jobs[i] \in Job /\ jobs[i].state \notin Terminal
          /\ jobs'[i] = [jobs[i] EXCEPT !.state = "cancel-requested"]
        BY <1>8 DEF CancelledAt, Retained, TypeOK, Live, Terminal
    <2>2. c \in Call /\ IdOf[c] = i /\ worker[c] = "published" /\ verdict[c] = o
        BY <2>1 DEF Says, Job, MapsPlaced, Placed, Retained
    <2>3. jobs'[i].by = c /\ jobs'[i].state = "cancel-requested"
        BY <2>1 DEF Job
    <2>4. CASE Finish(c)
        <3>1. jobs'[i] = [state |-> o, by |-> c]
            BY <2>2, <2>4 DEF Finish, TypeOK
        <3> QED BY <3>1 DEF Says
    <2>5. CASE ~Finish(c)
        BY <2>2, <2>3, <2>5, PublishedStays DEF Says
    <2> QED BY <2>4, <2>5
<1> QED BY <1>1, <1>3, <1>4, <1>5, <1>6, <1>7, <1>8 DEF MapStep

-----------------------------------------------------------------------------
(* One outcome.                                                            *)

\* A terminal state that is sent is the one the followers know, if any.
LEMMA SendsOne ==
    ASSUME FeedTypeOK, ShowInv, NEW i \in Id, NEW state \in JobState,
           NEW states \in Seq(JobState), \A n \in DOMAIN states : states[n] = state,
           Send(i, states),
           state \in Terminal => \A o \in Terminal : Says(i, o) /\ jobs[i] # NoJob => o = state,
           state \in Terminal => jobs[i] # NoJob,
           NEW f \in Follower
    PROVE  /\ UNCHANGED <<follow, watched, outcome>>
           /\ Given(f)' \subseteq Given(f) \cup
                    IF follow[f] = "following" /\ watched[f] = i THEN {state} \cap Terminal ELSE {}
           /\ \A o, p \in Given(f)' : o = p
           /\ follow[f] # "following" => inbox'[f] = inbox[f]
<1>1. UNCHANGED <<follow, watched, outcome>>
    BY DEF Send
<1>2. ASSUME follow[f] = "following", watched[f] = i
      PROVE  Given(f)' \subseteq Given(f) \cup ({state} \cap Terminal)
    <2>1. inbox[f] \in Seq(JobState) /\ inbox'[f] = Buffered(inbox[f] \o states)
        BY <1>2 DEF Send, FeedTypeOK
    <2> DEFINE longer == inbox[f] \o states
    <2>2. longer \in Seq(JobState)
        BY <2>1
    <2>3. ASSUME NEW m \in DOMAIN longer
          PROVE  longer[m] = state \/ \E n \in DOMAIN inbox[f] : longer[m] = inbox[f][n]
        <3>1. CASE m <= Len(inbox[f])
            BY <2>1, <3>1
        <3>2. CASE m > Len(inbox[f])
            <4>1. m - Len(inbox[f]) \in DOMAIN states /\ longer[m] = states[m - Len(inbox[f])]
                BY <2>1, <3>2
            <4> QED BY <4>1
        <3> QED BY <2>1, <3>1, <3>2
    <2>4. \A n \in DOMAIN inbox'[f] : inbox'[f][n] = state \/ \E m \in DOMAIN inbox[f] : inbox'[f][n] = inbox[f][m]
        <3>1. \A n \in DOMAIN inbox'[f] : \E m \in DOMAIN longer : inbox'[f][n] = longer[m]
            <4>1. inbox'[f] = Buffered(longer)
                BY <2>1
            <4> HIDE DEF longer
            <4> QED BY <2>2, <4>1, BufferedPart
        <3> HIDE DEF longer
        <3> QED BY <2>3, <3>1
    <2> QED BY <1>1, <2>4 DEF Given
<1>3. ASSUME ~(follow[f] = "following" /\ watched[f] = i)
      PROVE  inbox'[f] = inbox[f] /\ Given(f)' = Given(f)
    <2>1. inbox'[f] = inbox[f]
        BY <1>3 DEF Send
    <2> QED BY <1>1, <2>1 DEF Given
<1>4. ASSUME NEW o \in Given(f)', NEW p \in Given(f)' PROVE o = p
    <2>1. \A q, r \in Given(f) : q = r
        BY DEF ShowInv, Follows
    <2>2. CASE ~(follow[f] = "following" /\ watched[f] = i)
        BY <1>3, <2>1, <2>2
    <2>3. CASE follow[f] = "following" /\ watched[f] = i
        <3>1. \A q \in Given(f) : q \in Terminal /\ Says(i, q)
            BY <2>3 DEF ShowInv, Follows, Watching, Given
        <3>2. \A q \in Given(f) : state \in Terminal => q = state
            BY <3>1
        <3> QED BY <1>2, <2>1, <2>3, <3>2
    <2> QED BY <2>2, <2>3
<1> QED BY <1>1, <1>2, <1>3, <1>4

\* Only a crash stops the process.
LEMMA StaysUp ==
    ASSUME up, [Next]_vars, ~Crash
    PROVE  up'
BY DEF Next, Submit, Lookup, Reject, Insert, RegisterEvents, RegisterCancellation, Spawn,
       Disconnect, Work, Begin, Open, ExecuteRead, ExecuteWrite, TransportWrite,
       Executed, IppCapture, IppCheck, IppPost, Judge, Publish, Finish, CancelJob, CancelFlag, CancelRecord, CancelDropped, Restart,
       procVars, vars

\* A step of the executor that sends nothing leaves the followers in order.
LEMMA QuietShows ==
    ASSUME PlacedInv, ShowInv, [Next]_vars, ~Crash, Silent
    PROVE  ShowInv'
<1> SUFFICES ASSUME NEW f \in Follower PROVE Follows(f)'
    BY DEF ShowInv
<1>1. UNCHANGED <<follow, watched, outcome, inbox>>
    BY DEF Silent, feedVars
<1>2. Given(f)' = Given(f) /\ Given(f) \subseteq Terminal
    BY <1>1 DEF Given
<1>3. Follows(f)
    BY DEF ShowInv
<1>4. ASSUME Watching(f)'
      PROVE  up' /\ Past(watched[f])' /\ \A o \in Given(f) : Says(watched[f], o)'
    <2>1. /\ up /\ watched[f] \in Id /\ Past(watched[f])
          /\ \A o \in Given(f) : Says(watched[f], o)
        BY <1>1, <1>3, <1>4 DEF Follows, Watching
    <2>2. \A o \in Given(f) : Says(watched[f], o)'
        BY <1>1, <1>2, <2>1, SaysStays
    <2>3. PICK i \in Id : i = watched[f]
        BY <2>1
    <2>4. up' /\ Past(i)'
        <3>1. Past(i)'
            BY <2>1, <2>3, PastStays DEF Past, PlacedInv, HonestInv, KeptInv
        <3>2. up'
            BY <2>1, StaysUp
        <3> QED BY <3>1, <3>2
    <2> QED BY <1>1, <2>2, <2>3, <2>4
<1> QED BY <1>1, <1>2, <1>3, <1>4 DEF Follows, Watching

\* One that sends what the executor then says does so too.
LEMMA SendShows ==
    ASSUME PlacedInv, FeedTypeOK, ShowInv, [Next]_vars, ~Crash,
           NEW i \in Id, NEW state \in JobState,
           NEW states \in Seq(JobState), \A n \in DOMAIN states : states[n] = state,
           Send(i, states),
           state \in Terminal => /\ \A o \in Terminal : Says(i, o) => o = state
                                 /\ jobs[i] # NoJob
                                 /\ Says(i, state)'
    PROVE  ShowInv'
<1> SUFFICES ASSUME NEW f \in Follower PROVE Follows(f)'
    BY DEF ShowInv
<1>1. /\ UNCHANGED <<follow, watched, outcome>>
      /\ Given(f)' \subseteq Given(f) \cup
               IF follow[f] = "following" /\ watched[f] = i THEN {state} \cap Terminal ELSE {}
      /\ \A o, p \in Given(f)' : o = p
      /\ follow[f] # "following" => inbox'[f] = inbox[f]
    BY SendsOne
<1>2. Follows(f) /\ Given(f) \subseteq Terminal
    BY DEF ShowInv, Given
<1>3. ASSUME Watching(f)'
      PROVE  /\ up' /\ Past(watched[f])' /\ watched[f] \in Id
             /\ \A o \in Given(f)' : Says(watched[f], o)'
    <2>1. PICK j \in Id : j = watched[f]
        BY <1>1, <1>2, <1>3 DEF Follows, Watching
    <2>2. up /\ Past(j) /\ \A o \in Given(f) : Says(j, o)
        BY <1>1, <1>2, <1>3, <2>1 DEF Follows, Watching
    <2>3. up' /\ Past(j)'
        BY <2>2, StaysUp, PastStays DEF Past, PlacedInv, HonestInv, KeptInv
    <2>4. \A o \in Given(f) : Says(j, o)'
        BY <1>2, <2>2, SaysStays
    <2>5. \A o \in Given(f)' : Says(j, o)'
        BY <1>1, <2>1, <2>4
    <2> QED BY <1>1, <2>1, <2>3, <2>5
<1> QED BY <1>1, <1>2, <1>3 DEF Follows, Watching

\* What the worker sends last is what the map will say.
LEMMA PublishShows ==
    ASSUME PlacedInv, FeedTypeOK, ShowInv, NEW c \in Call, Publish(c),
           Send(IdOf[c], <<Announced(c)>>)
    PROVE  ShowInv'
<1> USE IdAssumption DEF PlacedInv, HonestInv, KeptInv
<1>1. /\ up /\ worker[c] = "judged" /\ worker'[c] = "published"
      /\ jobs' = jobs /\ verdict' = verdict /\ up' = up
    BY DEF Publish, WorkerAt, Goto, TypeOK, procVars, apiVars
<1>2. /\ jobs[IdOf[c]].by = c /\ jobs[IdOf[c]].state \in Live
      /\ jobs[IdOf[c]].state \notin Terminal /\ jobs[IdOf[c]] # NoJob
    BY <1>1 DEF JobKept, HasWorker, Busy, Kept, Live, Terminal, NoJob
<1>3. \A o \in Terminal : ~Says(IdOf[c], o)
    BY <1>1, <1>2 DEF Says
<1>4. Says(IdOf[c], verdict[c])'
    BY <1>1, <1>2 DEF Says
<1>5. Next /\ ~Crash
    BY <1>1 DEF Next, Work, Crash
<1>6. verdict[c] \in JobState /\ IdOf[c] \in Id
    BY DEF JobState, Live, TypeOK
<1>7. <<verdict[c]>> \in Seq(JobState) /\ \A n \in DOMAIN <<verdict[c]>> : <<verdict[c]>>[n] = verdict[c]
    BY <1>6
<1> QED BY <1>7, <1>1, <1>2, <1>3, <1>4, <1>5, <1>6, SendShows DEF Announced

\* A cancel handler sends a terminal state only when it found the job so.
LEMMA CancelShows ==
    ASSUME PlacedInv, FeedTypeOK, ShowInv, NEW k \in Canceller, CancelRecord(k),
           cancel'[k] = "answered", Send(target[k], <<jobs'[target[k]].state>>)
    PROVE  ShowInv'
<1> USE DEF PlacedInv, HonestInv, KeptInv
<1>1. target[k] \in Retained(jobs) /\ jobs' = [jobs EXCEPT ![target[k]] = RequestCancel(@)]
    BY DEF CancelRecord, TypeOK
<1>2. PICK i \in Id : /\ i = target[k] /\ jobs[i] # NoJob /\ jobs[i] \in Job
                      /\ i \in Retained(jobs)
    BY <1>1 DEF Retained, TypeOK
<1>3. jobs'[i] = RequestCancel(jobs[i]) /\ jobs'[i] \in Job
    BY <1>1, <1>2, RequestCancelType DEF TypeOK
<1>4. PICK state \in JobState : state = jobs'[i].state
    BY <1>3 DEF Job, JobState
<1>5. ASSUME state \in Terminal PROVE jobs'[i] = jobs[i]
    BY <1>2, <1>3, <1>4, <1>5 DEF RequestCancel, Job, Terminal
<1>6. ASSUME state \in Terminal, NEW o \in Terminal, Says(i, o)
      PROVE  o = state
    <2>1. jobs[i].state \in Terminal
        BY <1>4, <1>5, <1>6
    <2>2. ~HasWorker(jobs[i].by)
        BY <1>2, <2>1 DEF FinalInv, Final, FinalJob
    <2> QED BY <1>2, <1>4, <1>5, <1>6, <2>2 DEF Says, HasWorker, Busy
<1>7. Says(i, state)'
    BY <1>4 DEF Says
<1>8. Next /\ ~Crash
    BY DEF Next, CancelJob, CancelRecord, Crash
<1>9. /\ Send(i, <<state>>) /\ <<state>> \in Seq(JobState)
      /\ \A n \in DOMAIN <<state>> : <<state>>[n] = state
    BY <1>2, <1>4
<1> QED BY <1>2, <1>6, <1>7, <1>8, <1>9, SendShows

\* What the handler does keeps its follower in order, and the others too.
LEMMA FollowShows ==
    ASSUME Own, PlacedInv, FeedTypeOK, ShowInv, NEW g \in Follower, JobEvents(g)
    PROVE  ShowInv'
<1> USE DEF PlacedInv, HonestInv, KeptInv
<1> SUFFICES ASSUME NEW f \in Follower PROVE Follows(f)'
    BY DEF ShowInv
<1>0. UNCHANGED <<up, jobs, call, worker, verdict>> /\ Follows(f)
    BY DEF JobEvents, Snapshot, Subscribe, Hear, vars, procVars, apiVars, callVars, workVars,
           ShowInv
<1>1. ASSUME f # g PROVE Follows(f)'
    <2>1. UNCHANGED <<follow[f], watched[f], outcome[f], inbox[f]>>
        BY <1>1 DEF JobEvents, Snapshot, Subscribe, Hear, FeedTypeOK
    <2> QED BY <1>0, <2>1 DEF Follows, Watching, Given, Past, Says
<1>2. ASSUME f = g, NEW i \in told, Snapshot(f, i) PROVE Follows(f)'
    <2>1. /\ up /\ follow[f] = "idle" /\ inbox[f] = <<>> /\ outcome[f] = "none" /\ i \in Id
          /\ inbox' = inbox /\ watched'[f] = i
        BY <1>0, <1>2 DEF Snapshot, Follows, FeedTypeOK, TypeOK
    <2>2. CASE i \notin Retained(jobs)
        <3>1. follow'[f] = "missing" /\ outcome' = outcome
            BY <1>2, <2>2 DEF Snapshot, FeedTypeOK
        <3> QED BY <2>1, <3>1 DEF Follows, Watching, Given
    <2>3. CASE i \in Retained(jobs)
        <3>1. /\ follow'[f] = "snapshot"
              /\ outcome'[f] = View(jobs[i].state, "none")
            BY <1>2, <2>1, <2>3 DEF Snapshot, FeedTypeOK
        <3>2. \A o \in Given(f)' : o = jobs[i].state
            BY <2>1, <3>1 DEF Given, View, Terminal
        <3>3. Past(i)
            <4> SUFFICES ASSUME NEW c \in Call, IdOf[c] = i
                         PROVE  call[c] \notin {"idle", "planning"}
                BY DEF Past
            <4>1. /\ jobs[i].by \in Call /\ IdOf[jobs[i].by] = i
                  /\ call[jobs[i].by] \notin {"idle", "planning"}
                BY <2>3 DEF Retained, TypeOK, Job, MapsPlaced, Placed, FinalInv, Final, FinalJob
            <4> QED BY <4>1 DEF Own
        <3>4. Past(watched[f])' /\ \A o \in Given(f)' : Says(watched[f], o)'
            BY <1>0, <2>1, <3>2, <3>3 DEF Past, Says
        <3> QED BY <1>0, <2>1, <3>1, <3>2, <3>4 DEF Follows, Watching
    <2> QED BY <2>2, <2>3
<1>3. ASSUME f = g, Subscribe(f) PROVE Follows(f)'
    <2>1. /\ follow[f] = "snapshot" /\ follow'[f] \in {"following", "missing"}
          /\ UNCHANGED <<watched, outcome, inbox>>
        BY <1>3 DEF Subscribe, FeedTypeOK
    <2> QED BY <1>0, <2>1 DEF Follows, Watching, Given, Past, Says
<1>4. ASSUME f = g, Hear(f) PROVE Follows(f)'
    <2>1. /\ follow[f] = "following" /\ follow'[f] = follow[f] /\ watched'[f] = watched[f]
          /\ inbox[f] \in Seq(JobState) /\ inbox[f] # <<>>
          /\ inbox'[f] = Tail(inbox[f])
          /\ outcome'[f] = View(Head(inbox[f]), outcome[f])
        BY <1>4 DEF Hear, FeedTypeOK
    <2>2. /\ 1 \in DOMAIN inbox[f] /\ Head(inbox[f]) = inbox[f][1]
          /\ \A n \in DOMAIN Tail(inbox[f]) :
                 n + 1 \in DOMAIN inbox[f] /\ Tail(inbox[f])[n] = inbox[f][n + 1]
        BY <2>1
    <2>3. Given(f)' \subseteq Given(f)
        BY <2>1, <2>2 DEF Given, View
    <2> QED BY <1>0, <2>1, <2>3 DEF Follows, Watching, Past, Says
<1> QED BY <1>1, <1>2, <1>3, <1>4 DEF JobEvents

\* Every step leaves the followers in order.
LEMMA ShowStep ==
    ASSUME Own, PlacedInv, FeedTypeOK, ShowInv, [FeedNext]_allVars
    PROVE  ShowInv'
<1> USE DEF PlacedInv, HonestInv, KeptInv
<1>0. [Next]_vars
    BY FeedSteps
<1>1. ASSUME Silent, ~Crash PROVE ShowInv'
    BY <1>0, <1>1, QuietShows
<1>2. ASSUME NEW i \in Id, NEW states \in Seq(JobState), Send(i, states), ~Crash,
             \A n \in DOMAIN states : states[n] = "running"
      PROVE  ShowInv'
    <2>1. "running" \in JobState /\ "running" \notin Terminal
        BY DEF JobState, Terminal
    <2> QED BY <1>0, <1>2, <2>1, SendShows
<1>3. ASSUME NEW c \in Call, Submit(c) \/ Disconnect(c), Silent PROVE ShowInv'
    <2>1. ~Crash
        BY <1>3, SubmitFrame DEF Crash
    <2> QED BY <1>1, <1>3, <2>1
<1>4. ASSUME NEW c \in Call, WorkHeard(c) PROVE ShowInv'
    <2>1. Work(c)
        BY <1>4 DEF WorkHeard, Work
    <2>2. ~Crash
        BY <2>1, WorkFrame DEF Crash
    <2>3. /\ IdOf[c] \in Id /\ <<"running">> \in Seq(JobState) /\ Len(Plan) \in Nat
          /\ \A n \in DOMAIN <<"running">> : <<"running">>[n] = "running"
        BY IdAssumption, CallAssumption DEF JobState
    <2>4. \A n \in 0 .. Len(Plan) :
              /\ Progress(n) \in Seq(JobState)
              /\ \A step \in DOMAIN Progress(n) : Progress(n)[step] = "running"
        BY <2>3, ProgressType
    <2>5. \A n \in 0 .. Len(Plan) : Send(IdOf[c], Progress(n)) => ShowInv'
        BY <1>2, <2>2, <2>3, <2>4
    <2>6. Len(Plan) \in 0 .. Len(Plan)
        BY <2>3
    <2>7. Send(IdOf[c], <<"running">>) => ShowInv'
        BY <1>2, <2>2, <2>3
    <2> QED BY <1>1, <1>4, <2>2, <2>5, <2>6, <2>7, PublishShows DEF WorkHeard
<1>5. ASSUME NEW k \in Canceller, CancelHeard(k) PROVE ShowInv'
    <2>1. CancelJob(k)
        BY <1>5 DEF CancelHeard, CancelJob
    <2>2. ~Crash
        BY <2>1, CancelFrame DEF Crash
    <2> QED BY <1>1, <1>5, <2>2, CancelShows DEF CancelHeard
<1>6. ASSUME NEW f \in Follower, JobEvents(f) PROVE ShowInv'
    BY <1>6, FollowShows
<1>7. ASSUME CrashHeard PROVE ShowInv'
    <2>1. \A f \in Follower : /\ ~Watching(f)' /\ inbox'[f] = <<>> /\ outcome'[f] = outcome[f]
                              /\ follow'[f] = "idle" => follow[f] = "idle"
        BY <1>7 DEF CrashHeard, Watching
    <2>2. \A f \in Follower : \A o, p \in Given(f)' : o = p
        BY <2>1 DEF Given
    <2> QED BY <2>1, <2>2 DEF ShowInv, Follows
<1>8. ASSUME Restart, Silent PROVE ShowInv'
    <2>1. ~Crash
        BY <1>8 DEF Restart, Crash
    <2> QED BY <1>1, <1>8, <2>1
<1>9. ASSUME UNCHANGED allVars PROVE ShowInv'
    BY <1>9 DEF allVars, vars, procVars, apiVars, callVars, workVars, feedVars, ShowInv, Follows,
                Watching, Given, Past, Says
<1> QED BY <1>3, <1>4, <1>5, <1>6, <1>7, <1>8, <1>9 DEF FeedNext

\* The followers are in order in every reachable state.
LEMMA ShowAlways ==
    ASSUME Own
    PROVE  FeedSpec => [](PlacedInv /\ FeedTypeOK /\ ShowInv)
<1>1. FeedInit => ShowInv
    <2> SUFFICES ASSUME FeedInit, NEW f \in Follower PROVE Follows(f)
        BY DEF ShowInv
    <2>1. follow[f] = "idle" /\ inbox[f] = <<>> /\ outcome[f] = "none"
        BY DEF FeedInit
    <2>2. Given(f) = {}
        BY <2>1 DEF Given, Terminal
    <2> QED BY <2>1, <2>2 DEF Follows, Watching
<1>2. PlacedInv /\ FeedTypeOK /\ ShowInv /\ [FeedNext]_allVars => ShowInv'
    BY ShowStep
<1> QED BY <1>1, <1>2, FeedTyped, PTL DEF FeedSpec

-----------------------------------------------------------------------------
(* Theorems.                                                               *)

\* Every variable of the streams has its type, and no channel holds more than
\* its places.
THEOREM FeedTypeCorrect == FeedSpec => []FeedTypeOK
BY FeedTyped, PTL

\* The outcome that a stream has shown is the one in the map, or the one its
\* worker is about to put there.
THEOREM ShownStandsAlways ==
    ASSUME Own
    PROVE  FeedSpec => []ShownStands
<1>1. FeedTypeOK /\ ShowInv => ShownStands
    <2> SUFFICES ASSUME FeedTypeOK, ShowInv, NEW f \in Follower, follow[f] = "following",
                        outcome[f] # "none", watched[f] \in Retained(jobs)
                 PROVE  \/ jobs[watched[f]].state = outcome[f]
                        \/ /\ worker[jobs[watched[f]].by] = "published"
                           /\ verdict[jobs[watched[f]].by] = outcome[f]
        BY DEF ShownStands
    <2>1. outcome[f] \in Given(f)
        BY DEF FeedTypeOK, Given
    <2>2. Says(watched[f], outcome[f]) /\ jobs[watched[f]] # NoJob
        BY <2>1 DEF ShowInv, Follows, Watching, Retained
    <2> QED BY <2>2 DEF Says
<1> QED BY <1>1, ShowAlways, PTL

\* Nobody is ever shown two outcomes of one job.
THEOREM OneOutcome ==
    ASSUME Own
    PROVE  FeedSpec => OneOutcomeShown
<1>1. ASSUME FeedTypeOK, ShowInv, [FeedNext]_allVars, NEW f \in Follower, outcome[f] # "none"
      PROVE  outcome'[f] = outcome[f]
    <2> USE <1>1
    <2>1. ASSUME NEW i, Snapshot(f, i) PROVE FALSE
        BY <2>1 DEF Snapshot, ShowInv, Follows
    <2>2. ASSUME Hear(f) PROVE outcome'[f] = outcome[f]
        <3>1. /\ inbox[f] \in Seq(JobState) /\ inbox[f] # <<>>
              /\ outcome'[f] = View(Head(inbox[f]), outcome[f])
            BY <2>2 DEF Hear, FeedTypeOK
        <3>2. 1 \in DOMAIN inbox[f] /\ Head(inbox[f]) = inbox[f][1]
            BY <3>1
        <3>3. outcome[f] \in Given(f)
            BY DEF FeedTypeOK, Given
        <3>4. Head(inbox[f]) \in Terminal => Head(inbox[f]) \in Given(f)
            BY <3>2 DEF Given
        <3> QED BY <3>1, <3>3, <3>4 DEF View, ShowInv, Follows
    <2>3. ASSUME NEW g \in Follower, JobEvents(g), g # f PROVE outcome'[f] = outcome[f]
        BY <2>3 DEF JobEvents, Snapshot, Subscribe, Hear, FeedTypeOK
    <2>4. ASSUME NEW c \in Call, WorkHeard(c) PROVE outcome' = outcome
        BY <2>4 DEF WorkHeard, Send, Silent, feedVars
    <2>5. ASSUME NEW k \in Canceller, CancelHeard(k) PROVE outcome' = outcome
        BY <2>5 DEF CancelHeard, Send, Silent, feedVars
    <2>6. ASSUME CrashHeard \/ Silent \/ UNCHANGED allVars \/ Subscribe(f)
          PROVE  outcome' = outcome
        BY <2>6 DEF CrashHeard, Silent, allVars, feedVars, Subscribe
    <2> QED BY <2>1, <2>2, <2>3, <2>4, <2>5, <2>6 DEF FeedNext, JobEvents
<1>2. FeedTypeOK /\ ShowInv /\ [FeedNext]_allVars =>
          [\A f \in Follower : outcome[f] # "none" => outcome'[f] = outcome[f]]_allVars
    BY <1>1
<1> QED BY <1>2, ShowAlways, PTL DEF FeedSpec, OneOutcomeShown
=============================================================================
