------------------------ MODULE DeviceRequestsProofs ------------------------
(***************************************************************************)
(* What the requests beside the executor do to printers, proved: they keep *)
(* to one interface each, and administration reaches the printer that was  *)
(* named and no other.                                                     *)
(***************************************************************************)
EXTENDS DeviceRequests, FiniteSetTheorems, SequenceTheorems, TLAPS

-----------------------------------------------------------------------------
(* How far a session is.                                                   *)

Began(s) == stage[s] \notin {"idle", "done"}

\* The printer that a selector led to is the one it names.
Fit(s) ==
    LET r == request[s]
        p == target[s]
    IN  /\ r.op \in NeedsWireless => Product[p] = "wireless"
        /\ r.op = "report" => Product[p] # None
        /\ at[p] # None /\ Names(p, r.device)
        /\ plugs = 0 => Candidates(r.device) = {p}

Way(s) ==
    /\ Began(s) => request[s] \in Request /\ Allowed(request[s])
    /\ stage[s] \in {"idle", "resolving", "opening", "draining", "opened"} => replies[s] = <<>>
    /\ stage[s] \in {"writing", "reading"} => Len(replies[s]) < Rounds(Op(s))
    /\ stage[s] \in {"draining", "writing", "reading"} => target[s] \in Printer
    /\ stage[s] = "opening" /\ Kind(s) \notin {"selector", "ids", "file"} => target[s] \in Printer \ Usb
    /\ Kind(s) = "selector" /\ target[s] # None
           /\ (stage[s] = "opening" \/ (Began(s) /\ claimed[target[s]] = s)) => Fit(s)

WayInv ==
    /\ RequestTypeOK
    /\ Attached \subseteq Usb
    /\ \A s \in Session : Way(s)

-----------------------------------------------------------------------------
(* Types.                                                                  *)

\* A printer answers with replies, on connections that keep their bound.
LEMMA ChannelType ==
    ASSUME RequestTypeOK, NEW c \in Printer \cup Session, NEW reply \in Replies,
           Len(channel[c]) < QueueLimit,
           channel' = [channel EXCEPT ![c] = Append(@, reply)]
    PROVE  /\ channel' \in [Printer \cup Session -> Seq(Replies)]
           /\ \A d \in Printer \cup Session : Len(channel'[d]) <= QueueLimit
<1>1. channel[c] \in Seq(Replies) /\ QueueLimit \in Nat
    BY DeviceAssumption DEF RequestTypeOK
<1>2. Append(channel[c], reply) \in Seq(Replies)
      /\ Len(Append(channel[c], reply)) = Len(channel[c]) + 1
    BY <1>1
<1> QED BY <1>1, <1>2 DEF RequestTypeOK

\* Taking the first reply keeps them too.
LEMMA TakenType ==
    ASSUME RequestTypeOK, NEW c \in Printer \cup Session, channel[c] # <<>>,
           channel' = [channel EXCEPT ![c] = Tail(@)]
    PROVE  /\ channel' \in [Printer \cup Session -> Seq(Replies)]
           /\ \A d \in Printer \cup Session : Len(channel'[d]) <= QueueLimit
           /\ Head(channel[c]) \in Replies
<1>1. channel[c] \in Seq(Replies) /\ Len(channel[c]) <= QueueLimit /\ QueueLimit \in Nat
    BY DeviceAssumption DEF RequestTypeOK
<1>2. Tail(channel[c]) \in Seq(Replies) /\ Len(Tail(channel[c])) = Len(channel[c]) - 1
      /\ Head(channel[c]) \in Replies
    BY <1>1
<1> QED BY <1>1, <1>2 DEF RequestTypeOK

\* What the outcome of a session's end does to stages and claims.
LEMMA EndType ==
    ASSUME RequestTypeOK, NEW s \in Session, NEW what \in Outcomes, End(s, what)
    PROVE  /\ stage' \in [Session -> Stages] /\ stage'[s] = "done"
           /\ shown' \in [Session -> Outcomes]
           /\ claimed' \in [Printer -> Session \cup {None}]
           /\ \A p \in Printer : claimed'[p] # None => claimed'[p] = claimed[p] /\ claimed[p] # s
           /\ \A t \in Session \ {s} : stage'[t] = stage[t]
BY DeviceAssumption DEF RequestTypeOK, End, Goto, Stages

\* A session that fails ends.
LEMMA FailedEnds ==
    ASSUME NEW s \in Session, Failed(s)
    PROVE  \E what \in Outcomes : End(s, what)
BY DEF Failed, Outcomes

\* Claims that only go away stay in order.
LEMMA ClaimsLeft ==
    ASSUME RequestTypeOK, NEW s \in Session, NEW what \in Outcomes, End(s, what), target' = target
    PROVE  \A p \in Printer : claimed'[p] # None =>
               /\ target'[claimed'[p]] = p
               /\ stage'[claimed'[p]] \in {"draining", "opened", "writing", "reading"}
<1> SUFFICES ASSUME NEW p \in Printer, claimed'[p] # None
             PROVE  /\ target'[claimed'[p]] = p
                    /\ stage'[claimed'[p]] \in {"draining", "opened", "writing", "reading"}
    OBVIOUS
<1>1. claimed'[p] = claimed[p] /\ claimed[p] \in Session \ {s}
    BY EndType DEF RequestTypeOK
<1> QED BY <1>1, EndType DEF RequestTypeOK

\* A session that goes on with what it holds.
LEMMA GoesOn ==
    ASSUME RequestTypeOK, NEW s \in Session,
           NEW next \in {"draining", "opened", "writing", "reading"}, Goto(s, next)
    PROVE  /\ stage' \in [Session -> Stages] /\ stage'[s] = next
           /\ \A t \in Session \ {s} : stage'[t] = stage[t]
           /\ \A p \in Printer : claimed[p] # None =>
                  stage'[claimed[p]] \in {"draining", "opened", "writing", "reading"}
<1>1. /\ stage' \in [Session -> Stages] /\ stage'[s] = next
      /\ \A t \in Session \ {s} : stage'[t] = stage[t]
    BY DEF RequestTypeOK, Goto, Stages
<1>2. ASSUME NEW p \in Printer, claimed[p] # None
      PROVE  stage'[claimed[p]] \in {"draining", "opened", "writing", "reading"}
    <2>1. claimed[p] \in Session
          /\ stage[claimed[p]] \in {"draining", "opened", "writing", "reading"}
        BY <1>2 DEF RequestTypeOK
    <2> QED BY <1>1, <2>1
<1> QED BY <1>1, <1>2

\* The steps of a session keep the types.
LEMMA SessionTypes ==
    ASSUME WayInv, NEW s \in Session, SessionStep(s)
    PROVE  RequestTypeOK'
<1> USE DeviceAssumption DEF WayInv
<1>0. RequestTypeOK /\ Way(s)
    OBVIOUS
<1>1. CASE Resolve(s)
    <2>1. CASE \E p \in Reachable(request[s]) :
                 /\ target' = [target EXCEPT ![s] = p]
                 /\ Goto(s, "opening")
                 /\ UNCHANGED <<claimed, shown>>
        <3>1. PICK p \in Reachable(request[s]) :
                 /\ target' = [target EXCEPT ![s] = p]
                 /\ Goto(s, "opening")
                 /\ UNCHANGED <<claimed, shown>>
            BY <2>1
        <3>2. p \in Printer \cup {None}
            <4>1. request[s] \in Request
                BY <1>0, <1>1 DEF Way, Began, Resolve
            <4> QED BY <4>1, RequestAssumption DEF Reachable, Resolvable, Candidates, Attached
        <3>3. \A q \in Printer : claimed[q] # None => claimed[q] # s /\ claimed[q] \in Session
            <4>1. stage[s] = "resolving"
                BY <1>1 DEF Resolve
            <4> QED BY <1>0, <4>1 DEF RequestTypeOK
        <3> QED BY <1>0, <1>1, <3>1, <3>2, <3>3 DEF Resolve, RequestTypeOK, Goto, Stages, Op
    <2>2. CASE Failed(s) /\ target' = target
        <3>1. PICK what \in Outcomes : End(s, what)
            BY <2>2, FailedEnds
        <3> QED BY <1>0, <1>1, <2>2, <3>1, EndType, ClaimsLeft DEF Resolve, RequestTypeOK, Op
    <2> QED BY <1>1, <2>1, <2>2 DEF Resolve
<1>2. CASE Open(s)
    <2>1. CASE Failed(s)
        <3>1. PICK what \in Outcomes : End(s, what)
            BY <2>1, FailedEnds
        <3> QED BY <1>0, <1>2, <2>1, <3>1, EndType, ClaimsLeft DEF Open, RequestTypeOK, Op
    <2>2. CASE Free(s) /\ ~Failed(s)
        <3>1. /\ stage[s] = "opening" /\ UNCHANGED <<at, inbox, channel, request, target, drained, replies, plugs, shown>>
              /\ \E next \in {"draining", "opened", "writing"} : Goto(s, next)
              /\ claimed' = IF Kind(s) \in Lasting THEN [claimed EXCEPT ![target[s]] = s] ELSE claimed
            BY <1>2, <2>2 DEF Open
        <3>2. stage' \in [Session -> Stages] /\ stage'[s] \in {"draining", "opened", "writing"}
              /\ \A t \in Session \ {s} : stage'[t] = stage[t]
            BY <1>0, <3>1 DEF RequestTypeOK, Goto, Stages
        <3>3. claimed' \in [Printer -> Session \cup {None}]
            BY <1>0, <3>1 DEF RequestTypeOK
        <3>4. ASSUME NEW p \in Printer, claimed'[p] # None
              PROVE  /\ target[claimed'[p]] = p
                     /\ stage'[claimed'[p]] \in {"draining", "opened", "writing", "reading"}
            <4>1. CASE claimed'[p] = claimed[p]
                <5>1. claimed[p] \in Session /\ target[claimed[p]] = p
                      /\ stage[claimed[p]] \in {"draining", "opened", "writing", "reading"}
                    BY <1>0, <3>4, <4>1 DEF RequestTypeOK
                <5>2. claimed[p] # s
                    BY <3>1, <5>1
                <5>3. stage'[claimed[p]] = stage[claimed[p]]
                    BY <3>2, <5>1, <5>2
                <5> QED BY <4>1, <5>1, <5>3
            <4>2. CASE claimed'[p] # claimed[p]
                BY <1>0, <3>1, <3>2, <4>2 DEF RequestTypeOK
            <4> QED BY <4>1, <4>2
        <3> QED BY <1>0, <3>1, <3>2, <3>3, <3>4 DEF RequestTypeOK, Op
    <2> QED BY <1>2, <2>1, <2>2 DEF Open
<1>3. CASE Drain(s)
    <2>1. PICK next \in {"draining", "opened", "writing"} : Goto(s, next)
        <3>1. stage' = stage \/ \E next \in {"opened", "writing"} : Goto(s, next)
            BY <1>3 DEF Drain
        <3>2. stage' = stage => Goto(s, "draining")
            BY <1>0, <1>3 DEF Drain, RequestTypeOK, Goto
        <3> QED BY <3>1, <3>2
    <2>2. /\ channel' \in [Printer \cup Session -> Seq(Replies)]
          /\ \A c \in Printer \cup Session : Len(channel'[c]) <= QueueLimit
        <3>1. target[s] \in Printer
            BY <1>0, <1>3 DEF Drain, Way
        <3> QED BY <1>0, <1>3, <3>1, TakenType DEF Drain, Drainable, RequestTypeOK
    <2>3. drained' \in [Session -> 0..DrainLimit]
        <3>1. drained \in [Session -> 0..DrainLimit] /\ DrainLimit \in Nat
            BY <1>0 DEF RequestTypeOK
        <3>2. drained' = drained
              \/ drained' = [drained EXCEPT ![s] = IF drained[s] < DrainLimit THEN drained[s] + 1 ELSE drained[s]]
            BY <1>3 DEF Drain
        <3> QED BY ONLY <3>1, <3>2
    <2> QED BY <1>0, <1>3, <2>1, <2>2, <2>3, GoesOn DEF Drain, RequestTypeOK, Op
<1>4. CASE Opened(s)
    <2>1. End(s, "connected") /\ "connected" \in Outcomes
        BY <1>4 DEF Opened, Outcomes
    <2> QED BY <1>0, <1>4, <2>1, EndType, ClaimsLeft DEF Opened, RequestTypeOK, Op
<1>5. CASE Write(s)
    <2>1. inbox' \in [Printer -> Seq(Commands)]
        <3>1. target[s] \in Printer
            BY <1>0, <1>5 DEF Write, Way
        <3>2. Command(s) \in Commands
            <4>1. Op(s) \in Administration \cup {"status", "probe", "print"}
                BY <1>0, <1>5, RequestAssumption DEF Write, Way, Began, Op
            <4> QED BY <3>1, <4>1 DEF Command, Commands, Source
        <3>3. Append(inbox[target[s]], Command(s)) \in Seq(Commands)
            BY <1>0, <3>1, <3>2 DEF RequestTypeOK
        <3> QED BY <1>0, <1>5, <3>3 DEF Write, RequestTypeOK
    <2>2. CASE Goto(s, "reading") /\ UNCHANGED <<claimed, shown>>
        <3>1. /\ stage' \in [Session -> Stages]
              /\ \A p \in Printer : claimed[p] # None =>
                     stage'[claimed[p]] \in {"draining", "opened", "writing", "reading"}
            BY <1>0, <2>2, GoesOn
        <3> QED BY <1>0, <1>5, <2>1, <2>2, <3>1 DEF Write, RequestTypeOK, Op
    <2>3. CASE End(s, "connected")
        <3>1. "connected" \in Outcomes
            BY DEF Outcomes
        <3> QED BY <1>0, <1>5, <2>1, <2>3, <3>1, EndType, ClaimsLeft DEF Write, RequestTypeOK, Op
    <2> QED BY <1>5, <2>2, <2>3 DEF Write
<1>6. CASE Read(s)
    <2> DEFINE c == Source(s)
    <2>1. c \in Printer \cup Session /\ channel[c] # <<>>
          /\ channel' = [channel EXCEPT ![c] = Tail(@)]
          /\ replies' = [replies EXCEPT ![s] = Append(@, Head(channel[c]))]
        BY <1>0, <1>6 DEF Read, Source, Way
    <2>2. /\ channel' \in [Printer \cup Session -> Seq(Replies)]
          /\ \A d \in Printer \cup Session : Len(channel'[d]) <= QueueLimit
          /\ Head(channel[c]) \in Replies
        BY <1>0, <2>1, TakenType
    <2>3. /\ replies' \in [Session -> Seq(Replies)]
          /\ Len(replies'[s]) = Len(replies[s]) + 1
          /\ \A t \in Session \ {s} : replies'[t] = replies[t]
        BY <1>0, <2>1, <2>2 DEF RequestTypeOK
    <2>4. \A t \in Session : Len(replies'[t]) <= Rounds(Op(t))
        <3>1. Len(replies[s]) < Rounds(Op(s))
            BY <1>0, <1>6 DEF Read, Way
        <3>2. Len(replies[s]) \in Nat /\ Rounds(Op(s)) \in Nat
            BY <1>0 DEF RequestTypeOK, Rounds
        <3>3. \A t \in Session : Len(replies[t]) <= Rounds(Op(t))
            BY <1>0 DEF RequestTypeOK
        <3>4. ASSUME NEW t \in Session PROVE Len(replies'[t]) <= Rounds(Op(t))
            <4>1. CASE t = s
                BY <2>3, <3>1, <3>2, <4>1
            <4>2. CASE t # s
                BY <2>3, <3>3, <4>2
            <4> QED BY <4>1, <4>2
        <3> QED BY <3>4
    <2>5. CASE Goto(s, "writing") /\ UNCHANGED <<claimed, shown>>
        <3>1. /\ stage' \in [Session -> Stages]
              /\ \A p \in Printer : claimed[p] # None =>
                     stage'[claimed[p]] \in {"draining", "opened", "writing", "reading"}
            BY <1>0, <2>5, GoesOn
        <3> QED BY <1>0, <1>6, <2>2, <2>3, <2>4, <2>5, <3>1 DEF Read, RequestTypeOK, Op
    <2>6. CASE End(s, "connected") \/ Failed(s)
        <3>1. PICK what \in Outcomes : End(s, what)
            BY <2>6, FailedEnds DEF Outcomes
        <3> QED BY <1>0, <1>6, <2>2, <2>3, <2>4, <3>1, EndType, ClaimsLeft DEF Read, RequestTypeOK, Op
    <2> QED BY <1>6, <2>5, <2>6 DEF Read
<1>7. CASE GiveUp(s)
    <2>1. PICK what \in Outcomes : End(s, what)
        BY <1>7, FailedEnds DEF GiveUp
    <2> QED BY <1>0, <1>7, <2>1, EndType, ClaimsLeft DEF GiveUp, RequestTypeOK, Op
<1> QED BY <1>1, <1>2, <1>3, <1>4, <1>5, <1>6, <1>7 DEF SessionStep

\* A request is made; and what the printers do keeps the types.
LEMMA StartTypes ==
    ASSUME WayInv, NEW s \in Session, NEW r \in Request, Start(s, r)
    PROVE  RequestTypeOK'
<1> USE DeviceAssumption DEF WayInv
<1>0. RequestTypeOK /\ Way(s) /\ stage[s] = "idle" /\ replies[s] = <<>>
    BY DEF Start, Way
<1>1. request' \in [Session -> Request \cup {NoRequest}]
      /\ \A t \in Session \ {s} : request'[t] = request[t]
    BY <1>0 DEF Start, RequestTypeOK
<1>2. stage' \in [Session -> Stages] /\ shown' \in [Session -> Outcomes]
      /\ \A t \in Session \ {s} : stage'[t] = stage[t]
    <2>1. PICK next \in {"resolving", "done"} :
              Goto(s, next) /\ shown' \in {shown, [shown EXCEPT ![s] = Unserved(r)]}
        BY DEF Start
    <2>2. stage \in [Session -> Stages] /\ shown \in [Session -> Outcomes]
        BY <1>0 DEF RequestTypeOK
    <2>3. next \in Stages /\ Unserved(r) \in Outcomes
        BY DEF Stages, Outcomes, Unserved
    <2> QED BY ONLY <2>1, <2>2, <2>3 DEF Goto
<1>3. \A t \in Session : Len(replies[t]) <= Rounds(Op(t))'
    <2>1. Len(replies[s]) <= Rounds(Op(s))'
        BY <1>0 DEF Rounds
    <2> QED BY <1>0, <1>1, <2>1 DEF RequestTypeOK, Op, Rounds
<1>4. \A p \in Printer : claimed[p] # None =>
          stage'[claimed[p]] \in {"draining", "opened", "writing", "reading"}
    <2>1. \A p \in Printer : claimed[p] # None => claimed[p] \in Session \ {s}
        BY <1>0 DEF RequestTypeOK
    <2> QED BY <1>0, <1>2, <2>1 DEF RequestTypeOK
<1> QED BY <1>0, <1>1, <1>2, <1>3, <1>4 DEF Start, RequestTypeOK

LEMMA WorldTypes ==
    ASSUME WayInv, NEW p \in Printer, Answer(p) \/ Tell(p) \/ Unplug(p) \/ \E place \in Place : Plug(p, place)
    PROVE  RequestTypeOK'
<1> USE DeviceAssumption DEF WayInv
<1>0. RequestTypeOK
    OBVIOUS
<1>1. CASE Answer(p)
    <2>1. inbox[p] \in Seq(Commands) /\ inbox[p] # <<>>
        BY <1>0, <1>1 DEF Answer, RequestTypeOK
    <2>2. PICK command \in Commands : command = Head(inbox[p])
        BY <2>1
    <2>3. inbox' \in [Printer -> Seq(Commands)]
        <3>1. Tail(inbox[p]) \in Seq(Commands)
            BY <2>1
        <3> QED BY <1>0, <1>1, <3>1 DEF Answer, RequestTypeOK
    <2>4. channel' \in [Printer \cup Session -> Seq(Replies)]
          /\ \A d \in Printer \cup Session : Len(channel'[d]) <= QueueLimit
        <3>1. PICK accepted \in Acceptance(Kind(command.session)) :
                  \/ channel' = channel
                  \/ /\ Answered(command.op) /\ Len(channel[command.via]) < QueueLimit
                     /\ channel' = [channel EXCEPT ![command.via] =
                           Append(@, Reply(command.session, Contents(command.op), accepted))]
            <4>1. \E accepted \in Acceptance(Kind(Head(inbox[p]).session)) :
                  \/ channel' = channel
                  \/ /\ Answered(Head(inbox[p]).op) /\ Len(channel[Head(inbox[p]).via]) < QueueLimit
                     /\ channel' = [channel EXCEPT ![Head(inbox[p]).via] =
                           Append(@, Reply(Head(inbox[p]).session, Contents(Head(inbox[p]).op), accepted))]
                BY ONLY <1>1, ZenonT(30) DEF Answer
            <4> QED BY <2>2, <4>1
        <3>2. accepted \in BOOLEAN
            BY DEF Acceptance
        <3>3. CASE channel' = channel
            BY <1>0, <3>3 DEF RequestTypeOK
        <3>4. CASE channel' # channel
            <4>1. /\ command.via \in Printer \cup Session
                  /\ Reply(command.session, Contents(command.op), accepted) \in Replies
                BY <3>1, <3>2, <3>4 DEF Commands, Replies, Reply, Contents, Answered
            <4> QED BY <1>0, <3>1, <3>4, <4>1, ChannelType
        <3> QED BY <3>3, <3>4
    <2> QED BY <1>0, <1>1, <2>3, <2>4 DEF Answer, RequestTypeOK, sessionVars, Op
<1>2. CASE Tell(p)
    <2>1. Reply(None, "status", TRUE) \in Replies
        BY DEF Reply, Replies
    <2>2. channel' \in [Printer \cup Session -> Seq(Replies)]
          /\ \A d \in Printer \cup Session : Len(channel'[d]) <= QueueLimit
        BY <1>0, <1>2, <2>1, ChannelType DEF Tell
    <2> QED BY <1>0, <1>2, <2>2 DEF Tell, RequestTypeOK, sessionVars, Op
<1>3. CASE Unplug(p)
    <2>1. /\ at' \in [Printer -> Place \cup {None}] /\ plugs' \in 0..MaxPlugs
          /\ inbox' \in [Printer -> Seq(Commands)]
        BY <1>0, <1>3 DEF Unplug, RequestTypeOK
    <2>2. channel' \in [Printer \cup Session -> Seq(Replies)]
          /\ \A d \in Printer \cup Session : Len(channel'[d]) <= QueueLimit
        BY <1>0, <1>3 DEF Unplug, RequestTypeOK
    <2>3. /\ target' \in [Session -> Printer \cup {None}]
          /\ \A s \in Session : stage[s] # "opening" => target'[s] = target[s]
        BY <1>0, <1>3 DEF Unplug, RequestTypeOK
    <2>4. /\ claimed' \in [Printer -> Session \cup {None}]
          /\ \A q \in Printer : claimed'[q] # None =>
                 /\ target'[claimed'[q]] = q
                 /\ stage[claimed'[q]] \in {"draining", "opened", "writing", "reading"}
        <3>1. /\ claimed' \in [Printer -> Session \cup {None}]
              /\ \A q \in Printer : claimed'[q] # None => claimed'[q] = claimed[q]
            BY <1>0, <1>3 DEF Unplug, RequestTypeOK
        <3>2. ASSUME NEW q \in Printer, claimed'[q] # None
              PROVE  /\ target'[claimed'[q]] = q
                     /\ stage[claimed'[q]] \in {"draining", "opened", "writing", "reading"}
            <4>1. claimed'[q] = claimed[q] /\ claimed[q] # None
                BY <3>1, <3>2
            <4>2. /\ claimed[q] \in Session /\ target[claimed[q]] = q
                  /\ stage[claimed[q]] \in {"draining", "opened", "writing", "reading"}
                BY <1>0, <4>1 DEF RequestTypeOK
            <4>3. target'[claimed[q]] = target[claimed[q]]
                BY <2>3, <4>2
            <4> QED BY <4>1, <4>2, <4>3
        <3> QED BY <3>1, <3>2
    <2> QED BY <1>0, <1>3, <2>1, <2>2, <2>3, <2>4 DEF Unplug, RequestTypeOK, Op
<1>4. ASSUME NEW place \in Place, Plug(p, place) PROVE RequestTypeOK'
    BY <1>0, <1>4 DEF Plug, RequestTypeOK, sessionVars, Op
<1> QED BY <1>1, <1>2, <1>3, <1>4

-----------------------------------------------------------------------------
(* The printer that a session has.                                         *)

\* A selector leads to a printer that fits it.
LEMMA ResolvedFits ==
    ASSUME RequestTypeOK, NEW s \in Session, NEW p \in Resolvable(Op(s), request[s].device),
           Op(s) \in Administration \cup {"status", "probe", "print"},
           target' = [target EXCEPT ![s] = p], UNCHANGED <<at, request, plugs>>
    PROVE  Fit(s)'
<1>1. p \in Printer /\ target'[s] = p
    BY DEF RequestTypeOK, Resolvable, Candidates, Attached
<1>2. p \in Candidates(request[s].device) /\ Candidates(request[s].device) = {p}
    BY DEF Resolvable
<1>3. Candidates(request[s].device)' = Candidates(request[s].device)
    BY DEF Candidates, Attached, Names
<1>4. /\ Op(s) \in NeedsWireless => Product[p] = "wireless"
      /\ Op(s) = "report" => Product[p] # None
    BY DEF Resolvable
<1>5. at[p] # None /\ Names(p, request[s].device)
    BY <1>2 DEF Candidates, Attached
<1> QED BY <1>1, <1>2, <1>3, <1>4, <1>5 DEF Fit, Names, Op

\* Fitting lasts while the printer stays where it is.
LEMMA FitStays ==
    ASSUME NEW s \in Session, Fit(s), UNCHANGED <<at, request, target, plugs>>
    PROVE  Fit(s)'
BY DEF Fit, Names, Candidates, Attached

\* A session's own steps keep it on its way.
LEMMA SessionWay ==
    ASSUME WayInv, NEW s \in Session, SessionStep(s), RequestTypeOK'
    PROVE  Way(s)'
<1> USE DeviceAssumption
<1>0. RequestTypeOK /\ Way(s)
    BY DEF WayInv
<1>1. ASSUME Failed(s) \/ End(s, "connected") PROVE Way(s)'
    <2>1. stage'[s] = "done"
        BY <1>0, <1>1 DEF Failed, End, Goto, RequestTypeOK
    <2> QED BY <2>1 DEF Way, Began
<1>2. request' = request
    BY DEF SessionStep, Resolve, Open, Drain, Opened, Write, Read, GiveUp
<1>3. CASE Resolve(s)
    <2>1. ASSUME NEW p \in Reachable(request[s]), target' = [target EXCEPT ![s] = p],
                 Goto(s, "opening")
          PROVE  Way(s)'
        <3>1. stage'[s] = "opening" /\ target'[s] = p /\ stage[s] = "resolving"
            BY <1>0, <1>3, <2>1 DEF Goto, RequestTypeOK, Resolve
        <3>2. /\ request[s] \in Request /\ Allowed(request[s]) /\ replies'[s] = <<>>
              /\ UNCHANGED <<at, plugs>>
            BY <1>0, <1>3, <3>1 DEF Way, Began, Resolve
        <3>3. Kind(s) \notin {"selector", "ids", "file"} => p \in Printer \ Usb
            BY <3>2, RequestAssumption DEF Reachable, Kind
        <3>4. Kind(s) = "selector" => Fit(s)'
            <4>1. Op(s) \in Administration \cup {"status", "probe", "print"}
                BY <3>2, RequestAssumption DEF Op
            <4>2. Kind(s) = "selector" => p \in Resolvable(Op(s), request[s].device)
                BY DEF Reachable, Kind, Op
            <4> QED BY <1>0, <1>2, <2>1, <3>2, <4>1, <4>2, ResolvedFits
        <3> QED BY <1>2, <3>1, <3>2, <3>3, <3>4 DEF Way, Began, Kind, Op
    <2> QED BY <1>1, <1>3, <2>1 DEF Resolve
<1>4. CASE Open(s)
    <2>1. CASE ~Failed(s)
        <3>1. /\ stage[s] = "opening" /\ Free(s)
              /\ UNCHANGED <<at, target, replies, plugs>>
              /\ Goto(s, IF Kind(s) \in {"selector", "ids"} THEN "draining"
                         ELSE IF OpensOnly(request[s]) THEN "opened" ELSE "writing")
            BY <1>4, <2>1 DEF Open
        <3>2. request[s] \in Request /\ Allowed(request[s]) /\ replies'[s] = <<>>
            BY <1>0, <3>1 DEF Way, Began
        <3>3. stage'[s] = IF Kind(s) \in {"selector", "ids"} THEN "draining"
                          ELSE IF OpensOnly(request[s]) THEN "opened" ELSE "writing"
            BY <1>0, <3>1 DEF Goto, RequestTypeOK
        <3>4. stage'[s] \in {"draining", "writing"} => target[s] \in Printer
            <4>1. Kind(s) \in {"selector", "ids"} => target[s] \in Printer
                BY <1>0, <3>1 DEF Free, Lasting, RequestTypeOK
            <4>2. Kind(s) = "file" => OpensOnly(request[s])
                BY DEF OpensOnly, Kind
            <4> QED BY <1>0, <3>1, <3>3, <4>1, <4>2 DEF Way
        <3>5. Kind(s) = "selector" /\ target[s] # None => Fit(s)'
            <4>1. Kind(s) = "selector" /\ target[s] # None => Fit(s)
                <5>1. stage[s] = "opening"
                    BY <3>1
                <5> QED BY ONLY <1>0, <5>1 DEF Way
            <4>2. Fit(s) => Fit(s)'
                BY <1>2, <3>1, FitStays
            <4> QED BY <4>1, <4>2
        <3>6. Len(replies'[s]) < Rounds(Op(s))'
            BY <3>2 DEF Rounds
        <3> QED BY <1>2, <3>1, <3>2, <3>3, <3>4, <3>5, <3>6 DEF Way, Began, Kind
    <2> QED BY <1>1, <2>1
<1>5. CASE Drain(s)
    <2>1. /\ stage[s] = "draining" /\ Held(s) /\ UNCHANGED <<at, claimed, target, replies, plugs>>
          /\ stage'[s] \in {"draining", "opened", "writing"}
        BY <1>0, <1>5 DEF Drain, Goto, RequestTypeOK
    <2>2. /\ request[s] \in Request /\ Allowed(request[s]) /\ replies'[s] = <<>>
          /\ target[s] \in Printer
        BY <1>0, <2>1 DEF Way, Began
    <2>3. Kind(s) = "selector" => Fit(s)'
        BY <1>0, <1>2, <2>1, <2>2, FitStays DEF Way, Began, Held, Lasting
    <2>4. Len(replies'[s]) < Rounds(Op(s))'
        BY <2>2 DEF Rounds
    <2> QED BY <1>2, <2>1, <2>2, <2>3, <2>4 DEF Way, Began, Kind
<1>6. CASE Opened(s) \/ GiveUp(s)
    BY <1>1, <1>6 DEF Opened, GiveUp
<1>7. CASE Write(s) /\ Goto(s, "reading") /\ UNCHANGED claimed
    <2>1. /\ stage[s] = "writing" /\ Held(s) /\ UNCHANGED <<at, target, replies, plugs>>
          /\ stage'[s] = "reading"
        BY <1>0, <1>7 DEF Write, Goto, RequestTypeOK
    <2>2. /\ request[s] \in Request /\ Allowed(request[s]) /\ target[s] \in Printer
          /\ Len(replies[s]) < Rounds(Op(s))
        BY <1>0, <2>1 DEF Way, Began
    <2>3. Kind(s) = "selector" => Fit(s)'
        BY <1>0, <1>2, <2>1, <2>2, FitStays DEF Way, Began, Held, Lasting
    <2> QED BY <1>2, <2>1, <2>2, <2>3 DEF Way, Began, Kind, Op
<1>8. CASE Read(s) /\ Goto(s, "writing") /\ UNCHANGED claimed /\ Len(replies[s]) + 1 < Rounds(Op(s))
    <2>1. /\ stage[s] = "reading" /\ Held(s) /\ UNCHANGED <<at, target, plugs>>
          /\ stage'[s] = "writing"
        BY <1>0, <1>8 DEF Read, Goto, RequestTypeOK
    <2>2. request[s] \in Request /\ Allowed(request[s]) /\ target[s] \in Printer
        BY <1>0, <2>1 DEF Way, Began
    <2>3. Len(replies'[s]) = Len(replies[s]) + 1
        BY <1>0, <1>8 DEF Read, RequestTypeOK
    <2>4. Kind(s) = "selector" => Fit(s)'
        BY <1>0, <1>2, <2>1, <2>2, FitStays DEF Way, Began, Held, Lasting
    <2> QED BY <1>2, <1>8, <2>1, <2>2, <2>3, <2>4 DEF Way, Began, Kind, Op
<1> QED BY <1>1, <1>3, <1>4, <1>5, <1>6, <1>7, <1>8 DEF SessionStep, Write, Read

\* A step that changes nothing a session sees keeps it on its way.
LEMMA WayStays ==
    ASSUME WayInv, NEW t \in Session,
           UNCHANGED <<at, request, plugs, stage[t], target[t], replies[t]>>,
           \A p \in Printer : claimed'[p] = t => claimed[p] = t
    PROVE  Way(t)'
<1>1. Way(t) /\ target[t] \in Printer \cup {None}
    BY DEF WayInv, RequestTypeOK
<1>2. Fit(t) => Fit(t)'
    BY DEF Fit, Names, Candidates, Attached
<1> QED BY <1>1, <1>2 DEF Way, Began, Kind, Op

\* A session's step changes nothing of the other sessions.
LEMMA OthersWay ==
    ASSUME WayInv, NEW s \in Session, SessionStep(s), NEW t \in Session \ {s}
    PROVE  Way(t)'
<1> USE DeviceAssumption
<1>0. RequestTypeOK
    BY DEF WayInv
<1>1. UNCHANGED <<at, request, plugs>>
    BY DEF SessionStep, Resolve, Open, Drain, Opened, Write, Read, GiveUp
<1>2. stage'[t] = stage[t]
    BY <1>0 DEF SessionStep, Resolve, Open, Drain, Opened, Write, Read, GiveUp, Failed, End, Goto,
           RequestTypeOK
<1>3. target'[t] = target[t] /\ replies'[t] = replies[t]
    BY <1>0 DEF SessionStep, Resolve, Open, Drain, Opened, Write, Read, GiveUp, RequestTypeOK
<1>4. \A p \in Printer : claimed'[p] = t => claimed[p] = t
    <2>1. ASSUME NEW what, End(s, what), NEW p \in Printer, claimed'[p] = t PROVE claimed[p] = t
        BY <2>1 DEF End
    <2>2. Failed(s) => \E what : End(s, what)
        BY DEF Failed
    <2>3. ASSUME NEW p \in Printer, claimed' = [claimed EXCEPT ![target[s]] = s], claimed'[p] = t
          PROVE  claimed[p] = t
        BY <1>0, <2>3 DEF RequestTypeOK
    <2> QED BY <2>1, <2>2, <2>3 DEF SessionStep, Resolve, Open, Drain, Opened, Write, Read, GiveUp
<1> QED BY <1>1, <1>2, <1>3, <1>4, WayStays

\* A request that is made is on its way, if it is allowed.
LEMMA StartWay ==
    ASSUME WayInv, NEW s \in Session, NEW r \in Request, Start(s, r), NEW t \in Session
    PROVE  Way(t)'
<1>0. RequestTypeOK /\ Way(t) /\ stage[s] = "idle"
    BY DEF WayInv, Start
<1>1. CASE t # s
    <2>1. /\ stage'[t] = stage[t] /\ request'[t] = request[t]
          /\ UNCHANGED <<at, claimed, target, replies, plugs>>
        BY <1>0, <1>1 DEF Start, Goto, RequestTypeOK
    <2>2. Fit(t) => Fit(t)'
        BY <2>1 DEF Fit, Names, Candidates, Attached
    <2> QED BY <1>0, <2>1, <2>2 DEF Way, Began, Kind, Op
<1>2. CASE t = s
    <2>1. request'[s] = r /\ replies'[s] = <<>>
        BY <1>0, <1>2 DEF Start, RequestTypeOK, Way
    <2>2. stage'[s] = "done" \/ (stage'[s] = "resolving" /\ Allowed(r))
        BY <1>0 DEF Start, Goto, RequestTypeOK
    <2>3. \A p \in Printer : claimed'[p] # s
        <3>1. claimed' = claimed
            BY DEF Start
        <3>2. \A p \in Printer : claimed[p] # None => stage[claimed[p]] # "idle"
            BY <1>0 DEF RequestTypeOK
        <3>3. s # None
            BY DeviceAssumption
        <3> QED BY <1>0, <3>1, <3>2, <3>3
    <2>4. target'[s] \in Printer \cup {None}
        BY <1>0 DEF Start, RequestTypeOK
    <2> QED BY <1>2, <2>1, <2>2, <2>3, <2>4 DEF Way, Began
<1> QED BY <1>1, <1>2

\* Printers that answer, speak or are plugged leave every session on its way.
LEMMA WorldWay ==
    ASSUME WayInv, NEW p \in Printer, Answer(p) \/ Tell(p) \/ Unplug(p) \/ \E place \in Place : Plug(p, place),
           NEW t \in Session
    PROVE  Way(t)' /\ (Attached \subseteq Usb)'
<1> USE DeviceAssumption
<1>0. RequestTypeOK /\ Way(t) /\ Attached \subseteq Usb
    BY DEF WayInv
<1>1. CASE Answer(p) \/ Tell(p)
    <2>1. UNCHANGED <<at, request, plugs, stage, target, replies, claimed>>
        BY <1>1 DEF Answer, Tell, sessionVars
    <2>2. Way(t)'
        BY <2>1, WayStays
    <2> QED BY <1>0, <2>1, <2>2 DEF Attached
<1>2. CASE Unplug(p)
    <2>1. /\ UNCHANGED <<request, stage, replies>> /\ at[p] # None /\ plugs' = plugs + 1 /\ plugs \in Nat
          /\ \A q \in Printer : /\ at'[q] = IF q = p THEN None ELSE at[q]
                                /\ claimed'[q] = IF q = p THEN None ELSE claimed[q]
          /\ target'[t] = IF target[t] = p /\ stage[t] = "opening" THEN None ELSE target[t]
        BY <1>0, <1>2 DEF Unplug, RequestTypeOK
    <2>2. p \in Usb
        BY <1>0, <2>1 DEF Attached
    <2>3. ASSUME Fit(t), target[t] \in Printer, target[t] # p, target'[t] = target[t]
          PROVE  Fit(t)'
        <3>1. plugs' # 0
            BY <2>1
        <3> QED BY <2>1, <2>3, <3>1 DEF Fit, Names
    <2>4. target[t] \in Printer \cup {None}
        BY <1>0 DEF RequestTypeOK
    <2>5. Way(t)'
        BY <1>0, <2>1, <2>2, <2>3, <2>4 DEF Way, Began, Kind, Op
    <2>6. (Attached \subseteq Usb)'
        BY <1>0, <2>1 DEF Attached
    <2> QED BY <2>5, <2>6
<1>3. ASSUME NEW place \in Place, Plug(p, place) PROVE Way(t)' /\ (Attached \subseteq Usb)'
    <2>1. /\ UNCHANGED <<claimed, request, stage, target, replies>> /\ p \in Usb /\ at[p] = None
          /\ plugs' = plugs + 1 /\ plugs \in Nat
          /\ \A q \in Printer : at'[q] = IF q = p THEN place ELSE at[q]
        BY <1>0, <1>3 DEF Plug, sessionVars, RequestTypeOK
    <2>2. target[t] \in Printer \cup {None}
        BY <1>0 DEF RequestTypeOK
    <2>5. ASSUME Fit(t), target[t] \in Printer PROVE Fit(t)'
        <3>1. target[t] # p /\ plugs' # 0
            BY <2>1, <2>5 DEF Fit
        <3> QED BY <2>1, <2>5, <3>1 DEF Fit, Names
    <2>3. Way(t)'
        BY <1>0, <2>1, <2>2, <2>5 DEF Way, Began, Kind, Op
    <2>4. (Attached \subseteq Usb)'
        BY <1>0, <2>1 DEF Attached
    <2> QED BY <2>3, <2>4
<1> QED BY <1>1, <1>2, <1>3

\* Every step keeps the types, and every session on its way.
LEMMA WayStep == WayInv /\ [Next]_vars => WayInv'
<1> SUFFICES ASSUME WayInv, [Next]_vars PROVE WayInv'
    OBVIOUS
<1>1. ASSUME NEW s \in Session, SessionStep(s) PROVE WayInv'
    <2>1. RequestTypeOK'
        BY <1>1, SessionTypes
    <2>2. \A t \in Session : Way(t)'
        BY <1>1, <2>1, SessionWay, OthersWay
    <2>3. at' = at
        BY <1>1 DEF SessionStep, Resolve, Open, Drain, Opened, Write, Read, GiveUp
    <2> QED BY <2>1, <2>2, <2>3 DEF WayInv, Attached
<1>2. ASSUME NEW s \in Session, NEW r \in Request, Start(s, r) PROVE WayInv'
    <2>1. at' = at
        BY <1>2 DEF Start
    <2> QED BY <1>2, <2>1, StartTypes, StartWay DEF WayInv, Attached
<1>3. ASSUME NEW p \in Printer,
             Answer(p) \/ Tell(p) \/ Unplug(p) \/ \E place \in Place : Plug(p, place)
      PROVE  WayInv'
    <2>1. RequestTypeOK'
        BY <1>3, WorldTypes
    <2>2. (Attached \subseteq Usb)'
        <3>1. CASE Answer(p) \/ Tell(p)
            BY <3>1 DEF Answer, Tell, WayInv, Attached
        <3>2. CASE Unplug(p)
            BY <3>2 DEF Unplug, WayInv, RequestTypeOK, Attached
        <3>3. ASSUME NEW place \in Place, Plug(p, place) PROVE (Attached \subseteq Usb)'
            BY <3>3 DEF Plug, WayInv, RequestTypeOK, Attached
        <3> QED BY <1>3, <3>1, <3>2, <3>3
    <2> QED BY <1>3, <2>1, <2>2, WorldWay DEF WayInv
<1>4. CASE UNCHANGED vars
    BY <1>4 DEF vars, sessionVars, WayInv, RequestTypeOK, Attached, Way, Began, Fit, Names,
                Candidates, Kind, Op
<1> QED BY <1>1, <1>2, <1>3, <1>4 DEF Next

\* It holds at first, and in every reachable state.
LEMMA WayInit == Init => WayInv
<1> SUFFICES ASSUME Init PROVE WayInv
    OBVIOUS
<1> USE DeviceAssumption
<1>1. RequestTypeOK
    BY DEF Init, RequestTypeOK, Stages, Outcomes, Rounds, Op
<1>2. \A s \in Session : Way(s)
    BY DEF Init, Way, Began
<1>3. Attached \subseteq Usb
    BY DEF Init, Attached
<1> QED BY <1>1, <1>2, <1>3 DEF WayInv

LEMMA WayAlways == Spec => []WayInv
BY WayInit, WayStep, PTL DEF Spec

-----------------------------------------------------------------------------
(* Theorems.                                                               *)

\* Every variable has its type, and no two sessions have one interface: what
\* is claimed is claimed by the session that has the printer for its target.
THEOREM RequestTypeCorrect == Spec => []RequestTypeOK
<1>1. WayInv => RequestTypeOK
    BY DEF WayInv
<1> QED BY <1>1, WayAlways, PTL

\* Only a session's write sends commands, to the printer it has.
LEMMA WhoCommands ==
    ASSUME [Next]_vars, NEW c \in commands' \ commands
    PROVE  \E s \in Session : Write(s) /\ c = [session |-> s, to |-> target[s]]
<1>1. ASSUME NEW s \in Session, SessionStep(s), ~Write(s) PROVE commands' = commands
    BY <1>1 DEF SessionStep, Resolve, Open, Drain, Opened, Read, GiveUp
<1>2. ASSUME NEW s \in Session, NEW r \in Request, Start(s, r) PROVE commands' = commands
    BY <1>2 DEF Start
<1>3. ASSUME NEW p \in Printer,
             Answer(p) \/ Tell(p) \/ Unplug(p) \/ \E place \in Place : Plug(p, place)
      PROVE  commands' = commands
    BY <1>3 DEF Answer, Tell, Unplug, Plug
<1>4. UNCHANGED vars => commands' = commands
    BY DEF vars
<1>5. PICK s \in Session : Write(s)
    BY <1>1, <1>2, <1>3, <1>4 DEF Next
<1> QED BY <1>5 DEF Write

\* Whatever is plugged, opened and abandoned meanwhile, an administration
\* command goes to a printer that the request names and that has what it
\* administers, and to no other of the same name.
THEOREM NamedAdministered == Spec => AdministersTheNamed
<1>1. ASSUME WayInv, [Next]_vars, NEW c \in commands' \ commands,
             request[c.session].op \in Administration
      PROVE  /\ Product[c.to] # None
             /\ request[c.session].op \in NeedsWireless => Product[c.to] = "wireless"
             /\ Names(c.to, request[c.session].device)
             /\ plugs = 0 => Candidates(request[c.session].device) = {c.to}
    <2>1. PICK s \in Session : Write(s) /\ c = [session |-> s, to |-> target[s]]
        BY <1>1, WhoCommands
    <2>2. c.session = s /\ c.to = target[s]
        BY <2>1
    <2>3. /\ stage[s] = "writing" /\ Held(s) /\ Way(s)
          /\ request[s].op \in Administration
        BY <1>1, <2>1, <2>2 DEF Write, WayInv
    <2>4. Kind(s) = "selector" /\ target[s] \in Printer
        BY <2>3 DEF Way, Began, Allowed, Kind
    <2>5. Fit(s)
        BY <2>3, <2>4, DeviceAssumption DEF Way, Began, Held, Lasting
    <2>6. Product[target[s]] # None
        BY <2>3, <2>5, DeviceAssumption DEF Fit, Administration, NeedsWireless
    <2> QED BY <2>2, <2>5, <2>6 DEF Fit
<1>2. WayInv /\ [Next]_vars =>
          [\A c \in commands' \ commands :
              LET r == request[c.session]
              IN  r.op \in Administration =>
                      /\ Product[c.to] # None
                      /\ r.op \in NeedsWireless => Product[c.to] = "wireless"
                      /\ Names(c.to, r.device)
                      /\ plugs = 0 => Candidates(r.device) = {c.to}]_vars
    BY <1>1
<1> QED BY <1>2, WayAlways, PTL DEF Spec, AdministersTheNamed

-----------------------------------------------------------------------------
(* Replies that are left behind.                                           *)

\* Printers on the bus that speak only when they are asked.
Quiet == Usb \cap Silent

\* What a printer has to answer and what it has answered.
Waiting(p) == Len(inbox[p]) + Len(channel[p])

\* No more is left behind at an interface than opening it throws away.
FewLeft ==
    \A s \in Session :
        stage[s] = "opening" /\ target[s] \in Quiet /\ claimed[target[s]] = None
            => Waiting(target[s]) <= DrainLimit

\* Commands of one session, or replies to it.
Alone(s, entries) == \A i \in DOMAIN entries : entries[i].session = s

\* A session finds its printer by its kind of link, and what comes in on a
\* connection of its own is its own.
Line(s) ==
    /\ stage[s] \in {"idle", "resolving"} => target[s] = None
    /\ stage[s] \in {"idle", "resolving", "opening"} => drained[s] = 0
    /\ Kind(s) \in {"selector", "ids"} => target[s] \in Usb \cup {None}
    /\ Kind(s) \notin {"selector", "ids"} => target[s] \notin Usb
    /\ Alone(s, channel[s])
    /\ s \notin late /\ target[s] \in Silent /\ Kind(s) # "serial" => Alone(s, replies[s])

\* A command is answered where it came in.
Routed(p) == \A i \in DOMAIN inbox[p] : inbox[p][i].via \in {p, inbox[p][i].session}

\* While a session empties an endpoint, it can still throw away all that waits;
\* after that, if nothing is to come, only its own is there.
Clean(p) ==
    LET s == claimed[p]
    IN  p \in Quiet /\ s # None =>
            /\ stage[s] = "draining" => Waiting(p) + drained[s] <= DrainLimit
            /\ stage[s] \in {"writing", "reading"} /\ s \notin late
                   => Alone(s, inbox[p]) /\ Alone(s, channel[p])

LinkInv ==
    /\ WayInv
    /\ \A s \in Session : Line(s)
    /\ \A p \in Printer : Routed(p) /\ Clean(p)

\* The entries of a sequence that grew by one, and of one that lost its first.
LEMMA Grown ==
    ASSUME NEW S, NEW entries \in Seq(S), NEW e \in S
    PROVE  /\ Len(Append(entries, e)) = Len(entries) + 1
           /\ \A i \in DOMAIN Append(entries, e) :
                  \/ i \in DOMAIN entries /\ Append(entries, e)[i] = entries[i]
                  \/ Append(entries, e)[i] = e
OBVIOUS

LEMMA Shrunk ==
    ASSUME NEW S, NEW entries \in Seq(S), entries # <<>>
    PROVE  /\ Len(Tail(entries)) = Len(entries) - 1 /\ Len(entries) \in Nat
           /\ Tail(entries) \in Seq(S) /\ Head(entries) \in S
           /\ 1 \in DOMAIN entries /\ Head(entries) = entries[1]
           /\ \A i \in DOMAIN Tail(entries) : i + 1 \in DOMAIN entries /\ Tail(entries)[i] = entries[i + 1]
OBVIOUS

\* What is one session's stays so.
LEMMA AloneKept ==
    ASSUME NEW S, NEW entries \in Seq(S), NEW e \in S, NEW s, Alone(s, entries)
    PROVE  /\ e.session = s => Alone(s, Append(entries, e))
           /\ entries # <<>> => Alone(s, Tail(entries)) /\ Head(entries).session = s
<1>1. e.session = s => Alone(s, Append(entries, e))
    BY Grown DEF Alone
<1>2. entries # <<>> => Alone(s, Tail(entries)) /\ Head(entries).session = s
    BY Shrunk DEF Alone
<1> QED BY <1>1, <1>2

LEMMA NothingIsAlone == \A s : Alone(s, <<>>)
BY DEF Alone

\* A session that keeps its target and its replies, and does not go back to
\* where it had none, stays on its line.
LEMMA LineStays ==
    ASSUME LinkInv, NEW t \in Session,
           UNCHANGED <<request[t], target[t], replies[t]>>, Alone(t, channel'[t]), late \subseteq late',
           \/ stage'[t] = stage[t] /\ (drained'[t] = drained[t] \/ stage[t] = "draining")
           \/ stage'[t] \notin {"idle", "resolving", "opening"}
    PROVE  Line(t)'
<1>1. Line(t)
    BY DEF LinkInv
<1> QED BY <1>1 DEF Line, Kind, Alone

\* A session has what it claimed, and only that.
LEMMA HeldByOne ==
    ASSUME LinkInv, NEW s \in Session, NEW p \in Printer, claimed[p] = s
    PROVE  target[s] = p /\ stage[s] \in {"draining", "opened", "writing", "reading"}
BY DeviceAssumption DEF LinkInv, WayInv, RequestTypeOK

\* What comes in on the connection of another is not touched by a session.
LEMMA SessionConnections ==
    ASSUME LinkInv, NEW s \in Session, SessionStep(s), NEW t \in Session
    PROVE  Alone(t, channel'[t])
<1> USE DeviceAssumption
<1>0. Alone(t, channel[t]) /\ RequestTypeOK /\ Way(s)
    BY DEF LinkInv, Line, WayInv
<1>1. channel[t] \in Seq(Replies)
    BY <1>0 DEF RequestTypeOK
<1>2. CASE Drain(s)
    <2>1. target[s] \in Printer
        BY <1>0, <1>2 DEF Drain, Way
    <2>2. channel'[t] = channel[t]
        BY <1>0, <1>2, <2>1 DEF Drain, RequestTypeOK
    <2> QED BY <1>0, <2>2
<1>3. CASE Read(s)
    <2>1. channel'[t] = channel[t] \/ (channel[t] # <<>> /\ channel'[t] = Tail(channel[t]))
        BY <1>0, <1>3 DEF Read, RequestTypeOK
    <2> QED BY <1>0, <1>1, <2>1, AloneKept
<1>4. CASE UNCHANGED channel
    BY <1>0, <1>4
<1> QED BY <1>2, <1>3, <1>4 DEF SessionStep, Resolve, Open, Opened, Write, GiveUp

\* A session's steps keep every session on its line.
LEMMA SessionLines ==
    ASSUME LinkInv, NEW s \in Session, SessionStep(s), NEW t \in Session
    PROVE  Line(t)'
<1> USE DeviceAssumption
<1>0. RequestTypeOK /\ Way(s) /\ Line(s) /\ Attached \subseteq Usb
    BY DEF LinkInv, WayInv
<1>1. Alone(t, channel'[t]) /\ request' = request /\ late \subseteq late'
    BY SessionConnections DEF SessionStep, Resolve, Open, Drain, Opened, Write, Read, GiveUp
<1>2. CASE t # s
    <2>1. UNCHANGED <<stage[t], target[t], replies[t], drained[t]>>
        BY <1>0, <1>2 DEF SessionStep, Resolve, Open, Drain, Opened, Write, Read, GiveUp, Failed, End,
               Goto, RequestTypeOK
    <2> QED BY <1>1, <2>1, LineStays
<1>3. CASE t = s
    <2>1. CASE Resolve(s) /\ ~Failed(s)
        <3>1. PICK p \in Reachable(request[s]) :
                  /\ target' = [target EXCEPT ![s] = p] /\ Goto(s, "opening")
            BY <2>1 DEF Resolve
        <3>2. /\ stage[s] = "resolving" /\ UNCHANGED <<drained, replies>>
              /\ request[s] \in Request
            BY <1>0, <2>1 DEF Resolve, Way, Began
        <3>3. /\ Kind(s) \in {"selector", "ids"} => p \in Usb
              /\ Kind(s) \notin {"selector", "ids"} => p \notin Usb
            BY <1>0, <3>2, RequestAssumption DEF Reachable, Resolvable, Candidates, Attached, Kind
        <3>4. stage'[s] = "opening" /\ target'[s] = p /\ replies'[s] = <<>> /\ drained'[s] = 0
            BY <1>0, <3>1, <3>2 DEF Goto, RequestTypeOK, Way, Line
        <3> QED BY <1>1, <1>3, <3>3, <3>4, NothingIsAlone DEF Line, Kind
    <2>2. CASE Read(s)
        <3> DEFINE c == Source(s)
        <3>1. c \in Printer \cup Session /\ channel[c] # <<>> /\ stage[s] = "reading" /\ Held(s)
              /\ UNCHANGED <<target, late, drained>>
              /\ replies' = [replies EXCEPT ![s] = Append(@, Head(channel[c]))]
            BY <1>0, <2>2 DEF Read, Source, Way
        <3>2. stage'[s] \in {"writing", "done"}
            BY <1>0, <2>2 DEF Read, Failed, End, Goto, RequestTypeOK
        <3>3. ASSUME s \notin late, target[s] \in Silent, Kind(s) # "serial"
              PROVE  Alone(s, replies'[s])
            <4>1. Alone(s, replies[s]) /\ replies[s] \in Seq(Replies) /\ channel[c] \in Seq(Replies)
                BY <1>0, <3>1, <3>3 DEF Line, RequestTypeOK
            <4>2. Alone(s, channel[c])
                <5>1. CASE Kind(s) \in {"selector", "ids"}
                    <6>1. c \in Quiet /\ claimed[c] = s /\ c \in Printer
                        BY <1>0, <3>1, <3>3, <5>1 DEF Source, Lasting, Held, Line, Quiet
                    <6>2. Clean(c)
                        BY <6>1 DEF LinkInv
                    <6> QED BY <3>1, <3>3, <6>1, <6>2 DEF Clean
                <5>2. CASE Kind(s) \notin {"selector", "ids"}
                    BY <1>0, <3>3, <5>2 DEF Source, Lasting, Line
                <5> QED BY <5>1, <5>2
            <4>3. Head(channel[c]) \in Replies /\ Head(channel[c]).session = s
                BY <3>1, <4>1, <4>2, AloneKept, Shrunk
            <4>4. replies'[s] = Append(replies[s], Head(channel[c]))
                BY <1>0, <3>1 DEF RequestTypeOK
            <4> QED BY <4>1, <4>3, <4>4, AloneKept
        <3> QED BY <1>0, <1>1, <1>3, <3>1, <3>2, <3>3 DEF Line, Kind
    <2>3. CASE ~Read(s) /\ ~(Resolve(s) /\ ~Failed(s))
        <3>1. target' = target /\ replies' = replies
            <4>1. Goto(s, "opening") => ~Failed(s)
                BY <1>0 DEF Failed, End, Goto, RequestTypeOK
            <4> QED BY <2>3, <4>1 DEF SessionStep, Resolve, Open, Drain, Opened, Write, GiveUp
        <3>2. CASE Drain(s)
            <4>1. \/ stage'[s] = stage[s] /\ stage[s] = "draining"
                  \/ stage'[s] \notin {"idle", "resolving", "opening"}
                BY <1>0, <3>2 DEF Drain, Goto, RequestTypeOK
            <4> QED BY <1>1, <1>3, <3>1, <4>1, LineStays
        <3>3. CASE ~Drain(s)
            <4>1. stage'[s] \notin {"idle", "resolving", "opening"}
                BY <1>0, <2>3, <3>3 DEF SessionStep, Resolve, Open, Opened, Write, GiveUp, Failed, End,
                       Goto, RequestTypeOK
            <4> QED BY <1>1, <1>3, <3>1, <4>1, LineStays
        <3> QED BY <3>2, <3>3
    <2> QED BY <2>1, <2>2, <2>3
<1> QED BY <1>2, <1>3

\* An answer is for the session whose command it answers, and comes back the
\* way that the command came.
LEMMA AnswerReturns ==
    ASSUME LinkInv, NEW p \in Printer, Answer(p)
    PROVE  /\ inbox[p] \in Seq(Commands) /\ inbox[p] # <<>> /\ Head(inbox[p]) \in Commands
           /\ inbox' = [inbox EXCEPT ![p] = Tail(inbox[p])]
           /\ Head(inbox[p]).via \in {p, Head(inbox[p]).session}
           /\ \E reply \in Replies :
                  /\ reply.session = Head(inbox[p]).session
                  /\ \/ channel' = channel
                     \/ channel' = [channel EXCEPT ![Head(inbox[p]).via] =
                                        Append(channel[Head(inbox[p]).via], reply)]
<1>1. inbox[p] # <<>> /\ inbox[p] \in Seq(Commands) /\ inbox' = [inbox EXCEPT ![p] = Tail(inbox[p])]
    BY DEF Answer, LinkInv, WayInv, RequestTypeOK
<1>2. PICK command \in Commands : command = Head(inbox[p]) /\ command = inbox[p][1] /\ 1 \in DOMAIN inbox[p]
    BY <1>1, Shrunk
<1>3. command.via \in {p, command.session}
    BY <1>2 DEF LinkInv, Routed
<1>4. PICK accepted \in Acceptance(Kind(command.session)) :
          \/ channel' = channel
          \/ /\ Answered(command.op)
             /\ channel' = [channel EXCEPT ![command.via] =
                    Append(channel[command.via], Reply(command.session, Contents(command.op), accepted))]
    <2>1. \E accepted \in Acceptance(Kind(Head(inbox[p]).session)) :
          \/ channel' = channel
          \/ /\ Answered(Head(inbox[p]).op)
             /\ channel' = [channel EXCEPT ![Head(inbox[p]).via] =
                   Append(channel[Head(inbox[p]).via],
                          Reply(Head(inbox[p]).session, Contents(Head(inbox[p]).op), accepted))]
        BY ONLY Answer(p), ZenonT(30) DEF Answer
    <2> QED BY <1>2, <2>1
<1>5. accepted \in BOOLEAN
    BY DEF Acceptance
<1>6. Answered(command.op) => Reply(command.session, Contents(command.op), accepted) \in Replies
    BY <1>5 DEF Commands, Replies, Reply, Contents, Answered
<1>7. Reply(command.session, Contents(command.op), accepted).session = command.session
    BY DEF Reply
<1>8. \E reply \in Replies :
          /\ reply.session = command.session
          /\ \/ channel' = channel
             \/ channel' = [channel EXCEPT ![command.via] = Append(channel[command.via], reply)]
    <2>1. CASE channel' = channel
        <3>1. [session |-> command.session, contents |-> "status", accepted |-> TRUE] \in Replies
            BY DEF Replies, Commands
        <3> QED BY <2>1, <3>1
    <2>2. CASE channel' # channel
        BY <1>4, <1>6, <1>7, <2>2
    <2> QED BY <2>1, <2>2
<1> QED BY <1>1, <1>2, <1>3, <1>8

\* Requests that are made, and what printers do, keep every session on its line.
LEMMA OtherLines ==
    ASSUME LinkInv, NEW t \in Session,
           \/ \E s \in Session, r \in Request : Start(s, r)
           \/ \E p \in Printer : Answer(p) \/ Tell(p) \/ Unplug(p) \/ \E place \in Place : Plug(p, place)
    PROVE  Line(t)'
<1> USE DeviceAssumption
<1>0. RequestTypeOK /\ Line(t) /\ Way(t) /\ t \notin Printer
    BY DEF LinkInv, WayInv
<1>1. ASSUME NEW s \in Session, NEW r \in Request, Start(s, r) PROVE Line(t)'
    <2>1. /\ stage[s] = "idle" /\ UNCHANGED <<target, replies, drained, channel, late>>
          /\ request' = [request EXCEPT ![s] = r]
          /\ stage'[s] \in {"resolving", "done"} /\ \A u \in Session \ {s} : stage'[u] = stage[u]
        BY <1>0, <1>1 DEF Start, Goto, RequestTypeOK
    <2>2. CASE t = s
        <3>1. target[s] = None /\ drained[s] = 0 /\ replies[s] = <<>> /\ Alone(s, channel[s])
            BY <1>0, <2>1, <2>2 DEF Line, Way
        <3> QED BY <2>1, <2>2, <3>1, NothingIsAlone DEF Line
    <2>3. CASE t # s
        <3>1. UNCHANGED <<request[t], target[t], replies[t], stage[t], drained[t]>> /\ late \subseteq late'
              /\ Alone(t, channel'[t])
            BY <1>0, <2>1, <2>3 DEF RequestTypeOK, Line
        <3> QED BY <3>1, LineStays
    <2> QED BY <2>2, <2>3
<1>2. ASSUME NEW p \in Printer, Answer(p) PROVE Line(t)'
    <2>1. UNCHANGED <<request, target, replies, stage, drained, late>>
        BY <1>2 DEF Answer, sessionVars
    <2>2. Alone(t, channel'[t])
        <3>1. PICK reply \in Replies :
                  /\ reply.session = Head(inbox[p]).session
                  /\ \/ channel' = channel
                     \/ channel' = [channel EXCEPT ![Head(inbox[p]).via] =
                                        Append(channel[Head(inbox[p]).via], reply)]
            BY <1>2, AnswerReturns
        <3>2. Head(inbox[p]).via \in {p, Head(inbox[p]).session}
            BY <1>2, AnswerReturns
        <3>3. Alone(t, channel[t]) /\ channel[t] \in Seq(Replies)
              /\ channel \in [Printer \cup Session -> Seq(Replies)]
            BY <1>0 DEF Line, RequestTypeOK
        <3>4. channel'[t] = channel[t] \/ (reply.session = t /\ channel'[t] = Append(channel[t], reply))
            BY <1>0, <3>1, <3>2, <3>3
        <3>5. reply.session = t => Alone(t, Append(channel[t], reply))
            BY <3>3, AloneKept
        <3> QED BY <3>3, <3>4, <3>5
    <2> QED BY <2>1, <2>2, LineStays
<1>3. ASSUME NEW p \in Printer, Tell(p) \/ \E place \in Place : Plug(p, place) PROVE Line(t)'
    <2>1. UNCHANGED <<request, target, replies, stage, drained, late>> /\ channel'[t] = channel[t]
        BY <1>0, <1>3 DEF Tell, Plug, sessionVars, RequestTypeOK
    <2> QED BY <1>0, <2>1, LineStays DEF Line
<1>4. ASSUME NEW p \in Printer, Unplug(p) PROVE Line(t)'
    <2>1. UNCHANGED <<request, replies, stage, drained, late>> /\ channel'[t] = channel[t]
          /\ target'[t] = IF target[t] = p /\ stage[t] = "opening" THEN None ELSE target[t]
        BY <1>0, <1>4 DEF Unplug, RequestTypeOK
    <2> QED BY <1>0, <2>1 DEF Line, Kind
<1> QED BY <1>1, <1>2, <1>3, <1>4

\* Every step keeps commands answered where they came in.
LEMMA RoutedStep ==
    ASSUME LinkInv, [Next]_vars, NEW p \in Printer
    PROVE  Routed(p)'
<1> USE DeviceAssumption
<1>0. RequestTypeOK /\ Routed(p) /\ inbox[p] \in Seq(Commands)
    BY DEF LinkInv, WayInv, RequestTypeOK
<1>1. CASE inbox'[p] = inbox[p]
    BY <1>0, <1>1 DEF Routed
<1>2. CASE inbox'[p] = <<>>
    BY <1>2 DEF Routed
<1>3. CASE inbox[p] # <<>> /\ inbox'[p] = Tail(inbox[p])
    BY <1>0, <1>3, Shrunk DEF Routed
<1>4. ASSUME NEW s \in Session, Write(s), inbox'[p] = Append(inbox[p], Command(s)), target[s] = p
      PROVE  Routed(p)'
    <2>1. Command(s) \in Commands
        <3>1. Way(s) /\ stage[s] = "writing"
            BY <1>4 DEF LinkInv, WayInv, Write
        <3>2. Op(s) \in Administration \cup {"status", "probe", "print"}
            BY <3>1, RequestAssumption DEF Way, Began, Op
        <3> QED BY <1>4, <3>2 DEF Command, Commands, Source
    <2>2. Command(s).via \in {p, Command(s).session}
        BY <1>4 DEF Command, Source
    <2> QED BY <1>0, <1>4, <2>1, <2>2, Grown DEF Routed
<1>5. ASSUME NEW s \in Session, Write(s)
      PROVE  inbox'[p] = inbox[p] \/ (inbox'[p] = Append(inbox[p], Command(s)) /\ target[s] = p)
    BY <1>0, <1>5 DEF Write, RequestTypeOK
<1>6. ASSUME NEW q \in Printer, Answer(q)
      PROVE  inbox'[p] = inbox[p] \/ (inbox[p] # <<>> /\ inbox'[p] = Tail(inbox[p]))
    BY <1>0, <1>6 DEF Answer, RequestTypeOK
<1>7. ASSUME NEW q \in Printer, Unplug(q) PROVE inbox'[p] \in {inbox[p], <<>>}
    BY <1>0, <1>7 DEF Unplug, RequestTypeOK
<1>8. CASE UNCHANGED inbox
    BY <1>1, <1>8
<1>9. ASSUME NEW s \in Session, SessionStep(s), ~Write(s) PROVE UNCHANGED inbox
    BY <1>9 DEF SessionStep, Resolve, Open, Drain, Opened, Read, GiveUp
<1> QED BY <1>1, <1>2, <1>3, <1>4, <1>5, <1>6, <1>7, <1>8, <1>9 DEF Next, Start, Tell, Plug, vars

\* An endpoint at which nothing happens stays clean while its session goes on
\* as it was, stops talking, or has gone.
LEMMA CleanStays ==
    ASSUME LinkInv, NEW p \in Printer, UNCHANGED <<inbox[p], channel[p]>>, late \subseteq late',
           \/ claimed'[p] = None
           \/ /\ claimed'[p] = claimed[p]
              /\ UNCHANGED <<stage[claimed[p]], drained[claimed[p]]>>
    PROVE  Clean(p)'
<1>1. Clean(p)
    BY DEF LinkInv
<1> QED BY <1>1 DEF Clean, Waiting, Alone

\* The link of a session that has a quiet printer.
LEMMA QuietLink ==
    ASSUME LinkInv, NEW s \in Session, target[s] \in Quiet
    PROVE  Kind(s) \in {"selector", "ids"} /\ Source(s) = target[s]
BY DEF LinkInv, Line, Quiet, Source, Lasting

\* A session under way does not touch the endpoint that another has.
LEMMA KeepsOff ==
    ASSUME LinkInv, NEW s \in Session, NEW p \in Quiet, claimed[p] # s, Held(s)
    PROVE  target[s] # p /\ Source(s) # p
<1>1. target[s] # p
    BY QuietLink DEF Held, Lasting
<1>2. s # p
    BY DeviceAssumption DEF Quiet
<1> QED BY <1>1, <1>2 DEF Source

\* What is thrown away no longer waits, and at the limit nothing waits.
LEMMA Room ==
    ASSUME NEW a \in Nat, NEW b \in Nat, NEW d \in Nat, NEW limit \in Nat, a + b + d <= limit
    PROVE  a + (b - 1) + (d + 1) <= limit /\ (~(d < limit) => b = 0)
OBVIOUS

\* One more or one less of what waits.
LEMMA Sums ==
    ASSUME NEW a \in Nat, NEW b \in Nat
    PROVE  a + b \in Nat /\ a + (b - 1) = (a + b) - 1 /\ (a + 1) + b = (a + b) + 1
OBVIOUS

\* A command that is answered waits as a reply at most.
LEMMA Moved ==
    ASSUME NEW a \in Nat, NEW b \in Nat, NEW c \in Int, NEW d \in Nat, c = a - 1, d <= b + 1
    PROVE  c + d <= a + b /\ c + d \in Int /\ a + b \in Nat
OBVIOUS

\* The endpoint that a session has stays clean through its own steps.
LEMMA OwnClean ==
    ASSUME LinkInv, NEW s \in Session, SessionStep(s), NEW p \in Quiet, claimed[p] = s
    PROVE  Clean(p)'
<1> USE DeviceAssumption
<1>0. RequestTypeOK /\ Way(s) /\ p \in Printer /\ Clean(p)
    BY DEF LinkInv, WayInv, Quiet
<1>1. target[s] = p /\ Source(s) = p /\ stage[s] \in {"draining", "opened", "writing", "reading"}
    BY <1>0, HeldByOne, QuietLink
<1>2. /\ inbox[p] \in Seq(Commands) /\ channel[p] \in Seq(Replies)
      /\ drained[s] \in Nat /\ DrainLimit \in Nat
    BY <1>0 DEF RequestTypeOK
<1>3. CASE claimed'[p] = None
    BY <1>3 DEF Clean
<1>4. ASSUME Failed(s) \/ End(s, "connected") PROVE claimed'[p] = None
    BY <1>0, <1>4 DEF Failed, End, RequestTypeOK
<1>5. CASE Drain(s) /\ Drainable(s)
    <2>1. /\ stage[s] = "draining" /\ UNCHANGED <<claimed, inbox, stage>>
          /\ channel[p] # <<>> /\ channel'[p] = Tail(channel[p]) /\ drained'[s] = drained[s] + 1
        BY <1>0, <1>1, <1>5 DEF Drain, Drainable, RequestTypeOK
    <2>2. Len(channel'[p]) = Len(channel[p]) - 1 /\ Len(channel[p]) \in Nat /\ Len(inbox[p]) \in Nat
        BY <1>2, <2>1, Shrunk
    <2>3. Waiting(p) + drained[s] <= DrainLimit
        BY <1>0, <2>1 DEF Clean
    <2>4. (Waiting(p) + drained[s] <= DrainLimit)'
        <3>1. Len(inbox[p]) + Len(channel[p]) + drained[s] <= DrainLimit
            BY <2>3 DEF Waiting
        <3>2. Len(inbox[p]) + (Len(channel[p]) - 1) + (drained[s] + 1) <= DrainLimit
            BY <1>2, <2>2, <3>1, Room
        <3> QED BY <2>1, <2>2, <3>2 DEF Waiting
    <2> QED BY <2>1, <2>4 DEF Clean
<1>6. CASE Drain(s) /\ ~Drainable(s)
    <2>1. /\ stage[s] = "draining" /\ UNCHANGED <<claimed, inbox, channel>>
          /\ stage'[s] \in {"opened", "writing"}
          /\ late' = IF inbox[p] # <<>> THEN late \cup {s} ELSE late
          /\ channel[p] = <<>> \/ ~(drained[s] < DrainLimit)
        BY <1>0, <1>1, <1>6 DEF Drain, Drainable, Goto, RequestTypeOK
    <2>2. Waiting(p) + drained[s] <= DrainLimit
        BY <1>0, <2>1 DEF Clean
    <2>3. channel[p] = <<>>
        <3>1. Len(channel[p]) = 0 => channel[p] = <<>>
            BY <1>2
        <3>2. Len(channel[p]) \in Nat /\ Len(inbox[p]) \in Nat
            BY <1>2
        <3>3. Len(inbox[p]) + Len(channel[p]) + drained[s] <= DrainLimit
            BY <2>2 DEF Waiting
        <3>4. ~(drained[s] < DrainLimit) => Len(channel[p]) = 0
            BY <1>2, <3>2, <3>3, Room
        <3> QED BY <2>1, <3>1, <3>4
    <2>4. s \notin late' => inbox[p] = <<>>
        BY <2>1
    <2> QED BY <2>1, <2>3, <2>4, NothingIsAlone DEF Clean
<1>7. CASE Write(s) /\ ~End(s, "connected")
    <2>1. /\ UNCHANGED <<claimed, channel, late>> /\ stage[s] = "writing" /\ stage'[s] = "reading"
          /\ inbox'[p] = Append(inbox[p], Command(s))
        BY <1>0, <1>1, <1>7 DEF Write, Goto, RequestTypeOK
    <2>2. ASSUME s \notin late PROVE Alone(s, inbox'[p]) /\ Alone(s, channel[p])
        <3>1. Alone(s, inbox[p]) /\ Alone(s, channel[p])
            BY <1>0, <2>1, <2>2 DEF Clean
        <3>2. Op(s) \in Administration \cup {"status", "probe", "print"}
            BY <1>0, <2>1, RequestAssumption DEF Way, Began, Op
        <3>3. Command(s) \in Commands /\ Command(s).session = s
            BY <1>0, <1>1, <3>2 DEF Command, Commands
        <3> QED BY <1>2, <2>1, <3>1, <3>3, AloneKept
    <2> QED BY <2>1, <2>2 DEF Clean, Alone
<1>8. CASE Read(s) /\ ~End(s, "connected") /\ ~Failed(s)
    <2>1. /\ UNCHANGED <<claimed, inbox, late>> /\ stage[s] = "reading" /\ stage'[s] = "writing"
          /\ channel[p] # <<>> /\ channel'[p] = Tail(channel[p])
        BY <1>0, <1>1, <1>8 DEF Read, Goto, RequestTypeOK
    <2>2. ASSUME s \notin late PROVE Alone(s, inbox[p]) /\ Alone(s, channel'[p])
        <3>1. Alone(s, inbox[p]) /\ Alone(s, channel[p])
            BY <1>0, <2>1, <2>2 DEF Clean
        <3> QED BY <1>2, <2>1, <3>1, AloneKept
    <2> QED BY <2>1, <2>2 DEF Clean, Alone
<1> QED BY <1>1, <1>3, <1>4, <1>5, <1>6, <1>7, <1>8
       DEF SessionStep, Resolve, Open, Opened, Write, Read, GiveUp

\* A session's steps leave another's endpoint, and what that one has come to,
\* as they are; the endpoint it opens, it has not begun to empty.
LEMMA OthersEndpoint ==
    ASSUME LinkInv, NEW s \in Session, SessionStep(s), NEW p \in Quiet, claimed[p] # s
    PROVE  /\ UNCHANGED <<inbox[p], channel[p]>> /\ late \subseteq late'
           /\ claimed'[p] = s =>
                  /\ stage[s] = "opening" /\ target[s] = p /\ claimed[p] = None
                  /\ stage'[s] = "draining" /\ drained'[s] = 0
           /\ claimed'[p] # s =>
                  /\ claimed'[p] = claimed[p]
                  /\ claimed[p] = None \/ UNCHANGED <<stage[claimed[p]], drained[claimed[p]], replies[claimed[p]]>>
<1> USE DeviceAssumption
<1>0. RequestTypeOK /\ Way(s) /\ p \in Printer /\ claimed[p] \in Session \cup {None}
    BY DEF LinkInv, WayInv, Quiet, RequestTypeOK
<1>1. late \subseteq late'
    BY DEF SessionStep, Resolve, Open, Drain, Opened, Write, Read, GiveUp
<1>2. UNCHANGED <<inbox[p], channel[p]>>
    <2>1. CASE UNCHANGED <<inbox, channel>>
        BY <2>1
    <2>2. CASE Drain(s) \/ Write(s) \/ Read(s)
        <3>1. Held(s)
            BY <2>2 DEF Drain, Write, Read
        <3>2. target[s] # p /\ Source(s) # p
            BY <3>1, KeepsOff
        <3> QED BY <1>0, <2>2, <3>2 DEF Drain, Write, Read, RequestTypeOK
    <2> QED BY <2>1, <2>2 DEF SessionStep, Resolve, Open, Opened, GiveUp
<1>3. ASSUME claimed'[p] = s
      PROVE  /\ stage[s] = "opening" /\ target[s] = p /\ claimed[p] = None
             /\ stage'[s] = "draining" /\ drained'[s] = 0
    <2>1. /\ stage[s] = "opening" /\ Free(s) /\ UNCHANGED drained
          /\ Kind(s) \in Lasting /\ target[s] = p
          /\ Goto(s, IF Kind(s) \in {"selector", "ids"} THEN "draining"
                     ELSE IF OpensOnly(request[s]) THEN "opened" ELSE "writing")
        <3>1. (\E what : End(s, what)) => claimed'[p] # s
            BY <1>0 DEF End, RequestTypeOK
        <3>2. Failed(s) => claimed'[p] # s
            BY <3>1 DEF Failed
        <3>3. Open(s)
            BY <1>3, <3>1, <3>2 DEF SessionStep, Resolve, Drain, Opened, Write, Read, GiveUp
        <3> QED BY <1>0, <1>3, <3>2, <3>3 DEF Open, RequestTypeOK
    <2>2. Kind(s) \in {"selector", "ids"} /\ claimed[p] = None
        BY <2>1, QuietLink DEF Free
    <2>3. stage'[s] = "draining" /\ drained'[s] = 0
        BY <1>0, <2>1, <2>2 DEF Goto, RequestTypeOK, LinkInv, Line
    <2> QED BY <2>1, <2>2, <2>3
<1>4. ASSUME claimed'[p] # s
      PROVE  claimed'[p] = claimed[p]
    <2>1. (\E what : End(s, what)) => claimed'[p] = claimed[p]
        BY <1>0 DEF End
    <2>2. Failed(s) => claimed'[p] = claimed[p]
        BY <2>1 DEF Failed
    <2> QED BY <1>0, <1>4, <2>1, <2>2 DEF SessionStep, Resolve, Open, Drain, Opened, Write, Read, GiveUp,
               RequestTypeOK
<1>5. ASSUME NEW t \in Session \ {s} PROVE UNCHANGED <<stage[t], drained[t], replies[t]>>
    <2>1. (\E what : End(s, what)) \/ (\E next : Goto(s, next)) => stage'[t] = stage[t]
        BY <1>0 DEF End, Goto, RequestTypeOK
    <2>2. \/ \E what : End(s, what)
          \/ \E next : Goto(s, next)
          \/ stage' = stage
        BY DEF SessionStep, Resolve, Open, Drain, Opened, Write, Read, GiveUp, Failed
    <2>3. drained'[t] = drained[t] /\ replies'[t] = replies[t]
        BY <1>0 DEF SessionStep, Resolve, Open, Drain, Opened, Write, Read, GiveUp, RequestTypeOK
    <2> QED BY <2>1, <2>2, <2>3
<1>6. ASSUME claimed'[p] # s, claimed[p] # None
      PROVE  UNCHANGED <<stage[claimed[p]], drained[claimed[p]], replies[claimed[p]]>>
    <2>1. claimed[p] \in Session \ {s}
        BY <1>0, <1>6
    <2> QED BY <1>4, <1>5, <1>6, <2>1
<1> QED BY <1>1, <1>2, <1>3, <1>4, <1>6

\* A session leaves an endpoint clean that it has not, and the one it opens
\* holds no more than it can throw away.
LEMMA OtherClean ==
    ASSUME LinkInv, FewLeft, NEW s \in Session, SessionStep(s), NEW p \in Quiet, claimed[p] # s
    PROVE  Clean(p)'
<1>0. p \in Printer
    BY DeviceAssumption DEF Quiet
<1>1. CASE claimed'[p] = s
    <2>1. /\ UNCHANGED <<inbox[p], channel[p]>>
          /\ stage[s] = "opening" /\ target[s] = p /\ claimed[p] = None
          /\ stage'[s] = "draining" /\ drained'[s] = 0
        BY <1>1, OthersEndpoint
    <2>2. Waiting(p) <= DrainLimit
        BY <2>1 DEF FewLeft
    <2>3. Waiting(p) \in Nat /\ Waiting(p)' = Waiting(p)
        BY <1>0, <2>1 DEF Waiting, LinkInv, WayInv, RequestTypeOK
    <2> QED BY <1>1, <2>1, <2>2, <2>3 DEF Clean
<1>2. CASE claimed'[p] # s
    <2>1. /\ UNCHANGED <<inbox[p], channel[p]>> /\ late \subseteq late'
          /\ claimed'[p] = claimed[p]
          /\ claimed[p] = None \/ UNCHANGED <<stage[claimed[p]], drained[claimed[p]]>>
        BY <1>2, OthersEndpoint
    <2> QED BY <1>0, <2>1, CleanStays
<1> QED BY <1>1, <1>2

\* An answer moves what waits at a printer from what it has to answer to what
\* it has answered, at most, and is for the same session.
LEMMA AnswerMoves ==
    ASSUME LinkInv, NEW q \in Printer, NEW p \in Quiet, Answer(q)
    PROVE  /\ Waiting(p)' <= Waiting(p) /\ Waiting(p)' \in Int /\ Waiting(p) \in Nat
           /\ \A s : Alone(s, inbox[p]) /\ Alone(s, channel[p])
                  => Alone(s, inbox'[p]) /\ Alone(s, channel'[p])
<1> USE DeviceAssumption
<1>0. RequestTypeOK /\ p \in Printer /\ p \notin Session
    BY DEF LinkInv, WayInv, Quiet
<1>1. PICK reply \in Replies :
          /\ reply.session = Head(inbox[q]).session
          /\ \/ channel' = channel
             \/ channel' = [channel EXCEPT ![Head(inbox[q]).via] =
                                Append(channel[Head(inbox[q]).via], reply)]
    BY AnswerReturns
<1>2. /\ inbox[q] \in Seq(Commands) /\ inbox[q] # <<>> /\ Head(inbox[q]) \in Commands
      /\ inbox' = [inbox EXCEPT ![q] = Tail(inbox[q])]
      /\ Head(inbox[q]).via \in {q, Head(inbox[q]).session}
    BY AnswerReturns
<1>3. Head(inbox[q]).session # p
    BY <1>0, <1>2 DEF Commands
<1>4. /\ channel[p] \in Seq(Replies) /\ Len(channel[p]) \in Nat /\ Len(inbox[p]) \in Nat
      /\ Waiting(p) = Len(inbox[p]) + Len(channel[p]) /\ Waiting(p)' = Len(inbox'[p]) + Len(channel'[p])
    BY <1>0 DEF RequestTypeOK, Waiting
<1>5. CASE q # p
    <2>1. inbox'[p] = inbox[p] /\ channel'[p] = channel[p]
        BY <1>0, <1>1, <1>2, <1>3, <1>5 DEF RequestTypeOK
    <2>2. Waiting(p) \in Nat
        <3>1. Len(inbox[p]) + Len(channel[p]) \in Nat
            BY <1>4, Sums
        <3> QED BY <3>1 DEF Waiting
    <2>3. Waiting(p)' = Waiting(p)
        BY <2>1 DEF Waiting
    <2> QED BY <2>1, <2>2, <2>3
<1>6. CASE q = p
    <2>1. inbox'[p] = Tail(inbox[p]) /\ channel'[p] \in {channel[p], Append(channel[p], reply)}
        BY <1>0, <1>1, <1>2, <1>6 DEF RequestTypeOK
    <2>2. /\ Len(inbox'[p]) = Len(inbox[p]) - 1 /\ Len(inbox'[p]) \in Int
          /\ Len(channel'[p]) <= Len(channel[p]) + 1 /\ Len(channel'[p]) \in Nat
        <3>1. Len(Tail(inbox[p])) = Len(inbox[p]) - 1
            BY <1>2, <1>6, Shrunk
        <3>2. Len(Append(channel[p], reply)) = Len(channel[p]) + 1
            BY <1>4
        <3> QED BY <1>4, <2>1, <3>1, <3>2
    <2>3. ASSUME NEW s, Alone(s, inbox[p]), Alone(s, channel[p])
          PROVE  Alone(s, inbox'[p]) /\ Alone(s, channel'[p])
        <3>1. Alone(s, Tail(inbox[p])) /\ reply.session = s
            BY <1>1, <1>2, <1>6, <2>3, AloneKept
        <3>2. Alone(s, Append(channel[p], reply))
            BY <1>4, <2>3, <3>1, AloneKept
        <3> QED BY <2>1, <2>3, <3>1, <3>2
    <2>4. /\ Len(inbox'[p]) + Len(channel'[p]) <= Len(inbox[p]) + Len(channel[p])
          /\ Len(inbox'[p]) + Len(channel'[p]) \in Int /\ Len(inbox[p]) + Len(channel[p]) \in Nat
        BY <1>4, <2>2, Moved
    <2> QED BY <1>4, <2>3, <2>4
<1> QED BY <1>5, <1>6

\* What printers do keeps their endpoints clean.
LEMMA WorldClean ==
    ASSUME LinkInv, NEW q \in Printer, NEW p \in Quiet,
           Answer(q) \/ Tell(q) \/ Unplug(q) \/ \E place \in Place : Plug(q, place)
    PROVE  Clean(p)'
<1> USE DeviceAssumption
<1>0. RequestTypeOK /\ p \in Printer /\ p \notin Session /\ Clean(p)
    BY DEF LinkInv, WayInv, Quiet
<1>1. CASE Answer(q)
    <2>1. UNCHANGED <<claimed, stage, drained, late>>
        BY <1>1 DEF Answer, sessionVars
    <2>2. /\ Waiting(p)' <= Waiting(p) /\ Waiting(p)' \in Int /\ Waiting(p) \in Nat
          /\ \A s : Alone(s, inbox[p]) /\ Alone(s, channel[p])
                 => Alone(s, inbox'[p]) /\ Alone(s, channel'[p])
        BY <1>1, AnswerMoves
    <2>3. ASSUME claimed[p] # None, stage[claimed[p]] = "draining"
          PROVE  Waiting(p)' + drained[claimed[p]] <= DrainLimit
        <3>1. Waiting(p) + drained[claimed[p]] <= DrainLimit
            BY <1>0, <2>3 DEF Clean
        <3>2. drained[claimed[p]] \in Nat /\ DrainLimit \in Nat
            BY <1>0, <2>3 DEF RequestTypeOK
        <3> QED BY <2>2, <3>1, <3>2
    <2>4. ASSUME claimed[p] # None, stage[claimed[p]] \in {"writing", "reading"}, claimed[p] \notin late
          PROVE  Alone(claimed[p], inbox'[p]) /\ Alone(claimed[p], channel'[p])
        BY <1>0, <2>2, <2>4 DEF Clean
    <2> QED BY <2>1, <2>3, <2>4 DEF Clean, Alone
<1>2. CASE Tell(q) \/ \E place \in Place : Plug(q, place)
    <2>1. UNCHANGED <<inbox, claimed, stage, drained, late>> /\ channel'[p] = channel[p]
        BY <1>0, <1>2 DEF Tell, Plug, sessionVars, RequestTypeOK, Quiet
    <2> QED BY <1>0, <2>1, CleanStays
<1>3. CASE Unplug(q)
    <2>1. UNCHANGED <<stage, drained, late>>
        BY <1>3 DEF Unplug
    <2>2. CASE q = p
        BY <1>0, <1>3, <2>2 DEF Unplug, Clean, RequestTypeOK
    <2>3. CASE q # p
        <3>1. UNCHANGED <<inbox[p], channel[p], claimed[p]>>
            BY <1>0, <1>3, <2>3 DEF Unplug, RequestTypeOK
        <3> QED BY <1>0, <2>1, <3>1, CleanStays
    <2> QED BY <2>2, <2>3
<1> QED BY <1>1, <1>2, <1>3

\* As long as no more is left behind than opening throws away, every step keeps
\* every endpoint clean and every session on its line.
LEMMA LinkStep == LinkInv /\ FewLeft /\ [Next]_vars => LinkInv'
<1> SUFFICES ASSUME LinkInv, FewLeft, [Next]_vars PROVE LinkInv'
    OBVIOUS
<1>1. WayInv'
    BY WayStep DEF LinkInv
<1>2. \A p \in Printer : Routed(p)'
    BY RoutedStep
<1>3. \A t \in Session : Line(t)'
    <2>1. ASSUME UNCHANGED vars PROVE \A t \in Session : Line(t)'
        BY <2>1 DEF vars, sessionVars, LinkInv, Line, Alone, Kind
    <2> QED BY <2>1, SessionLines, OtherLines DEF Next
<1>4. ASSUME NEW p \in Quiet PROVE Clean(p)'
    <2>0. p \in Printer
        BY DeviceAssumption DEF Quiet
    <2>1. ASSUME NEW s \in Session, SessionStep(s) PROVE Clean(p)'
        BY <2>1, OwnClean, OtherClean
    <2>2. ASSUME NEW s \in Session, NEW r \in Request, Start(s, r) PROVE Clean(p)'
        <3>1. /\ UNCHANGED <<claimed, inbox, channel, drained, late>> /\ stage[s] = "idle"
              /\ \A t \in Session \ {s} : stage'[t] = stage[t]
            BY <2>2 DEF Start, Goto, LinkInv, WayInv, RequestTypeOK
        <3>2. claimed[p] = None \/ claimed[p] \in Session \ {s}
            <4>1. claimed[p] \in Session \cup {None}
                BY <2>0 DEF LinkInv, WayInv, RequestTypeOK
            <4>2. claimed[p] # s
                BY <2>0, <3>1, HeldByOne
            <4> QED BY <4>1, <4>2
        <3>3. claimed'[p] = None \/ UNCHANGED <<stage[claimed[p]], drained[claimed[p]]>>
            BY <3>1, <3>2
        <3> QED BY <2>0, <3>1, <3>3, CleanStays
    <2>3. CASE UNCHANGED vars
        BY <2>0, <2>3, CleanStays DEF vars, sessionVars
    <2> QED BY <2>1, <2>2, <2>3, WorldClean DEF Next
<1>5. \A p \in Printer : Clean(p)'
    BY <1>4 DEF Clean, Quiet
<1> QED BY <1>1, <1>2, <1>3, <1>5 DEF LinkInv

LEMMA LinkInit == Init => LinkInv
<1> SUFFICES ASSUME Init PROVE LinkInv
    OBVIOUS
<1>1. WayInv
    BY WayInit
<1>2. \A s \in Session : Line(s)
    BY DeviceAssumption, NothingIsAlone DEF Init, Line, Kind, NoRequest
<1>3. \A p \in Printer : Routed(p) /\ Clean(p)
    BY DEF Init, Routed, Clean
<1> QED BY <1>1, <1>2, <1>3 DEF LinkInv

\* What a session on its line has read is its own.
LEMMA AnswersFromLines == LinkInv => AnswersAreOwn
BY DEF LinkInv, Line, AnswersAreOwn, Alone

\* However many requests there are: if, whenever one opens a printer's interface,
\* no more replies are waiting there or to come than opening throws away, a
\* printer that was found in order was found so by replies to its own request.
THEOREM AnswersOwn == Spec /\ []FewLeft => []AnswersAreOwn
<1>1. LinkInv /\ FewLeft /\ [Next]_vars => LinkInv'
    BY LinkStep
<1> QED BY <1>1, LinkInit, AnswersFromLines, PTL DEF Spec

-----------------------------------------------------------------------------
(* How much can be left behind.                                            *)

\* The sessions whose commands a printer received.
Wrote(p) == {s \in Session : [session |-> s, to |-> p] \in commands}

\* A session that has not written yet.
Fresh(s) ==
    \/ stage[s] \in {"idle", "resolving", "opening", "draining", "opened"}
    \/ stage[s] = "writing" /\ replies[s] = <<>>

\* What the session that has a printer took out of it, beyond what it put in.
Spare(p) ==
    LET s == claimed[p]
    IN  IF s = None THEN 0
        ELSE IF stage[s] = "writing" /\ replies[s] # <<>> THEN 1
        ELSE IF Fresh(s) THEN drained[s] ELSE 0

\* Each session leaves at most one command or reply behind: it writes again
\* only when it has read.
Counted(p) == p \in Quiet => Waiting(p) + Spare(p) <= Cardinality(Wrote(p))

Unwritten(s) == Fresh(s) => \A p \in Printer : s \notin Wrote(p)

CountInv == (\A s \in Session : Unwritten(s)) /\ (\A p \in Printer : Counted(p))

\* There is at most one request more than opening throws away replies.
FewSessions == IsFiniteSet(Session) /\ Cardinality(Session) <= DrainLimit + 1

\* The numbers that are compared.
LEMMA CountTypes ==
    ASSUME RequestTypeOK, FewSessions, NEW p \in Printer
    PROVE  /\ Waiting(p) \in Nat /\ Len(inbox[p]) \in Nat /\ Len(channel[p]) \in Nat
           /\ Spare(p) \in Nat
           /\ IsFiniteSet(Wrote(p)) /\ Cardinality(Wrote(p)) \in Nat
<1>1. inbox[p] \in Seq(Commands) /\ channel[p] \in Seq(Replies)
    BY DEF RequestTypeOK
<1>2. Len(inbox[p]) \in Nat /\ Len(channel[p]) \in Nat
    BY <1>1
<1>3. Spare(p) \in Nat
    <2>1. claimed[p] = None \/ drained[claimed[p]] \in Nat
        BY DeviceAssumption DEF RequestTypeOK
    <2> QED BY <2>1 DEF Spare
<1>4. IsFiniteSet(Wrote(p))
    <2>1. Wrote(p) \in SUBSET Session
        BY DEF Wrote
    <2>2. IsFiniteSet(Session)
        BY DEF FewSessions
    <2> QED BY ONLY <2>1, <2>2, FS_Subset
<1>5. Cardinality(Wrote(p)) \in Nat
    BY <1>4, FS_CardinalityType
<1>6. Waiting(p) \in Nat
    BY <1>2, Sums DEF Waiting
<1> QED BY <1>2, <1>3, <1>4, <1>5, <1>6

\* Commands are only added, and one of a session that had none is one more.
LEMMA WroteGrows ==
    ASSUME FewSessions, NEW p \in Printer, commands \subseteq commands'
    PROVE  /\ Cardinality(Wrote(p)) <= Cardinality(Wrote(p)')
           /\ \A s \in Session : s \notin Wrote(p) /\ [session |-> s, to |-> p] \in commands'
                  => Cardinality(Wrote(p)) + 1 <= Cardinality(Wrote(p)')
<1> DEFINE old == Wrote(p)
           new == Wrote(p)'
<1>1. old \subseteq new /\ new \subseteq Session
    BY DEF Wrote
<1>2. IsFiniteSet(new) /\ IsFiniteSet(old)
    BY <1>1, FS_Subset DEF FewSessions
<1>3. Cardinality(old) <= Cardinality(new)
    BY <1>1, <1>2, FS_Subset
<1>4. ASSUME NEW s \in Session, s \notin old, [session |-> s, to |-> p] \in commands'
      PROVE  Cardinality(old) + 1 <= Cardinality(new)
    <2>1. old \cup {s} \in SUBSET new
        BY <1>1, <1>4 DEF Wrote
    <2>2. Cardinality(old \cup {s}) = Cardinality(old) + 1
        BY <1>2, <1>4, FS_AddElement
    <2> HIDE DEF old, new
    <2>3. Cardinality(old \cup {s}) <= Cardinality(new)
        BY <1>2, <2>1, FS_Subset
    <2> QED BY <2>2, <2>3
<1> QED BY <1>3, <1>4

\* With so few sessions, the one that opens a printer finds no more there than
\* it throws away: it has left nothing itself.
LEMMA FewSessionsLeaveFew ==
    ASSUME FewSessions, LinkInv, CountInv
    PROVE  FewLeft
<1> SUFFICES ASSUME NEW s \in Session, stage[s] = "opening", target[s] \in Quiet
             PROVE  Waiting(target[s]) <= DrainLimit
    BY DEF FewLeft
<1> DEFINE p == target[s]
<1>1. p \in Printer /\ RequestTypeOK /\ DrainLimit \in Nat
    BY DeviceAssumption DEF Quiet, LinkInv, WayInv
<1>2. Wrote(p) \in SUBSET (Session \ {s})
    BY <1>1 DEF CountInv, Unwritten, Fresh, Wrote
<1>3. IsFiniteSet(Session \ {s}) /\ Cardinality(Session \ {s}) = Cardinality(Session) - 1
      /\ Cardinality(Session) \in Nat
    BY FS_RemoveElement, FS_CardinalityType DEF FewSessions
<1>4. Cardinality(Wrote(p)) <= Cardinality(Session \ {s})
    BY <1>2, <1>3, FS_Subset
<1>5. Waiting(p) + Spare(p) <= Cardinality(Wrote(p))
    BY <1>1 DEF CountInv, Counted
<1>6. Waiting(p) \in Nat /\ Spare(p) \in Nat /\ Cardinality(Wrote(p)) \in Nat
    BY <1>1, CountTypes
<1>7. Cardinality(Session) <= DrainLimit + 1
    BY DEF FewSessions
<1> HIDE DEF p
<1>8. Waiting(p) <= DrainLimit
    BY ONLY <1>1, <1>3, <1>4, <1>5, <1>6, <1>7
<1> QED BY <1>8 DEF p

\* Who has written once is not fresh again.
LEMMA FreshBefore ==
    ASSUME LinkInv, [Next]_vars, NEW t \in Session, Fresh(t)'
    PROVE  Fresh(t)
<1> USE DeviceAssumption
<1>0. RequestTypeOK /\ stage[t] \in Stages
    BY DEF LinkInv, WayInv, RequestTypeOK
<1>1. CASE UNCHANGED <<stage[t], replies[t]>>
    BY <1>1 DEF Fresh
<1>2. ASSUME SessionStep(t), ~Fresh(t) PROVE FALSE
    <2>1. stage[t] \in {"writing", "reading", "done"}
        BY <1>0, <1>2 DEF Fresh, Stages
    <2>2. CASE Write(t)
        <3>1. stage'[t] \in {"reading", "done"}
            BY <1>0, <2>2 DEF Write, Goto, End, RequestTypeOK
        <3> QED BY <3>1 DEF Fresh
    <2>3. CASE Read(t)
        <3>1. stage'[t] \in {"writing", "done"}
            BY <1>0, <2>3 DEF Read, Goto, Failed, End, RequestTypeOK
        <3>2. replies'[t] # <<>>
            <4>1. replies[t] \in Seq(Replies) /\ Source(t) \in Printer \cup Session
                BY <1>0, <2>3 DEF RequestTypeOK, Read, LinkInv, WayInv, Way, Source
            <4>2. Head(channel[Source(t)]) \in Replies
                BY <1>0, <2>3, <4>1, Shrunk DEF Read, RequestTypeOK
            <4>3. replies'[t] = Append(replies[t], Head(channel[Source(t)]))
                BY <1>0, <2>3 DEF Read, RequestTypeOK
            <4>4. Len(replies'[t]) = Len(replies[t]) + 1 /\ Len(replies[t]) \in Nat
                BY <4>1, <4>2, <4>3, Grown
            <4>5. Len(<<>>) = 0
                OBVIOUS
            <4> QED BY <4>4, <4>5
        <3> QED BY <3>1, <3>2 DEF Fresh
    <2>4. CASE GiveUp(t)
        <3>1. stage'[t] = "done"
            BY <1>0, <2>4 DEF GiveUp, Failed, End, Goto, RequestTypeOK
        <3> QED BY <3>1 DEF Fresh
    <2> QED BY <1>2, <2>1, <2>2, <2>3, <2>4 DEF SessionStep, Resolve, Open, Drain, Opened
<1>3. ASSUME NEW s \in Session \ {t}, SessionStep(s) \/ \E r \in Request : Start(s, r)
      PROVE  UNCHANGED <<stage[t], replies[t]>>
    BY <1>0, <1>3 DEF SessionStep, Resolve, Open, Drain, Opened, Write, Read, GiveUp, Start, Failed, End,
           Goto, RequestTypeOK
<1>4. ASSUME NEW r \in Request, Start(t, r) PROVE Fresh(t)
    BY <1>4 DEF Start, Fresh
<1>5. ASSUME NEW p \in Printer,
             Answer(p) \/ Tell(p) \/ Unplug(p) \/ \E place \in Place : Plug(p, place)
      PROVE  UNCHANGED <<stage[t], replies[t]>>
    BY <1>5 DEF Answer, Tell, Unplug, Plug, sessionVars
<1>6. UNCHANGED vars => UNCHANGED <<stage[t], replies[t]>>
    BY DEF vars, sessionVars
<1> QED BY <1>1, <1>2, <1>3, <1>4, <1>5, <1>6 DEF Next

\* Who is fresh has sent nothing.
LEMMA UnwrittenStep ==
    ASSUME LinkInv, CountInv, [Next]_vars, NEW t \in Session
    PROVE  Unwritten(t)'
<1> SUFFICES ASSUME Fresh(t)', NEW p \in Printer, [session |-> t, to |-> p] \in commands'
             PROVE  FALSE
    BY DEF Unwritten, Wrote
<1>1. [session |-> t, to |-> p] \notin commands
    BY FreshBefore DEF CountInv, Unwritten, Wrote
<1>2. PICK s \in Session : Write(s) /\ [session |-> t, to |-> p] = [session |-> s, to |-> target[s]]
    BY <1>1, WhoCommands
<1>3. t = s
    BY <1>2
<1>4. stage'[t] \in {"reading", "done"}
    BY <1>2, <1>3 DEF Write, Goto, End, LinkInv, WayInv, RequestTypeOK
<1> QED BY <1>4 DEF Fresh

\* The commands only grow.
LEMMA CommandsGrow == [Next]_vars => commands \subseteq commands'
<1>1. ASSUME NEW s \in Session, SessionStep(s) PROVE commands \subseteq commands'
    BY <1>1 DEF SessionStep, Resolve, Open, Drain, Opened, Write, Read, GiveUp
<1>2. ASSUME NEW s \in Session, NEW r \in Request, Start(s, r) PROVE commands' = commands
    BY <1>2 DEF Start
<1>3. ASSUME NEW p \in Printer,
             Answer(p) \/ Tell(p) \/ Unplug(p) \/ \E place \in Place : Plug(p, place)
      PROVE  commands' = commands
    BY <1>3 DEF Answer, Tell, Unplug, Plug
<1> QED BY <1>1, <1>2, <1>3 DEF Next, vars

\* An endpoint stays counted when no more waits there and its session spares
\* no more, up to what was written.
LEMMA CountStays ==
    ASSUME FewSessions, LinkInv, CountInv, [Next]_vars, NEW p \in Quiet,
           Waiting(p)' + Spare(p)' <= Waiting(p) + Spare(p),
           Waiting(p)' \in Int, Spare(p)' \in Int
    PROVE  Counted(p)'
<1>0. p \in Printer /\ RequestTypeOK
    BY DeviceAssumption DEF Quiet, LinkInv, WayInv
<1>1. Waiting(p) + Spare(p) <= Cardinality(Wrote(p))
    BY <1>0 DEF CountInv, Counted
<1>2. Cardinality(Wrote(p)) <= Cardinality(Wrote(p)')
    BY <1>0, CommandsGrow, WroteGrows
<1>3. Waiting(p) \in Nat /\ Spare(p) \in Nat /\ Cardinality(Wrote(p)) \in Nat
    BY <1>0, CountTypes
<1>4. Cardinality(Wrote(p)') \in Nat
    <2>1. Wrote(p)' \in SUBSET Session
        BY DEF Wrote
    <2>2. IsFiniteSet(Wrote(p)')
        BY <2>1, FS_Subset DEF FewSessions
    <2> QED BY <2>2, FS_CardinalityType
<1>5. Waiting(p)' + Spare(p)' <= Cardinality(Wrote(p)')
    BY <1>1, <1>2, <1>3, <1>4
<1> QED BY <1>5 DEF Counted

\* A session's steps keep the count at the endpoint it has.
LEMMA OwnCount ==
    ASSUME FewSessions, LinkInv, CountInv, [Next]_vars, NEW s \in Session, SessionStep(s),
           NEW p \in Quiet, claimed[p] = s
    PROVE  Counted(p)'
<1> USE DeviceAssumption
<1>0. RequestTypeOK /\ Way(s) /\ p \in Printer /\ s # None
    BY DEF LinkInv, WayInv, Quiet
<1>1. target[s] = p /\ Source(s) = p /\ stage[s] \in {"draining", "opened", "writing", "reading"}
    BY <1>0, HeldByOne, QuietLink
<1>2. /\ inbox[p] \in Seq(Commands) /\ channel[p] \in Seq(Replies)
      /\ drained[s] \in Nat /\ DrainLimit \in Nat
    BY <1>0 DEF RequestTypeOK
<1>3. Waiting(p) \in Nat /\ Spare(p) \in Nat /\ Cardinality(Wrote(p)) \in Nat
    BY <1>0, CountTypes
<1>len. Len(inbox[p]) \in Nat /\ Len(channel[p]) \in Nat
    BY <1>0, CountTypes
<1>4. Waiting(p) + Spare(p) <= Cardinality(Wrote(p))
    BY <1>0 DEF CountInv, Counted
<1>5. ASSUME Failed(s) \/ End(s, "connected") PROVE claimed'[p] = None
    BY <1>0, <1>5 DEF Failed, End, RequestTypeOK
<1>6. CASE claimed'[p] = None /\ UNCHANGED <<inbox, channel>>
    <2>1. Spare(p)' = 0 /\ Waiting(p)' = Waiting(p)
        BY <1>6 DEF Spare, Waiting
    <2>2. Waiting(p)' + Spare(p)' <= Waiting(p) + Spare(p) /\ Waiting(p)' \in Int /\ Spare(p)' \in Int
        BY <1>3, <2>1
    <2> QED BY <2>2, CountStays
<1>7. CASE Drain(s) /\ Drainable(s)
    <2>1. /\ stage[s] = "draining" /\ UNCHANGED <<claimed, inbox, stage>>
          /\ channel[p] # <<>> /\ channel'[p] = Tail(channel[p]) /\ drained'[s] = drained[s] + 1
        BY <1>0, <1>1, <1>7 DEF Drain, Drainable, RequestTypeOK
    <2>2. Len(channel'[p]) = Len(channel[p]) - 1
        BY <1>2, <2>1, Shrunk
    <2>3. Spare(p) = drained[s] /\ Spare(p)' = drained[s] + 1
        BY <1>0, <2>1 DEF Spare, Fresh
    <2>4. Waiting(p)' = Waiting(p) - 1
        <3>1. Len(inbox[p]) + (Len(channel[p]) - 1) = (Len(inbox[p]) + Len(channel[p])) - 1
            BY <1>len, Sums
        <3>2. inbox'[p] = inbox[p]
            BY <2>1
        <3> QED BY <2>2, <3>1, <3>2 DEF Waiting
    <2>5. Waiting(p)' + Spare(p)' = Waiting(p) + Spare(p) /\ Waiting(p)' \in Int /\ Spare(p)' \in Int
        BY <1>2, <1>3, <2>3, <2>4
    <2>6. Waiting(p) + Spare(p) \in Int
        BY <1>3
    <2> QED BY <2>5, <2>6, CountStays
<1>8. CASE Drain(s) /\ ~Drainable(s)
    <2>1. /\ stage[s] = "draining" /\ UNCHANGED <<claimed, inbox, channel, drained, replies>>
          /\ stage'[s] \in {"opened", "writing"} /\ replies[s] = <<>>
        BY <1>0, <1>1, <1>8 DEF Drain, Drainable, Goto, RequestTypeOK, Way
    <2>2. Spare(p)' = Spare(p) /\ Waiting(p)' = Waiting(p)
        BY <1>0, <2>1 DEF Spare, Fresh, Waiting
    <2>3. Waiting(p)' + Spare(p)' <= Waiting(p) + Spare(p) /\ Waiting(p)' \in Int /\ Spare(p)' \in Int
        BY <1>3, <2>2
    <2> QED BY <2>3, CountStays
<1>9. CASE Write(s)
    <2>1. /\ UNCHANGED channel /\ stage[s] = "writing" /\ stage'[s] \in {"reading", "done"}
          /\ inbox'[p] = Append(inbox[p], Command(s)) /\ [session |-> s, to |-> p] \in commands'
          /\ claimed'[p] \in {s, None}
        <3>1. UNCHANGED claimed \/ End(s, "connected")
            BY <1>9 DEF Write
        <3>2. claimed'[p] \in {s, None}
            BY <1>0, <1>5, <3>1
        <3> QED BY <1>0, <1>1, <1>9, <3>2 DEF Write, Goto, End, RequestTypeOK
    <2>2. Op(s) \in Administration \cup {"status", "probe", "print"}
        BY <1>0, <2>1, RequestAssumption DEF Way, Began, Op
    <2>3. Command(s) \in Commands
        BY <1>0, <1>1, <2>2 DEF Command, Commands
    <2>4. Len(inbox'[p]) = Len(inbox[p]) + 1
        BY <1>2, <2>1, <2>3, Grown
    <2>5. Waiting(p)' = Waiting(p) + 1
        <3>1. (Len(inbox[p]) + 1) + Len(channel[p]) = (Len(inbox[p]) + Len(channel[p])) + 1
            BY <1>len, Sums
        <3>2. channel'[p] = channel[p]
            BY <2>1
        <3> QED BY <2>4, <3>1, <3>2 DEF Waiting
    <2>6. Spare(p)' = 0
        BY <1>0, <2>1 DEF Spare, Fresh
    <2>7. CASE replies[s] # <<>>
        <3>1. Spare(p) = 1
            BY <1>0, <2>1, <2>7 DEF Spare
        <3>2. Waiting(p)' + Spare(p)' <= Waiting(p) + Spare(p) /\ Waiting(p)' \in Int /\ Spare(p)' \in Int
            BY <1>3, <2>5, <2>6, <3>1
        <3> QED BY <3>2, CountStays
    <2>8. CASE replies[s] = <<>>
        <3>1. s \notin Wrote(p)
            BY <1>0, <2>1, <2>8 DEF CountInv, Unwritten, Fresh
        <3>2. Cardinality(Wrote(p)) + 1 <= Cardinality(Wrote(p)')
            BY <1>0, <2>1, <3>1, CommandsGrow, WroteGrows
        <3>3. Cardinality(Wrote(p)') \in Nat
            <4>1. Wrote(p)' \in SUBSET Session
                BY DEF Wrote
            <4>2. IsFiniteSet(Wrote(p)')
                BY <4>1, FS_Subset DEF FewSessions
            <4> QED BY <4>2, FS_CardinalityType
        <3>4. Waiting(p)' + Spare(p)' <= Cardinality(Wrote(p)')
            <4>1. Waiting(p) <= Cardinality(Wrote(p))
                BY <1>3, <1>4
            <4>2. Waiting(p) + 1 <= Cardinality(Wrote(p)')
                BY <1>3, <3>2, <3>3, <4>1
            <4> QED BY <1>3, <2>5, <2>6, <4>2
        <3> QED BY <3>4 DEF Counted
    <2> QED BY <2>7, <2>8
<1>10. CASE Read(s)
    <2>1. /\ UNCHANGED inbox /\ stage[s] = "reading" /\ stage'[s] \in {"writing", "done"}
          /\ channel[p] # <<>> /\ channel'[p] = Tail(channel[p])
          /\ claimed'[p] \in {s, None}
        <3>1. UNCHANGED claimed \/ End(s, "connected") \/ Failed(s)
            BY <1>10 DEF Read
        <3>2. claimed'[p] \in {s, None}
            BY <1>0, <1>5, <3>1
        <3> QED BY <1>0, <1>1, <1>10, <3>2 DEF Read, Goto, Failed, End, RequestTypeOK
    <2>2. Len(channel'[p]) = Len(channel[p]) - 1
        BY <1>2, <2>1, Shrunk
    <2>3. Waiting(p)' = Waiting(p) - 1
        <3>1. Len(inbox[p]) + (Len(channel[p]) - 1) = (Len(inbox[p]) + Len(channel[p])) - 1
            BY <1>len, Sums
        <3>2. inbox'[p] = inbox[p]
            BY <2>1
        <3> QED BY <2>2, <3>1, <3>2 DEF Waiting
    <2>4. ~Fresh(s)'
        BY <2>1, FreshBefore DEF Fresh
    <2>5. Spare(p)' \in {0, 1} /\ Spare(p) = 0
        BY <1>0, <2>1, <2>4 DEF Spare, Fresh
    <2>6. Waiting(p)' + Spare(p)' <= Waiting(p) + Spare(p) /\ Waiting(p)' \in Int /\ Spare(p)' \in Int
        BY <1>3, <2>3, <2>5
    <2> QED BY <2>6, CountStays
<1> QED BY <1>1, <1>5, <1>6, <1>7, <1>8, <1>9, <1>10
       DEF SessionStep, Resolve, Open, Opened, GiveUp

\* A session's steps keep the count elsewhere.
LEMMA OtherCount ==
    ASSUME FewSessions, LinkInv, CountInv, [Next]_vars, NEW s \in Session, SessionStep(s),
           NEW p \in Quiet, claimed[p] # s
    PROVE  Counted(p)'
<1>0. p \in Printer /\ RequestTypeOK /\ s # None
    BY DeviceAssumption DEF Quiet, LinkInv, WayInv
<1>1. Waiting(p) \in Nat /\ Spare(p) \in Nat
    BY <1>0, CountTypes
<1>2. Waiting(p)' = Waiting(p)
    <2>1. UNCHANGED <<inbox[p], channel[p]>>
        BY OthersEndpoint
    <2> QED BY <2>1 DEF Waiting
<1>3. Spare(p)' = Spare(p)
    <2>1. CASE claimed'[p] = s
        <3>1. claimed[p] = None /\ stage'[s] = "draining" /\ drained'[s] = 0
            BY <2>1, OthersEndpoint
        <3> QED BY <1>0, <2>1, <3>1 DEF Spare, Fresh
    <2>2. CASE claimed'[p] # s
        <3>1. /\ claimed'[p] = claimed[p]
              /\ claimed[p] = None \/ UNCHANGED <<stage[claimed[p]], drained[claimed[p]], replies[claimed[p]]>>
            BY <2>2, OthersEndpoint
        <3> QED BY <3>1 DEF Spare, Fresh
    <2> QED BY <2>1, <2>2
<1> QED BY <1>1, <1>2, <1>3, CountStays

\* A request that is made, and what printers do, keep the count.
LEMMA WorldCount ==
    ASSUME FewSessions, LinkInv, CountInv, [Next]_vars, NEW p \in Quiet,
           \/ \E s \in Session, r \in Request : Start(s, r)
           \/ \E q \in Printer : Answer(q) \/ Tell(q) \/ Unplug(q) \/ \E place \in Place : Plug(q, place)
    PROVE  Counted(p)'
<1> USE DeviceAssumption
<1>0. RequestTypeOK /\ p \in Printer /\ p \notin Session
    BY DEF LinkInv, WayInv, Quiet
<1>1. Waiting(p) \in Nat /\ Spare(p) \in Nat
    BY <1>0, CountTypes
<1>2. ASSUME NEW s \in Session, NEW r \in Request, Start(s, r) PROVE Counted(p)'
    <2>1. /\ UNCHANGED <<claimed, inbox, channel, drained, replies>> /\ stage[s] = "idle"
          /\ \A t \in Session \ {s} : stage'[t] = stage[t]
        BY <1>2 DEF Start, Goto, LinkInv, WayInv, RequestTypeOK
    <2>2. claimed[p] = None \/ claimed[p] \in Session \ {s}
        <3>1. claimed[p] \in Session \cup {None}
            BY <1>0 DEF RequestTypeOK
        <3>2. claimed[p] # s
            BY <1>0, <2>1, HeldByOne
        <3> QED BY <3>1, <3>2
    <2>3. Waiting(p)' = Waiting(p) /\ Spare(p)' = Spare(p)
        BY <2>1, <2>2 DEF Waiting, Spare, Fresh
    <2> QED BY <1>1, <2>3, CountStays
<1>3. ASSUME NEW q \in Printer, Answer(q) PROVE Counted(p)'
    <2>1. UNCHANGED <<claimed, stage, drained, replies>>
        BY <1>3 DEF Answer, sessionVars
    <2>2. Spare(p)' = Spare(p)
        BY <2>1 DEF Spare, Fresh
    <2>3. Waiting(p)' <= Waiting(p) /\ Waiting(p)' \in Int
        BY <1>3, AnswerMoves
    <2> QED BY <1>1, <2>2, <2>3, CountStays
<1>4. ASSUME NEW q \in Printer, Tell(q) \/ \E place \in Place : Plug(q, place) PROVE Counted(p)'
    <2>1. UNCHANGED <<inbox, claimed, stage, drained, replies>> /\ channel'[p] = channel[p]
        BY <1>0, <1>4 DEF Tell, Plug, sessionVars, RequestTypeOK, Quiet
    <2>2. Waiting(p)' = Waiting(p) /\ Spare(p)' = Spare(p)
        BY <2>1 DEF Waiting, Spare, Fresh
    <2> QED BY <1>1, <2>2, CountStays
<1>5. ASSUME NEW q \in Printer, Unplug(q) PROVE Counted(p)'
    <2>1. UNCHANGED <<stage, drained, replies>>
        BY <1>5 DEF Unplug
    <2>2. CASE q = p
        <3>1. inbox'[p] = <<>> /\ channel'[p] = <<>> /\ claimed'[p] = None
            BY <1>0, <1>5, <2>2 DEF Unplug, RequestTypeOK
        <3>2. Waiting(p)' = 0 /\ Spare(p)' = 0
            BY <3>1 DEF Waiting, Spare
        <3> QED BY <1>1, <3>2, CountStays
    <2>3. CASE q # p
        <3>1. UNCHANGED <<inbox[p], channel[p], claimed[p]>>
            BY <1>0, <1>5, <2>3 DEF Unplug, RequestTypeOK
        <3>2. Waiting(p)' = Waiting(p) /\ Spare(p)' = Spare(p)
            BY <2>1, <3>1 DEF Waiting, Spare, Fresh
        <3> QED BY <1>1, <3>2, CountStays
    <2> QED BY <2>2, <2>3
<1> QED BY <1>2, <1>3, <1>4, <1>5

\* Every step keeps the count.
LEMMA CountStep == FewSessions /\ LinkInv /\ CountInv /\ [Next]_vars => CountInv'
<1> SUFFICES ASSUME FewSessions, LinkInv, CountInv, [Next]_vars PROVE CountInv'
    OBVIOUS
<1>1. ASSUME NEW p \in Quiet PROVE Counted(p)'
    <2>1. ASSUME NEW s \in Session, SessionStep(s) PROVE Counted(p)'
        BY <2>1, OwnCount, OtherCount
    <2>2. CASE UNCHANGED vars
        <3>1. p \in Printer
            BY DeviceAssumption DEF Quiet
        <3>2. CountInv => Counted(p)
            BY <3>1 DEF CountInv
        <3> QED BY <2>2, <3>2 DEF vars, sessionVars, Counted, Waiting, Spare, Fresh, Wrote
    <2> QED BY <2>1, <2>2, WorldCount DEF Next
<1>2. \A p \in Printer : Counted(p)'
    BY <1>1 DEF Counted
<1> QED BY <1>2, UnwrittenStep DEF CountInv

LEMMA CountInit == FewSessions /\ Init => CountInv
<1> SUFFICES ASSUME FewSessions, Init PROVE CountInv
    OBVIOUS
<1>1. \A p : Wrote(p) = {}
    BY DEF Init, Wrote
<1>2. \A p \in Printer : Waiting(p) = 0 /\ Spare(p) = 0
    BY DEF Init, Waiting, Spare
<1>3. Cardinality({}) = 0
    BY FS_EmptySet
<1> QED BY <1>1, <1>2, <1>3 DEF CountInv, Counted, Unwritten

\* With at most one request more than opening throws away replies, whatever is
\* given up, and whenever: a printer that speaks when it is asked is never found
\* in order by a reply to an earlier request.
THEOREM AnswersOwnOfFew ==
    ASSUME FewSessions
    PROVE  Spec => []AnswersAreOwn
<1>1. Init => LinkInv /\ CountInv
    BY LinkInit, CountInit
<1>2. LinkInv /\ CountInv /\ [Next]_vars => (LinkInv /\ CountInv)'
    BY LinkStep, CountStep, FewSessionsLeaveFew
<1>3. LinkInv /\ CountInv => AnswersAreOwn
    BY AnswersFromLines
<1> QED BY <1>1, <1>2, <1>3, PTL DEF Spec
=============================================================================
