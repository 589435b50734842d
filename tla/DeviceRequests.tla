---------------------------- MODULE DeviceRequests ----------------------------
(***************************************************************************)
(* Requests that talk to a printer outside the job executor: the probe of  *)
(* POST /v1/connection, GET /v1/status and the Brother administration      *)
(* routes of src/api.rs, and the same operations of the command line, over *)
(* the transports of src/transport.rs, src/printer_ops.rs and              *)
(* src/device.rs.  None of them takes the executor's lock of a connection: *)
(* what keeps them apart is that the operating system gives a USB          *)
(* interface or a serial port to one of them at a time, and that a USB     *)
(* session throws away the replies that earlier ones left behind.          *)
(*                                                                         *)
(* A request is one session: check, resolve, open, drain, then rounds of   *)
(* one command and one reply.  A reply is the kind of its contents and the *)
(* session whose command it answers, and one read takes it: the reads that *)
(* empty an endpoint take 64 bytes each, so a status counts once but a     *)
(* long report as often as it has parts.  All USB printers are Brother's   *)
(* and have one vendor and product id; an address of the bus that was      *)
(* resolved is not given to another printer before it is opened.           *)
(***************************************************************************)
EXTENDS Integers, Sequences, FiniteSets

CONSTANTS
    Session,     \* requests
    Printer,     \* physical printers
    Place,       \* bus addresses, as usb-device:VID:PID:BUS:ADDRESS names them
    None,        \* nobody, nowhere, no serial number
    Serial,      \* Printer -> serial number, or None
    Product,     \* Printer -> what its product string says: "wireless", "wired" or None
    Usb,         \* printers that are plugged into the bus; the others are on a
                 \* network, a serial port or nowhere
    Readable,    \* printers with a bulk IN endpoint
    Silent,      \* printers that never send a status without being asked
    Request,     \* requests: [op, kind, device, to, model]; the model is the saved
                 \* one's: "wireless", "wired", "other", "unknown", or "unasked"
                 \* where the command line does not look at it
    DrainLimit,  \* reads in which a USB session throws replies away at most
    QueueLimit,  \* bound on the replies a printer keeps
    MaxPlugs     \* bound on plugging and unplugging

ASSUME DeviceAssumption ==
    /\ DrainLimit \in Nat /\ QueueLimit \in Nat /\ MaxPlugs \in Nat
    /\ Usb \subseteq Printer /\ Readable \subseteq Printer /\ Silent \subseteq Printer
    /\ Session \cap Printer = {} /\ None \notin Session \cup Printer \cup Place
    /\ Product \in [Printer -> {"wireless", "wired", None}] /\ None \notin {"wireless", "wired"}

VARIABLES
    at,          \* where on the bus each printer is
    claimed,     \* the session that has a printer's interface or port
    inbox,       \* commands a printer has received and not answered
    channel,     \* replies on their way: at a printer's endpoint or port, or in
                 \* the connection of a session
    request,     \* what each session is about
    stage,
    target,      \* the printer a session talks to
    drained,     \* replies a session has thrown away
    replies,     \* replies a session has read
    shown,       \* what the caller is told of the printer
    plugs,
    \* history
    commands,    \* commands that printers received
    meant,       \* printers that the request's device named when it was made
    late         \* sessions that began while an older command was unanswered

sessionVars == <<request, stage, target, drained, replies, shown>>
vars == <<at, claimed, inbox, channel, sessionVars, plugs, commands, meant, late>>

-----------------------------------------------------------------------------
(* What a request does.                                                    *)

Administration == {"scan", "wireless", "report", "configure"}
NeedsWireless  == {"scan", "wireless", "configure"}

\* What the commands ask for: the printers that are administered, and those
\* that print by selector, are named by their USB selector.
Asked(r) ==
    r.model = "unasked" /\ r.op \in Administration \cup {"print"} => r.kind = "selector"

\* All but a selector, ids and a file name the device that they lead to.
ASSUME RequestAssumption ==
    \A r \in Request :
        /\ r.op \in Administration \cup {"status", "probe", "print"}
        /\ Asked(r) /\ (r.op = "print" => r.model = "unasked")
        /\ r.to \in IF r.kind \in {"selector", "ids", "file"} THEN {None} ELSE Printer \ Usb

Kind(s) == request[s].kind
Op(s)   == request[s].op

\* Links whose replies outlive a session: USB by selector or by ids, serial.
Lasting == {"selector", "ids", "serial"}

\* A probe only opens the transport, except where it is a status query; so
\* does the status of a printer that is not a Brother, and a command's over TCP.
OpensOnly(r) ==
    \/ r.kind = "file"
    \/ r.op = "probe" /\ r.kind \notin {"selector", "ipp"}
    \/ r.op = "status" /\ r.model = "unasked" /\ r.kind \in {"stream", "query"}
    \/ r.op = "status" /\ r.model = "other" /\ r.kind \notin {"selector", "ipp"}

\* Answered without contact: a command's status of a link that it cannot ask,
\* and the status of a model that is not in the table.
Uncontacted(r) ==
    /\ r.op = "status"
    /\ \/ r.model = "unasked" /\ r.kind = "ids"
       \/ r.model = "unknown" /\ r.kind # "ipp"

\* How often a command is written: the wireless fields are asked for one by one.
Rounds(op) == IF op = "wireless" THEN 2 ELSE 1

\* The wireless settings are written and nothing is read.
Answered(op) == op # "configure"

\* Whether a reply may be one that rejects the request: ipp_post looks at the
\* status code of an IPP answer, ipp_query does not.
Acceptance(kind) == IF kind = "ipp" THEN BOOLEAN ELSE {TRUE}

\* What a printer replies to a command.
Contents(op) == IF op \in {"probe", "print"} THEN "status" ELSE op

\* The parsers: a status is a frame of 32 bytes, a report has its sections; the
\* wireless answers are searched for what they hold.
Parses(op, reply) ==
    /\ op \in {"status", "probe"} => reply.contents = "status"
    /\ op = "report" => reply.contents = "report"
    /\ reply.accepted

\* What a session that ends shows: the transport is gone, and a status that
\* failed is an answer too, with the media that were saved.
Outcomes == {"nothing", "connected", "unavailable", "error"}
Stages == {"idle", "resolving", "opening", "draining", "opened", "writing", "reading", "done"}

-----------------------------------------------------------------------------
(* Finding the printer.                                                    *)

Attached == {p \in Printer : at[p] # None}

\* The selector is a place of the bus, or a serial number.
Names(p, device) == at[p] = device \/ (Serial[p] # None /\ Serial[p] = device)

Candidates(device) == {p \in Attached : Names(p, device)}

\* Mutant of Resolvable: the model is not looked at.
Resolvable_AnyModel(op, device) ==
    {p \in Candidates(device) : Candidates(device) = {p} /\ p \in Readable}

\* Exactly one candidate, which can be read, and of a model that the operation
\* is for.
Resolvable(op, device) ==
    {p \in Candidates(device) :
        /\ Candidates(device) = {p}
        /\ p \in Readable
        /\ op \in NeedsWireless => Product[p] = "wireless"
        /\ op \in {"status", "probe", "report"} => Product[p] # None}

\* The administration routes look at the transport and the saved model first,
\* the commands at the transport alone.
Allowed(r) ==
    r.op \in Administration =>
        /\ r.kind = "selector"
        /\ r.op \in NeedsWireless => r.model \in {"wireless", "unasked"}
        /\ r.model \notin {"other", "unknown"}

\* What the caller of a request is told that contacts no printer.
Unserved(r) ==
    IF ~Allowed(r) THEN "error" ELSE IF r.model = "unknown" THEN "unavailable" ELSE "nothing"

\* The printers a session may come to talk to.  Ids take the first printer
\* that has them, whichever the bus lists first.
Reachable(r) ==
    CASE r.kind = "selector" -> Resolvable(r.op, r.device)
      [] r.kind = "ids"      -> Attached
      [] OTHER               -> {r.to}

-----------------------------------------------------------------------------
NoRequest == [op |-> "status", kind |-> "file", device |-> None, to |-> None, model |-> "other"]

Init ==
    /\ at \in [Printer -> Place \cup {None}]
    /\ \A p \in Printer : at[p] # None => p \in Usb /\ \A q \in Printer \ {p} : at[q] # at[p]
    /\ claimed = [p \in Printer |-> None]
    /\ inbox = [p \in Printer |-> <<>>]
    /\ channel = [c \in Printer \cup Session |-> <<>>]
    /\ request = [s \in Session |-> NoRequest]
    /\ stage = [s \in Session |-> "idle"]
    /\ target = [s \in Session |-> None]
    /\ drained = [s \in Session |-> 0]
    /\ replies = [s \in Session |-> <<>>]
    /\ shown = [s \in Session |-> "nothing"]
    /\ plugs = 0
    /\ commands = {} /\ meant = [s \in Session |-> {}] /\ late = {}

Goto(s, next) == stage' = [stage EXCEPT ![s] = next]

\* A session ends: the transport is dropped, and with it the claim and the
\* connection.
End(s, what) ==
    /\ Goto(s, "done")
    /\ shown' = [shown EXCEPT ![s] = what]
    /\ claimed' = [p \in Printer |-> IF claimed[p] = s THEN None ELSE claimed[p]]

Failed(s) == End(s, IF Op(s) = "status" THEN "unavailable" ELSE "error")

Start(s, r) ==
    /\ stage[s] = "idle"
    /\ request' = [request EXCEPT ![s] = r]
    /\ meant' = [meant EXCEPT ![s] = IF r.kind = "selector" THEN Candidates(r.device) ELSE {}]
    /\ IF Allowed(r) /\ ~Uncontacted(r)
       THEN Goto(s, "resolving") /\ UNCHANGED shown
       ELSE Goto(s, "done") /\ shown' = [shown EXCEPT ![s] = Unserved(r)]
    /\ UNCHANGED <<at, claimed, inbox, channel, target, drained, replies, plugs, commands, late>>

Resolve(s) ==
    /\ stage[s] = "resolving"
    /\ \/ \E p \in Reachable(request[s]) :
             /\ target' = [target EXCEPT ![s] = p]
             /\ Goto(s, "opening")
             /\ UNCHANGED <<claimed, shown>>
       \/ Reachable(request[s]) = {} /\ Failed(s) /\ UNCHANGED target
    /\ UNCHANGED <<at, inbox, channel, request, drained, replies, plugs, commands, meant, late>>

\* An interface or a port that another has cannot be opened.
Free(s) == Kind(s) \in Lasting => target[s] # None /\ claimed[target[s]] = None

Open(s) ==
    LET p == target[s]
    IN  /\ stage[s] = "opening"
        /\ \/ /\ Free(s)
              /\ claimed' = IF Kind(s) \in Lasting THEN [claimed EXCEPT ![p] = s] ELSE claimed
              /\ Goto(s, IF Kind(s) \in {"selector", "ids"} THEN "draining"
                         ELSE IF OpensOnly(request[s]) THEN "opened" ELSE "writing")
              /\ UNCHANGED shown
           \/ Failed(s)
        /\ UNCHANGED <<at, inbox, channel, request, target, drained, replies, plugs,
                       commands, meant, late>>

\* The session still has what it opened.
Held(s) == Kind(s) \in Lasting => claimed[target[s]] = s

\* Mutants of Drainable: replies are left; they are thrown away without end.
Drainable_Never(s) == FALSE
Drainable_Always(s) == channel[target[s]] # <<>>

\* A reply that waits at the endpoint is thrown away, up to the limit.
Drainable(s) == channel[target[s]] # <<>> /\ drained[s] < DrainLimit

Drain(s) ==
    /\ stage[s] = "draining" /\ Held(s)
    /\ IF Drainable(s)
       THEN /\ channel' = [channel EXCEPT ![target[s]] = Tail(@)]
            /\ drained' = [drained EXCEPT ![s] = IF @ < DrainLimit THEN @ + 1 ELSE @]
            /\ UNCHANGED <<stage, late>>
       ELSE /\ Goto(s, IF OpensOnly(request[s]) THEN "opened" ELSE "writing")
            /\ late' = IF inbox[target[s]] # <<>> THEN late \cup {s} ELSE late
            /\ UNCHANGED <<channel, drained>>
    /\ UNCHANGED <<at, claimed, inbox, request, target, replies, shown, plugs, commands, meant>>

\* A probe that could open the transport reports the printer ready.
Opened(s) ==
    /\ stage[s] = "opened"
    /\ End(s, "connected")
    /\ UNCHANGED <<at, inbox, channel, request, target, drained, replies, plugs, commands,
                   meant, late>>

\* Where the replies to a session come in.
Source(s) == IF Kind(s) \in Lasting THEN target[s] ELSE s

Command(s) == [session |-> s, op |-> Op(s), via |-> Source(s)]

Write(s) ==
    /\ stage[s] = "writing" /\ Held(s)
    /\ inbox' = [inbox EXCEPT ![target[s]] = Append(@, Command(s))]
    /\ commands' = commands \cup {[session |-> s, to |-> target[s]]}
    /\ IF Answered(Op(s))
       THEN Goto(s, "reading") /\ UNCHANGED <<claimed, shown>>
       ELSE End(s, "connected")
    /\ UNCHANGED <<at, channel, request, target, drained, replies, plugs, meant, late>>

\* The first reply that is there, whosever it is.
Read(s) ==
    LET c == Source(s)
        reply == Head(channel[c])
    IN  /\ stage[s] = "reading" /\ Held(s) /\ channel[c] # <<>>
        /\ channel' = [channel EXCEPT ![c] = Tail(@)]
        /\ replies' = [replies EXCEPT ![s] = Append(@, reply)]
        /\ IF Len(replies[s]) + 1 < Rounds(Op(s))
           THEN Goto(s, "writing") /\ UNCHANGED <<claimed, shown>>
           ELSE IF Parses(Op(s), reply) THEN End(s, "connected") ELSE Failed(s)
    /\ UNCHANGED <<at, inbox, request, target, drained, plugs, commands, meant, late>>

\* A time-out, a write or a read that fails, an interface that is gone.
GiveUp(s) ==
    /\ stage[s] \in {"draining", "writing", "reading"}
    /\ Failed(s)
    /\ UNCHANGED <<at, inbox, channel, request, target, drained, replies, plugs, commands,
                   meant, late>>

SessionStep(s) ==
    Resolve(s) \/ Open(s) \/ Drain(s) \/ Opened(s) \/ Write(s) \/ Read(s) \/ GiveUp(s)

-----------------------------------------------------------------------------
(* The printers.                                                           *)

Reply(session, contents, accepted) ==
    [session |-> session, contents |-> contents, accepted |-> accepted]

\* A reply comes back the way its command came; on a connection that was
\* closed it is lost.
Answer(p) ==
    /\ inbox[p] # <<>>
    /\ LET c == Head(inbox[p])
           open == \/ c.via \in Readable
                   \/ c.via \in Session /\ stage[c.session] = "reading"
       IN  /\ inbox' = [inbox EXCEPT ![p] = Tail(@)]
           /\ \E accepted \in Acceptance(Kind(c.session)) :
                channel' = IF open /\ Answered(c.op) /\ Len(channel[c.via]) < QueueLimit
                           THEN [channel EXCEPT ![c.via] =
                                    Append(@, Reply(c.session, Contents(c.op), accepted))]
                           ELSE channel
    /\ UNCHANGED <<at, claimed, sessionVars, plugs, commands, meant, late>>

\* A status that nobody asked for: a cover opened, a phase changed.
Tell(p) ==
    /\ p \in Readable \ Silent /\ Len(channel[p]) < QueueLimit
    /\ channel' = [channel EXCEPT ![p] = Append(@, Reply(None, "status", TRUE))]
    /\ UNCHANGED <<at, claimed, inbox, sessionVars, plugs, commands, meant, late>>

\* A session that has found the printer and not opened it finds it gone, even
\* if it comes back.
Unplug(p) ==
    /\ plugs < MaxPlugs /\ at[p] # None
    /\ at' = [at EXCEPT ![p] = None]
    /\ claimed' = [claimed EXCEPT ![p] = None]
    /\ inbox' = [inbox EXCEPT ![p] = <<>>]
    /\ channel' = [channel EXCEPT ![p] = <<>>]
    /\ target' = [s \in Session |->
                    IF target[s] = p /\ stage[s] = "opening" THEN None ELSE target[s]]
    /\ plugs' = plugs + 1
    /\ UNCHANGED <<request, stage, drained, replies, shown, commands, meant, late>>

Plug(p, place) ==
    /\ plugs < MaxPlugs /\ p \in Usb /\ at[p] = None
    /\ \A q \in Printer : at[q] # place
    /\ at' = [at EXCEPT ![p] = place]
    /\ plugs' = plugs + 1
    /\ UNCHANGED <<claimed, inbox, channel, sessionVars, commands, meant, late>>

Next ==
    \/ \E s \in Session : SessionStep(s) \/ \E r \in Request : Start(s, r)
    \/ \E p \in Printer : Answer(p) \/ Tell(p) \/ Unplug(p) \/ \E place \in Place : Plug(p, place)

Spec == Init /\ [][Next]_vars

\* A request that was begun goes on, in a blocking task of its own: connecting
\* and reading have time-outs, and a command over TCP is smaller than the send
\* buffer of its new connection.  (A USB read that is repeated with less than a
\* millisecond left may have none: that it does not wait for ever is assumed.)
\* Printers and people need not do anything.
FairSpec == Spec /\ \A s \in Session : WF_vars(SessionStep(s))

-----------------------------------------------------------------------------
(* Properties.                                                             *)

Replies  == [session : Session \cup {None}, contents : {"status"} \cup Administration,
             accepted : BOOLEAN]
Commands == [session : Session, op : Administration \cup {"status", "probe", "print"},
             via : Printer \cup Session]

\* Every variable has its type.  No two sessions hold one interface, as a
\* session has one target, and what is held is held by a session under way.
RequestTypeOK ==
    /\ at \in [Printer -> Place \cup {None}]
    /\ claimed \in [Printer -> Session \cup {None}]
    /\ \A p \in Printer : claimed[p] # None =>
            /\ target[claimed[p]] = p
            /\ stage[claimed[p]] \in {"draining", "opened", "writing", "reading"}
    /\ inbox \in [Printer -> Seq(Commands)]
    /\ channel \in [Printer \cup Session -> Seq(Replies)]
    /\ \A c \in Printer \cup Session : Len(channel[c]) <= QueueLimit
    /\ request \in [Session -> Request \cup {NoRequest}]
    /\ stage \in [Session -> Stages]
    /\ target \in [Session -> Printer \cup {None}]
    /\ drained \in [Session -> 0..DrainLimit]
    /\ replies \in [Session -> Seq(Replies)]
    /\ \A s \in Session : Len(replies[s]) <= Rounds(Op(s))
    /\ shown \in [Session -> Outcomes]
    /\ plugs \in 0..MaxPlugs

\* A session that found the printer in order read replies to its own commands.
\* Sessions that gave up before their reply came leave it at the endpoint, and
\* opening throws it away, so a status or a report is never an earlier
\* request's, as long as no more than DrainLimit reads are needed for those that
\* can be waiting (the instances have at most one session more, and replies of
\* one read: eight reads do not empty the endpoint of a long report).  Printers that speak unasked,
\* replies that come only after the endpoint was emptied, and serial ports,
\* which are not emptied, are left out: there the code does show an old reply.
AnswersAreOwn ==
    \A s \in Session :
        /\ shown[s] = "connected" /\ s \notin late /\ Kind(s) # "serial"
        /\ target[s] \in Silent
        => \A i \in DOMAIN replies[s] : replies[s][i].session = s

\* The administration of a printer goes over USB, to a printer whose product
\* string says that it is of a model that has it and which the request's device
\* names still when the command goes out.  If nothing was plugged in meanwhile,
\* no other printer has that name: of two printers with one serial number
\* neither is administered.
AdministersTheNamed ==
    [][\A c \in commands' \ commands :
        LET r == request[c.session]
        IN  r.op \in Administration =>
                /\ Product[c.to] # None
                /\ r.op \in NeedsWireless => Product[c.to] = "wireless"
                /\ Names(c.to, r.device)
                /\ plugs = 0 => Candidates(r.device) = {c.to}]_vars

\* A request that was made is answered, whether the printer answers, chatters,
\* is silent, is pulled out or belongs to another session.
RequestsEnd == \A s \in Session : stage[s] # "idle" ~> stage[s] = "done"

\* A saved USB selector means one printer.  It does not when it is a place on
\* the bus: after a replug the place may be another printer's.
MeansTheSamePrinter ==
    \A c \in commands : request[c.session].kind = "selector" /\ meant[c.session] # {}
        => c.to \in meant[c.session]
=============================================================================
