# A verification development for mb-printer-cli

TLA+ models of the print service and the command line in `src/`, TLC
configurations that check them on small instances, and TLAPS proofs of what
matters most for every instance.

`mb-printer` is a command line program and a local service that prints labels.
Its core is a *shared job executor*: HTTP clients and a cloud agent submit print
requests, a blocking worker per job streams a plan of transport steps to a
printer, and whoever submitted can poll, follow or cancel the job. A wrong
verdict costs paper or loses a label, so the code takes care to say
`outcome-unknown` when it cannot know. That care is what is modelled first; what
the service remembers (grants, printers), what it asks of printers besides
printing, and what the command line does with its inputs come after it.

## 1. Inventory

| Part | Source | State | Operations | What makes it correct |
|---|---|---|---|---|
| Job executor | `src/api/jobs.rs`, `src/jobs.rs` | the maps `jobs`, `events`, `cancellations`, `connection_executions` of `ApiState`; the jobs file; per worker the cancel flag, the progress and `potentially_accepted_write` | `submit`, the worker, `cancel_job`, `load_jobs`/`save_jobs` | one job and one print per idempotency key; one job at a time per connection; verdicts borne out by the printer; unfinished jobs never evicted; every accepted job finishes |
| Event stream | `src/api/jobs.rs` (`job_events`) | a 32-slot broadcast channel per job | snapshot, subscribe, follow | a follower is shown one outcome, the job's, whatever the channel drops |
| Cloud agent | `src/cloud/agent.rs`, part of `src/api.rs` | a session with the broker, a 16-slot outgoing channel, one reporter task per accepted delivery | `run`, `run_session`, `receive_job`, `report_job`, `submit_cloud_job`, `cancel_cloud_job` | nothing acknowledged or printed before it is durable; redelivery does not print again; the broker learns a true outcome |
| Cloud job store | `src/cloud/store.rs` | a map of cloud jobs, and its file | `receive`, `save`, `reconcile_interrupted` | an outcome is final; a conflicting digest never prints |
| Grants | `src/auth.rs`, routes of `src/api.rs` | `grants.json` and one in-memory copy per process: grants, at most one pairing code, at most one Wi-Fi approval | pair, exchange, authenticate, rotate, revoke, prepare/approve/consume | a pairing code is used once; a revoked grant stays revoked; an approval is consumed once, by its grant |
| Printer store | `src/printers.rs`, `save_connections` of `src/api.rs`, `printer` commands of `src/main.rs` | `printers.json`, one copy per running command, the service's map of connections; `connections.json` of earlier versions | migrate, add, rename, remove, default, endpoint add/remove/prefer, connect | a name selects one printer; an answered edit stays; the default keeps its printer |
| Requests to devices | `src/printer_ops.rs`, `src/transport.rs`, `src/device.rs`, routes of `src/api.rs` | what is plugged in where, who has claimed an interface, replies left at an endpoint | resolve, open, drain, write, read; status, probe, scan, wireless status, configure, report | answers are one's own; administration reaches the printer that was named; every request ends |
| Printing commands | `src/main.rs`, `src/cli.rs`, `src/config.rs` | the merged options, the batch, the position in it | `print`, `laposte print`, `printer test` | the selected records in order to one printer; nothing of a batch that cannot be read; settings by precedence |
| One request's plan | `src/api/jobs.rs` | none that lasts: sizes, rasters, cut counter, batch progress | validate, render, plan, `batch_position` | cuts where asked; progress names the label; nothing larger than what is loaded |
| Cloud enrollment, configuration, discovery, network | `src/cloud/*.rs`, `src/config.rs`, `discovery.rs`, `network.rs` | none that lasts | one exchange, scans, file reading | input and output |
| Rendering | `src/raster.rs`, `laposte.rs`, `assets.rs` | none | pixels, layout | pure data |

How they interact: an HTTP handler (or `receive_job`) calls `submit`, which
inserts the job into the map under the write lock, saves the file, registers the
event sender and the cancel flag, and spawns the worker on a blocking thread.
The worker takes the connection's mutex, writes to the printer, publishes events,
and puts the final job into the map and the file. `cancel_job` shares the flag
with the worker and the map with everybody; `job_events` shares both the map and
the channel. The cloud agent keeps its own copy of each job in the cloud store
and follows the executor's map by polling. Status and administration requests
share the devices with the workers, but no lock. Service and commands share
`grants.json` and `printers.json`, but only the jobs of one process share memory.

Hard to test, and so the source of the properties: every `.await` of `submit` is
a place where other calls run and where a disconnecting client ends the call;
two tasks write the same map entry; saves fail; the process stops between any
two steps while the printer keeps what it got; the broker delivers a job again
while an earlier delivery is still at work; results are lost with a session; two
programs load, edit and write one file; a reply outlives the request it answers;
a selector is resolved and then the cable is pulled. `PROJECT.json` lists the
hazards line by line.

## 2. Modules

    PrintJournal        what the jobs file promises about the printer (abstract)
         ^ INSTANCE ... WITH
    JobExecutor         submit, worker, cancel, crash, restart
         ^ EXTENDS
         +-- MCJobExecutor, JobExecutorProofs
         +-- JobEvents       the event streams on top of every step
         |       +-- MCJobEvents, JobEventsProofs (on JobExecutorProofs)
         +-- CloudAgent      the agent, its store and the broker on top
                 +-- MCCloudAgent, CloudAgentProofs (on JobExecutorProofs)

    GrantStore          codes, grants, approvals; service, commands, file
         +-- MCGrantStore, GrantStoreProofs
    PrinterStore        printers.json; service, commands, migration
         +-- MCPrinterStore, PrinterStoreProofs
    DeviceRequests      requests beside the executor, USB and other links
         +-- MCDeviceRequests, DeviceRequestsProofs
    PrintCommand        one run of a printing command
         +-- MCPrintCommand, PrintCommandProofs
    LabelPlan           one request: checks, rasters, cutter, progress
         +-- MCLabelPlan, LabelPlanProofs

### JobExecutor

A *call* is one execution of `submit`. It creates at most one job and one
worker, so both carry its name. The stages of `call[c]` are the places between
two awaits:

| `call[c]` | Where `submit` is | Action that leaves it |
|---|---|---|
| `idle` | before the first lookup | `Lookup` (read lock: replay, conflict, or go on) |
| `planning` | validating, rendering, planning | `Reject`, `Insert` |
| `inserted` | the job is in the map and the file | `RegisterEvents` |
| `evented` | the event sender is registered | `RegisterCancellation` |
| `registered` | the cancel flag is registered | `Spawn` |
| `accepted`, `replayed`, `conflict`, `rejected`, `busy`, `unsaved` | answered | - |
| `dropped` | the client went away (`Disconnect`) or the process stopped | - |

`Insert` is everything done under the write lock: the second lookup of the key,
the eviction of a finished job when the map is full, the insert and the save.
When the save fails the answer is an error but the job stays in the map, as in
the code.

The stages of `worker[c]` are those of the blocking closure: `Begin` takes the
connection's lock and announces `running`, `Open` opens the transport,
`ExecuteRead` performs a step that reads, `ExecuteWrite` the check of the cancel
flag before a write (where `Cancellable` makes it), `TransportWrite` the write, so
that a cancel may come between the two (stage `writing`). `Judge` computes the
verdict, `Publish` sends it on the channel, `Finish` overwrites the map's entry,
saves (ignoring an error) and releases the lock. IPP jobs run the plan into a
buffer (`IppCapture`), look at the flag once more (`IppCheck`) and send it in one
request, which may take its time (`IppPost`, stage `posting`). `sent[c]` is what
the printer may have received: it is not a variable of the code but of the world,
and it survives crashes. `InHand(c)` is what the worker has asked its transport
for and may yet leave.

`Crash` empties memory, `Restart` loads the file (`Loaded`: unfinished jobs
become `outcome-unknown`; with `LoadFaults` the file may also be unreadable, and
then it loads as an empty one).

Abstractions. Time stamps are left out: eviction takes *some* finished job, which
includes the oldest, whatever the wall clock does. A plan is a short sequence of
`subscribe`, `write` and `wait` steps, a write is its position in it. The reason a
request is rejected is not told apart here (`LabelPlan` has those that relate
several fields). The file is replaced as a whole (write to a temporary file, then
rename), so a crash leaves the old or the new file.

### PrintJournal

The abstract specification of the file. Its `entry[c]` is the verdict a restart
*would* give of call c at this moment. It says: an entry is opened before the
first write; while it is open it reads `outcome-unknown`; it is settled once,
with a verdict that the wire bears out; after that it can only be forgotten, and
nothing is written any more. `JobExecutor` implements it under the mapping in
`JobExecutor!Journal`.

### JobEvents

Takes every step of `JobExecutor` as it is and adds what the step sends on the
job's channel: the worker announces `running` (`Begin`), each finished step of the
plan and the terminal state (`Publish`, before `Finish` puts it into the map); a
cancel handler sends the job as it finds it. `follow[f]` is one execution of
`job_events`: `Snapshot` reads the map, `Subscribe` comes after an await, `Hear`
takes one event. A full channel forgets its oldest event. An event is the job's
state; its counters are left out.

What the code does and no property denies: the last event of a stream need not be
terminal (a cancel handler may send after the worker), and an outcome that is
sent between `Snapshot` and `Subscribe` is not shown, so
`OutcomeReachesFollower` starts from a follower that has subscribed. An outcome
that is in the channel can be pushed out of it only between `Publish` and
`Finish`: a cancel handler sends then too, and as many of them as the channel has
places (32 in the code) leave a slow follower nothing but `cancel-requested`
(`Displaced`). The property names this as its one exception, and `exec_events`
reaches it, with one handler and a channel of one.

### CloudAgent

Extends the executor: a call is one *delivery* of a cloud job, the job's id is the
job's own (`IdOf`), and so is its key (`cloud\0` + id). `recv[c]` follows
`receive_job`, `rep[c]` follows the reporter it spawns. `main` is what
`run_session` is busy with: it handles one message at a time, so deliveries and
cancellations exclude each other, while workers and reporters run beside them.
The broker is external. What is assumed of it: it sends an unfinished job at most
once a session and never one it has a result of; it takes messages in order; a
lost session loses what it has not taken. The executor runs without a jobs file
(`cloud connect` sets `jobs_path` to none), so `Durable` is FALSE.

Left out: heartbeats and Hello repeat the store's unfinished jobs and carry no
state the modelled broker depends on; tokens and TLS.

### GrantStore

Three kinds of copies of one record (`grants`, `pairing`, `approval`): `file`
(`grants.json`), `memory` (the service's `AuthStore`) and `copy[x]` (what a
command has loaded). `Load` and the action that writes are two steps, because
`wifi approve` waits for a person between them; a write replaces the whole file.
`Pair` and `Configure` read the file first and do everything under the write lock;
`Rotate`, `Revoke` and `Prepare` act on `memory` as it is, some time after
`Authorize` (the read lock is given back in between). Every save may fail and
leave the memory ahead of the file. An exchange saves twice: forgetting the code,
then issuing the grant.

A grant and an approval are named by the request that created them, a code by
the command that printed it, a token by whoever it was made for: the code draws
them at random, so they are never equal by chance. A token is presented only if
it was told to somebody. An origin is a property of a request (`OriginOf`); a
change stands for the connection together with the fingerprint of the settings.
The device call of `configure` is not a step of its own; an approval is consumed
even when that call then fails. The history variables (`exchanged`, `prepared`,
`confirmed`, `applied`, `ended`, `overlap`) record what happened; no action reads
them. `overlap` becomes true when a command writes over something it has not read.

### PrinterStore

`file` is `printers.json`, `copy[x]` what a command has loaded, `connections` the
service's map, `legacy` the list an earlier version left. A command migrates if
there is something to migrate (two steps: it reads, then writes), loads, makes
one edit (`Edits`, one operator per subcommand: `Added`, `Renamed`, `Removed`,
`Defaulted`, `EndpointAdded`, `EndpointRemoved`, `EndpointPreferred`), validates
(`Valid`) and writes the whole file. The service fills its map when it starts and
writes all of it back in `Connect` (`save_connections`): each connection takes its
name and endpoints from the printer that `find` finds for its id, which may be
any of several. `overlap` and `seen` record writes over what was not read.

A word may be an id, a name and a selector; `Fold` says which words are one in
another case. Settings, descriptions, status and media are carried along by
every operation and are left out; transports are names, with `Uri` as their text.

What the code does and no property denies: a transport the store does not know
(`Foreign`) is answered 200 and not saved; a failed save leaves the connection in
memory; a printer whose name is another's id in another case makes a default
given by id ambiguous; load, edit and save are not one critical section.

### DeviceRequests

A *session* is one status, probe or administration request, or one print of a
command over USB: `Start` (the route's checks), `Resolve` (selector, model,
readable endpoint), `Open` (claim), `Drain` (throw away what up to 8 reads find
waiting; `DrainLimit`), then rounds of `Write` and `Read`, and `GiveUp` for every
time-out and failure. A status for a model that is not known, or of a USB printer
for which no model was given, is answered without contacting anything
(`Uncontacted`). `claimed` is the operating system's: a USB interface and a serial port
have one owner. `channel` is where replies wait: at the endpoint or port, where
they outlive the session, or in a connection, where they do not. A reply is its
kind and the session it answers, and one read takes it. The reads that empty an
endpoint are of 64 bytes (`transport.rs:481-488`): a status is one of them, a
long report that was given up counts as often as it has parts. The world does the rest: `Answer`, `Tell` (a
status nobody asked for), `Unplug`, `Plug`.

What the code does and no property denies: these requests do not take the
executor's lock, so they fail with "unavailable" while a job prints and may make
a job fail to open, and neither tries again; serial ports are not drained, and a
reply may arrive after the draining, so an old status can be shown there; the
parsers of scans and wireless settings take any answer that holds their fields;
opening by vendor and product id takes the first match; eight reads do not
empty an endpoint of a report longer than 512 bytes; `ipp_query` does not look
at the IPP status code, `ipp_post` does; a saved USB connection that has only a
`device` selector can be probed and asked for its status but no API job prints on
it.

### PrintCommand

One run from its inputs to what the adapters were given: `ResolveSavedPrinter` and
`ApplyConfigDefaults` merge options, saved printer and configuration (twice the
same operator, `Completed`, which takes a value equal to the parser's default for
a value not given); `Expand` reads the rows up to the limit; `PlanRecord` and
`Execute` take record after record, and the first error ends the run (a dry run
may fail too, when its capture cannot be written). Inputs are *scenes*: records
of options, store, configuration and rows. The parser fills in its own values, so
a setting of the options does not say whether it was given; `spelled` holds those
that were, for `SpelledOutStands` only: no action reads it.

What the code does and no property denies: a URI does not carry the baud rate of
a serial endpoint or the certificate of an IPP endpoint; a saved setting that
equals the parser's default yields to the configuration's; a limit of 0 prints
one record; a dry run with a configured model ignores the saved printer. A
setting spelled out with the parser's own value is taken for one that was not
given: that is finding 4.

### LabelPlan

One request from `submit`'s checks to the last label: `Acceptable` gathers the
checks, `MakePlan` sets the cutter and the plan's actions, `ExecuteAction` performs
one and reports the batch's position as `batch_position` computes it. `tape` is
what was written to the transport, label by label. For an IPP printer that is the
document captured for it: its progress is reported while the capture runs
(`api/jobs.rs:478`), before anything is on its way. Lengths are in one unit; pixels
are left out, but sizes are rounded as `scale_to_width` and `fit_to_box` round
them (`ScaledTo`, `FitBox`), and the resolution of a document is a mark that
`SameRoll` compares. `Panic` is the end of a request whose artwork, scaled for its
box, is higher than the box (finding 5).

What the code does and no property denies: for models that print sideways the
media check and the fitting look at different orientations
(`FitsWhatIsLoaded` leaves them out); a loaded width without a length gives no
box to fit into; plans for other makes have no announcements to count, so the
progress of a batch stays at its first item.

## 3. What TLC checks

`Call`, `Id`, `Conn`, `Canceller`, `Request`, `Command`, `Session`, `Printer` and the like
are small sets of model values. `CHECK_DEADLOCK` is FALSE everywhere: when all calls
have finished, all requests are answered or the command is over, the system
rightly stops.

| Run | Instance | Properties | Shows |
|---|---|---|---|
| `exec_events` | 3 submissions with one key, one of them with another body, an IPP job among them; plan of two writes; 1 cancel handler, 1 follower, a channel of 1; one client may disconnect; failing saves, 1 crash | `OneJobPerKey`, `OnePrintPerKey`, `CancelReachesWorker`, `ShownStands`, `OneOutcomeShown`, `OutcomeReachesFollower` | concurrent and later retries, also across a restart, find the one job or conflict; a cancel that names a job with a worker reaches it, also when a retry sent it; a follower is shown one outcome, the job's, and what the channel took reaches it unless as many cancels as places push it out |
| `exec_jobs` | 3 jobs, two on one connection, one without, an IPP job among them; plan subscribe-write-wait; map of 2; 1 cancel handler, a disconnect, failing saves, 1 crash, an unreadable file | `HonestVerdict`, `ConnectionExclusive`, `LiveJobRetained`, `RetentionBound`, `TerminalStands`, `DurableVerdictStands`, `JournalKept` | verdicts agree with the wire whenever a cancel or a crash comes; locks, eviction, and the refinement of `PrintJournal` |
| `exec_live` | 3 jobs, one of them IPP, one transport may hang, a cancel, 1 crash, working saves | `UnfinishedIsActive`, `AcceptedFinishes` | an accepted job finishes; a hanging transport holds up its connection only |
| `cloud_delivery` | 3 deliveries of a job, one with another digest; a cancel; channel of 2; failing saves, 1 lost session, 1 crash, coarse clock | `CloudTypeOK`, `StoredFirst`, `StoredDigestOnly`, `OnePrintPerLife`, `HonestResult`, `OutcomeStands` | nothing is said or printed of a job that is not durable; redelivery prints once and results are true while the process lives; a stored outcome is final while the session lasts |
| `cloud_live` | 2 deliveries of a job, one of a job for an unpublished printer; a cancel, 1 lost session, channel of 1 | `ResultReported` | a delivered job comes to an outcome the broker knows |
| `grants` | 4 requests, 2 commands, 2 changes, failing saves, 1 restart, lives of 1 or 2 ticks in a time of 2 | `GrantTypeOK`, `PairedOnce`, `AppliedOnce`, `AppliedAsApproved`, `EndedStays` | codes and approvals work once and only as confirmed; what the service ended stays ended |
| `printers` | 2 commands, the service, 1 restart, 2 transports, words that differ in case only, a list of an earlier version, failing saves | `NamesSelectOne`, `AnsweredStands`, `DefaultStillFinds` | a name selects one printer whoever wrote last; an answered edit stays unless another overlapped it |
| `link` | 2 requests out of 11 kinds; two USB printers with one serial number, a networked one; 1 replug | `AnswersAreOwn`, `AdministersTheNamed`, `RequestsEnd` | own answers, the named printer, and an end |
| `print` | every combination of named, default, only and configured printer, transports and settings; every batch of up to 3 rows with a fault in any of them, limits 0 to 2 | `BatchInOrder`, `NothingOfABadBatch`, `OneTarget`, `SettingsInOrder` | the selected records in order to one printer, nothing of a batch that cannot be read |
| `labels` | batches of 1 to 3 documents with 1 to 4 copies and every way to cut; labels of 5 widths and 3 heights against 5 printers and 5 loaded labels | `CutsAsAsked`, `ProgressNamesTheLabel`, `FitsWhatIsLoaded` | cuts where asked, progress that names the label, nothing larger than what is loaded |
| `exec_zombie` | 2 jobs, a disconnect, failing saves | `UnfinishedIsActive` is violated | finding 1 |
| `cloud_restart` | 2 deliveries, 1 crash | `OnePrintPerKey` is violated | finding 2 |

Bounds, and why they are enough. Three calls are two that compete and one that
meets what they left behind; the hazards listed involve two actors and one
disturbance. One crash separates "before" from "after"; a second crash meets
nothing a first does not, because `Restart` leaves a map of finished jobs. Map
sizes of 2 with three jobs make eviction happen. `exec_jobs` has a read on both
sides of the write, and its one canceller comes at every place of every job, the
gap between the check of the flag and the write included. `exec_events` has two
writes, so that a cancel during the first must stop the second; its canceller
learns the id from any submission that was answered, a retry before the flag is
registered included. With the announcements more events go out than its channel
holds, the follower may lag at any of them, and one cancel handler can fill the
channel, as 32 can in the code. One lost session gives two generations of reporters. A channel of one or two slots makes
senders wait. Four requests and two commands are the shortest life of an approval
(pair, prepare, two tries to configure; a code, a confirmation) and leave room
for a rotation or a revocation instead; a life of one tick in a time of two lets
everything expire at every stage. In `printers` two commands are one edit and
another that overlaps it, and every edit that one command can make meets the
service's write between its load and its save. In `link` the second session meets
what the first left at the endpoint; as it leaves at most one reply and a
printer keeps one (`QueueLimit` = 1), a `DrainLimit` of 1 stands for the code's 8.
`print` and `labels` are exhaustive over their inputs; their largest batch has a
first, a middle and a last document, and `ByteMax` = 6 and `LabelMax` = 9 are
reached by 4 copies of 2 or 3. The bounds by name: `MaxCrashes`, `MaxLosses`,
`MaxRecent`, `Slots`, `MaxTime`, `MaxRestarts`, `ConnectionLimit`, `MaxEndpoints`,
`DrainLimit`, `QueueLimit`, `MaxPlugs`; there are no state constraints. Requests,
commands, changes and transports are alike where TLC uses symmetry (`grants`,
`printers`), and those runs have no liveness property.

The type invariants of `JobExecutor` (`TypeOK`, a conjunct of `CloudTypeOK`),
`JobEvents` (`FeedTypeOK`), `PrinterStore` (`PrinterTypeOK`) and `DeviceRequests`
(`RequestTypeOK`) are proved, and not spent a run on.

Every property has a mutant of the model (operators with a suffix, such as
`Drainable_Never`, next to the definition they change, listed in `PROJECT.json`)
that breaks it.

Fairness. Workers have a thread of their own, and the calls of serial (500 ms),
USB (3 s) and IPP (15 s) transports return by their timeouts: weak fairness of
`Work(c)`, and with what it sends, of `WorkHeard(c)`. TCP's `write_all` and writes to
a file or a FIFO have no timeout; such calls are in `Hanging` and get no fairness,
nor do jobs that wait behind them (`HeldUp`). The service manager restarts the
service: weak fairness of `Restart`. The server polls an open stream: `Hear(f)`.
Nothing is assumed of clients: a submission between two awaits may be dropped, a
follower need not subscribe and a cancel may never come. In `CloudAgent` the
runtime polls every task that can go on, `run` reconnects for ever, and the broker
takes messages and resends unfinished jobs. In `DeviceRequests` a session runs in
a blocking task of its own and its calls return, so `SessionStep(s)` is fair; printers need not answer, and people need not plug anything in. Two of
these calls are fair for other reasons than a time-out: a command written over
TCP (`transport.rs:824` has none) is smaller than the send buffer of the
connection that was just made for it, so the write does not wait for the printer;
and a USB read that is repeated with less than a millisecond left
(`transport.rs:535-539`) may pass libusb a time-out of zero, which is none. That
such a read does not wait for ever is an assumption.

## 4. Findings

1. *A queued job without a worker* (`exec_zombie`). When `save_jobs` fails after
   the insert, or the client disconnects before the spawn, the job stays `queued`
   for ever; it is never evicted, and its key answers with it.
2. *A restart prints a cloud job again* (`cloud_restart`). The executor's map
   never shows `running`, so the store never holds it and `reconcile_interrupted`
   has nothing to reconcile; the redelivered job is submitted again.

Three more have a definition that states what should hold, and no run of their
own; each fails when it is put into the configuration named with it.

3. *A cancel that reaches nobody* (`EveryCancelReaches` in `exec_events.cfg`;
   `docs/api.md:46-47`: jobs "cooperatively cancel"). An exact retry learns the id as
   soon as the job is in the map, two awaits before `submit` registers the cancel
   flag. A cancel through that id is answered with `cancel-requested`; the worker
   starts with a flag that nobody raised and prints everything.
   (`CancelReachesWorker` holds from the spawn of the worker on, and is proved.)
4. *A setting that was spelled out is overridden* (`SpelledOutStands` in `print.cfg`,
   with `Scene <- SpelledOut`; `cli.rs:81`: "explicit overrides").
   `apply_config_defaults` cannot tell `--density 6`, the parser's own value, from no
   `--density` at all, and puts the saved printer's or the configuration's there; the
   baud rate and the payload limit are treated alike.
5. *Fitting a document panics* (`FittingSucceeds` in `labels.cfg`; `raster.rs:172`).
   When the height binds, `fit_to_box` rounds the width for its box, and `scale_to_width` computes the height from that
   rounded width: for artwork higher than wide it is often a dot or more above the
   box (300 by 1200 dots into 696 by 1111 become 278 by 1112). The assertion of
   `raster.rs:172` says otherwise; without it, in a release build, the margin wraps
   and the copy is out of range. An HTTP client is left without an answer; `cloud
   connect` polls `submit` in its main task, so the delivery, which is already on
   file, ends the process.

### Further promises the code does not keep

Each is stated as a definition next to the module's properties. To see it fail,
put it into the named configuration with the change given.

| Definition | What is said | What the code does | To reproduce |
|---|---|---|---|
| `RotationTakesEffect` (`GrantStore`) | `docs/migration.md:13-14`: after `service grant rotate` the old token no longer authenticates | the service uses its own copy until `pair`, `pair_admin` or `configure` reads the file; a `prepare`, `rotate` or `revoke` of the service before that writes its copy over the command's change (the comment at `auth.rs:154-157` knows the case) | `grants.cfg` |
| `LengthsInRange` (`LabelPlan`) | `api/jobs.rs:326`: "continuous document length is outside the printer capability range" | `continuous_protocol_options` is called with the first document only (`api/jobs.rs:748`) | `labels.cfg`, `Scene <- Lengths` |
| `RfcommReached` (`PrintCommand`) | `docs/platform-plan-audit.md:23-24`: saved RFCOMM jobs use the same address and channel as probes | the URI is written `rfcomm:ADDRESS:CHANNEL`, the parser wants `@` before a channel | `print.cfg`, `Scene <- Rfcomm` |
| `FutureKept` (`PrinterStore`) | `docs/cli-ux-simplification-plan.md:95`: unknown future schema versions are never overwritten | `save_connections` takes an unreadable file for an empty one and writes over it | `printers.cfg`, `InitialFiles <- FutureFile` |
| `ConnectionPersisted` (`PrinterStore`) | `docs/api.md:82`: `POST /v1/connection` persists a connection definition | for a known printer the endpoints in the file are kept, not the transport that was sent, so a restart goes back to the old one | `printers.cfg` |
| `MeansTheSamePrinter` (`DeviceRequests`) | `docs/multibrand-driver-and-brother-admin-plan.md:360`, `openapi.yaml:113`: a stable USB selector | without a serial number the selector is a bus address, which after a replug is another printer's | `link.cfg`, `MaxPlugs = 2` |

### Where else a promise stops

The instances of the passing runs, or the conditions in the properties, avoid
these:

- An outcome that `Publish` has sent is not shown to a slow stream when 32 cancel
  handlers send before `Finish` puts it into the map (`Displaced`).
- A jobs file that cannot be read or parsed loads as an empty one, and the next
  save replaces it: its keys are forgotten and a retry prints again. With
  `LoadFaults`, `OnePrintPerKey` fails in `exec_events`.
- The progress of an IPP batch runs to its end before the first byte leaves.
- A long report that was given up takes more than the eight reads of 64 bytes that
  empty an endpoint, and what is left of it is read as the next request's answer.
- An IPP job that is cancelled after the capture but before the request reads
  `cancelled-partial` although nothing left: the verdict errs on the safe side.
- A finished cloud job that the executor evicts before a reporter has stored its
  outcome is printed again when redelivered (`MaxRecent = 1` and a second job in
  `cloud_delivery`).
- `receive_job` stores `submit`'s answer although an earlier delivery's reporter
  may have stored the outcome since: with a lost session, `OutcomeStands` fails
  without its condition.
- A `wifi approve` or `grant revoke` that has loaded the store before the service
  used up a code or an approval writes it back unused (`overlap`): with three
  commands, `PairedOnce` and `AppliedOnce` fail without that condition.
- The reporter recognises a change by a different millisecond: with `CoarseClock`,
  `ResultReported` fails.
- A printer that sends a status unasked, or answers after the endpoint was
  emptied, has its old status shown as the answer to the next request, as does
  every serial printer: `AnswersAreOwn` leaves them out.

## 5. What is proved

Eight modules hold TLAPS proofs, for every value of the constants that satisfies
the named assumptions of the modules (typing of parameters; two calls with one id
have one key, since fresh UUIDs do not collide). Further conditions are ASSUMEs of
the theorem and given in the table.

| Theorem | Statement | Condition | Invariant and argument |
|---|---|---|---|
| `JobExecutorProofs` | | | |
| `TypeCorrect` | `TypeOK` | - | inductive by itself, action by action |
| `Exclusive` | `ConnectionExclusive` | - | `LockHeld`: a worker inside the critical section of a saved connection is the holder of its lock. `Begin` needs the lock free; `Finish` returns only its own |
| `LiveRetained` | `LiveJobRetained` | - | `KeptInv`: a call between insert and accept, and a worker until it is done, have their unfinished job in the map. Eviction takes finished jobs; an insert with the same id has the same key, and would have found it |
| `KeysApart` | `OneJobPerKey` | - | `ApartInv` for map and file; the second lookup under the write lock is what `InsertApart` uses |
| `RetentionBounded` | `RetentionBound` | - | `BoundInv`: map and file are within the bound, and eviction makes room before an insert |
| `VerdictsHonest` | `HonestVerdict` | - | `HonestInv`: `WireInv` ties a worker's stage, its `potentially_accepted_write` and its verdict to what is on the wire; `FinalInv` ties the jobs of map and file to workers that are over |
| `VerdictStands` | `TerminalStands` | - | `PlacedInv`: every job is under its own id; a finished job has no worker left that could write it |
| `RetryPrintsOnce` | `OnePrintPerKey` | `Roomy`: a jobs file that can be read, and `Spacious`, as many places as ids | `RecordedInv`: what is to be printed or has been is in the file, and in memory while the process runs; so the second call with the key finds it |
| `DurableVerdict` | `DurableVerdictStands` | `Fresh`: a jobs file, ids never reused | `JournalInv`: the file is never ahead of memory (`Ahead`) |
| `JournalImplemented` | `JournalKept`: the executor implements `PrintJournal` | `Fresh` | the same invariant; each step maps to opening, writing, settling or forgetting an entry, or to a stutter |
| `CancelHeeded` | `CancelReachesWorker` | - | `RegisteredInv`: the flag registered under a job's id is its worker's own as long as there is one, which needs `KeptInv` (nobody else submits under that id meanwhile). `FlaggedWinds`: with the flag up, a step only finishes the write in hand and judges it cancelled |
| `UnfinishedActive` | `UnfinishedIsActive` | saves succeed, no client disconnects | every unfinished job is attended by a call or a worker |
| `JobEventsProofs` | | | |
| `FeedTypeCorrect` | `FeedTypeOK` | - | a channel never holds more than its places |
| `ShownStandsAlways`, `OneOutcome` | `ShownStands`, `OneOutcomeShown` | `Own`: ids are fresh | `ShowInv`: whatever of an outcome is shown or still in a channel is the worker's verdict, which is in the map or about to be. `FeedSteps` carries the executor's invariants over |
| `CloudAgentProofs` | | | |
| `CloudTypeCorrect` | `CloudTypeOK` | - | `CloudInv == ExecInv /\ AgentInv` |
| `StoredBefore`, `DigestBefore` | `StoredFirst`, `StoredDigestOnly` | - | in `CloudInv`: the store's file only grows, memory is never behind it, and every stage of a delivery after its save is on file with its own digest |
| `OnePrint`, `ResultsHonest` | `OnePrintPerLife`, `HonestResult` | `Spacious`: the executor's map has room for every id | `LifeInv`, until the first crash: `ExecLife` (whoever has a worker holds the place of its id), `Turns` (one delivery at a time, a reporter only after its own), `Answered` and `Ready` (what submit may still answer), and `TrueInv`: an outcome in any of its copies - store, delivery, reporter, channel, broker - is the one the executor's map has, or a refusal of a job that never had a worker |
| `StoredOutcomeStands` | `OutcomeStands` | (no lost session, in the property) | `FirstInv`, with crashes and evictions: `OneHandler` (a job is in the hands of one delivery or reporter of the session), `Unasked` (submit meets no older job under its id), `Level` (an outcome on file is in memory too, and whoever is to write an entry finds none in it) |
| `GrantStoreProofs` | | | |
| `GrantTypeCorrect` | `GrantTypeOK` | - | with `Authorized`: a request past its authorization acts for a grant. Lemmas on the store's operators (`GrantPut`, `StoreChanges`, `ApprovalChanges`) carry lifetimes, `StoreAges` the clock |
| `ChangesAsApproved` | `AppliedAsApproved` | - | `TraceInv`: the approval in every copy of the store says what it was prepared for, its request is over, and it is marked only if a person confirmed it. This survives every write over unread changes, because a write only moves approvals between copies |
| `CodesPairOnce` | `PairedOnce` | (`~overlap` in the property) | `CodesInv`, `ExchangeInv`: what was exchanged is gone from the file and from the service's copy |
| `ApprovalsApplyOnce` | `AppliedOnce` | (same) | `UsedInv`: whatever still has a used approval says that it is used |
| `EndedForGood` | `EndedStays` | (same) | `HomeInv`: every token has one grant that it belongs to in all copies; `DeadInv`: whatever still has an ended token is revoked |
| `PrinterStoreProofs` | | | |
| `PrinterTypeCorrect` | `PrinterTypeOK` | - | `StoredInv`: every printer in every copy has endpoints of which one can be chosen |
| `NamesSelectOneAlways` | `NamesSelectOne` | - | `NameInv`: every copy is `Sound` (names differ from each other and from ids of others) and `Fresh` (a new UUID is nowhere before its command has saved). The code's validation does not ask for the second half of `Sound`; the edits keep it |
| `AnsweredStandsAlways`, `DefaultStillFindsAlways` | `AnsweredStands`, `DefaultStillFinds` | every transport can be saved (`Foreign = {}`), and the marks for a missing and an unreadable file are not stores | `SavedInv`: without overlap a command's copy is the file, the service's map covers what it has seen, and what was answered is in the file |
| `DeviceRequestsProofs` | | | |
| `RequestTypeCorrect` | `RequestTypeOK` | - | an interface is held by the one session that has it as its target |
| `NamedAdministered` | `AdministersTheNamed` | - | `WayInv`: from its resolution on, what a session holds has the name and the model that its request asked for, unless it was unplugged, and then the session holds nothing |
| `AnswersOwn` | `AnswersAreOwn` | `[]FewLeft`: whenever a session opens a quiet USB printer, at most `DrainLimit` replies, of one read each, wait there or are to come | `LinkInv`: while a session empties the endpoint (`Clean`), what waits and what it has thrown away are together within the limit, so that at the limit nothing waits; from then on all at the endpoint is its own, or the session is `late`. `Line`: a connection of its own holds only its own replies |
| `AnswersOwnOfFew` | `AnswersAreOwn` | `FewSessions`: at most `DrainLimit + 1` requests (9 in the code) | `CountInv` gives `FewLeft`: what waits at a printer, and what its session has taken out beyond what it put in (`Spare`), is at most the number of sessions that wrote to it (`Wrote`), since a session writes again only when it has read; the one that opens has not written |
| `PrintCommandProofs` | | | |
| `BatchOrdered`, `BadBatchUnprinted` | `BatchInOrder`, `NothingOfABadBatch` | - | `CommandInv`: the batch holds the selected rows in their order, and exists only if all of it could be expanded; `SentInv`: what was sent is a prefix of it, whole but perhaps for the last. `MinIs` (a set of numbers has a least) makes `LimitReached` the first row beyond the limit |
| `TargetKept`, `SettingsOrdered` | `OneTarget`, `SettingsInOrder` | - | in `CommandInv`: from each stage on, transport and settings are those that options, saved printer and configuration give in that order; a name or a default resolves to one printer, as names are unique in a store that was validated |
| `LabelPlanProofs` | | | |
| `CutsHold` | `CutsAsAsked` | - | `PlanInv`: the plan and the cutter are those of the accepted request; `TapeInv`: label `n` of the tape is label `n` of the plan, cut by the counter. Lemmas on quotients and remainders (`DivMod`, `Halves`, ...) turn the counter into copies and items |
| `ProgressHolds` | `ProgressNamesTheLabel` | - | in `TapeInv`: the announcements among the first `last` actions count the pages, and `BatchPosition` takes the page apart |
| `FitHolds` | `FitsWhatIsLoaded` | - | in `PlanInv`: each document of an accepted job passed the checks of the loaded label, or was fitted into `FitBox`; scaling down does not enlarge, rounded or not (`AtLeastOne`, `ScaledDown`) |

The invariants are needed because none of the properties is inductive: a free
lock says nothing of who is busy, a terminal job in the map nothing of its
worker, a printer's name in the file nothing of the copies that will be written
over it.

The assumptions `SceneAssumption` of `PrintCommand` and `LabelPlan` say what an
input is: a store whose names are unique (`PrinterStore::validate`), rows with a
fault or without, a request with at least one document and one copy
(`api/jobs.rs:608`, `679-689`), numbers where the code has unsigned ones, documents
and heads of a positive size.

Why there are two theorems of `AnswersAreOwn`: opening a USB printer throws away
what eight reads find (`transport.rs:482`). `AnswersOwn` is for any number of
requests, as long as eight are enough each time; `AnswersOwnOfFew` shows that
they always are among nine requests whose replies take one read each, whichever
of the others are given up. The
run `link` has two requests and a limit of one.

Only model-checked: liveness (`AcceptedFinishes`, `OutcomeReachesFollower`,
`ResultReported`, `RequestsEnd`), which the prover cannot do under fairness. Every
invariant and every other action property of the passing runs is stated by a
theorem.

## 6. Not modelled, and why

- Discovery, network setup, capture files, BLE framing and the decoding of IPP
  and status frames: sequential input and output whose result is one value. What
  the models need of it is a failure, a time-out or a kind of reply.
- Pixels: rendering, dithering, templates, barcodes. `LabelPlan` has their sizes.
- The rest of the command line: argument syntax, output formats, daemon and
  service-manager control.
- Cloud enrollment and configuration: one exchange, then a file that one program
  writes. Reading and merging of configuration files; `PrintCommand` starts from
  the merged values.
- The broker's protocol beyond deliveries, cancellations and results; heartbeats.
- Memory that is never given back (event senders and cancel flags of evicted
  jobs), and the time for which the grants' lock is held while a printer is
  configured: listed as hazards, with the reason in `PROJECT.json`.
