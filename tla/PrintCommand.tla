----------------------------- MODULE PrintCommand -----------------------------
(***************************************************************************)
(* One run of a printing command of the command line (src/main.rs): print  *)
(* with its CSV batch, laposte print with its stamps, printer test with    *)
(* its eight densities.  The command merges its options with a saved       *)
(* printer and the configuration, expands the batch, and then plans and    *)
(* executes one record after the other; the first error ends it.           *)
(*                                                                         *)
(* Abstractions.  A setting is any of the sixteen options that have a      *)
(* default in the configuration.  A URI is its scheme and the parts of its *)
(* body.  Rendering fails or succeeds by the record; what a plan puts on   *)
(* the wire is the record it was made from.  Every compiled-in adapter is  *)
(* there.                                                                  *)
(***************************************************************************)
EXTENDS Integers, Sequences, SequencesExt, FiniteSets, FiniteSetsExt

CONSTANTS
    Scene,        \* the inputs a run may start from
    None,         \* an option or a default that is not given
    Setting,      \* options with a default in the configuration
    Builtin,      \* what the option parser takes for a setting that is not given
    Brother,      \* the models that speak the Brother protocol
    IppPort,      \* the addresses that name port 631
    FirstChannel  \* the RFCOMM channel of an address without one

ASSUME SettingAssumption == "baud" \in Setting /\ \A s \in Setting : Builtin[s] # None

VARIABLES
    scene,        \* the inputs of this run
    options,      \* the options, as merged so far
    stage,        \* where the command is
    batch,        \* what there is to print: positions of records
    next,         \* the record to plan or execute next
    wire          \* what printers have been sent, in order

vars == <<scene, options, stage, batch, next, wire>>

-----------------------------------------------------------------------------
(* Where to print.                                                         *)

Scheme == [file |-> "file:", tcp |-> "tcp://", serial |-> "serial:", ble |-> "ble:",
           usb |-> "usb:", ipp |-> "ipp://", rfcomm |-> "rfcomm:"]

Text(scheme, body) == [scheme |-> scheme, body |-> body]

\* PrinterTransport::uri: the baud rate and the certificate are lost.
Uri(e) ==
    Text(Scheme[e.kind], IF e.kind = "rfcomm" THEN <<e.place, ":", e.detail>> ELSE <<e.place>>)

\* What the configuration's transport and address spell; an unknown kind, IPP
\* among them, becomes a scheme of its own.
ConfiguredUri(d) ==
    CASE d.kind = "bluetooth" -> Text("rfcomm:", <<d.address>>)
      [] d.kind \in {"tcp", "file", "serial", "ble", "usb", "rfcomm"} -> Text(Scheme[d.kind], <<d.address>>)
      [] OTHER -> Text("other:", <<d.address>>)

\* The default names its printer; without one, the only printer.
Resolved(store, name) ==
    IF name # None THEN {p \in store.printers : p.name = name}
    ELSE IF store.default # None THEN {p \in store.printers : p.name = store.default}
    ELSE IF Cardinality(store.printers) = 1 THEN store.printers ELSE {}

Merged(value, default) == IF value = None THEN default ELSE value

\* Mutant of Completed: a default replaces what was given.
Completed_Over(o, d) ==
    [o EXCEPT !.model = Merged(@, d.model),
              !.transport = IF @ = None /\ d.kind # None /\ d.address # None
                            THEN ConfiguredUri(d) ELSE @,
              !.settings = [s \in Setting |-> Merged(d.settings[s], o.settings[s])]]

\* apply_config_defaults: a setting that has the parser's value counts as not
\* given, whether the command line spelled it out or not.
Completed(o, d) ==
    [o EXCEPT !.model = Merged(@, d.model),
              !.transport = IF @ = None /\ d.kind # None /\ d.address # None
                            THEN ConfiguredUri(d) ELSE @,
              !.settings = [s \in Setting |->
                               IF o.settings[s] = Builtin[s] /\ d.settings[s] # None
                               THEN d.settings[s] ELSE o.settings[s]]]

\* Mutant of OneOff: the printer that is named does not count.
OneOff_Named(o, d) == o.transport # None \/ (d.kind # None /\ d.address # None)

\* A target named for this run alone needs no saved printer.
OneOff(o, d) ==
    /\ o.printer = None
    /\ \/ o.transport # None
       \/ d.kind # None /\ d.address # None
       \/ o.dryRun /\ (o.model # None \/ d.model # None)

\* What a saved printer says, read as a configuration.
PrinterDefaults(p) ==
    [kind |-> None, address |-> None, model |-> p.model, settings |-> p.settings]

-----------------------------------------------------------------------------
(* What to print.                                                          *)

\* A row of the CSV file, or a stamp of the sheet: chosen by the filter or the
\* slots; unreadable, without a field the document needs, or not renderable.
Fault == {"none", "ragged", "unfilled", "unprintable"}

Rows == scene.rows

ChosenUpTo(n) == {m \in 1 .. n : Rows[m].chosen}

\* Only print knows a limit.
Limited == scene.command = "print" /\ options.limit # None

\* Mutant of LimitReached: one record too many.
LimitReached_Late(n) == Rows[n].chosen /\ Cardinality(ChosenUpTo(n)) > options.limit

\* The limit is looked at after a record was taken.
LimitReached(n) == Rows[n].chosen /\ Cardinality(ChosenUpTo(n)) >= options.limit

\* The last row that is read at all.
LastRead ==
    LET enough == {n \in DOMAIN Rows : Limited /\ LimitReached(n)}
    IN  IF enough = {} THEN Len(Rows) ELSE Min(enough)

Selected == ChosenUpTo(LastRead)

\* The elements of a set of positions, each once, from the first to the last.
InOrder(S) ==
    {b \in [1 .. Cardinality(S) -> S] : \A m, n \in 1 .. Cardinality(S) : m < n => b[m] < b[n]}

\* Mutant of Expandable: a record that cannot be filled in is found out when
\* it is planned.
Expandable_Late == \A n \in 1 .. LastRead : Rows[n].fault # "ragged"

\* expand_batch reads rows until the limit and fills in every record it took
\* before anything is planned.
Expandable ==
    /\ \A n \in 1 .. LastRead : Rows[n].fault # "ragged"
    /\ \A n \in Selected : Rows[n].fault # "unfilled"

\* The planner's checks: a quarter turn, a known alignment, millimetres in
\* range; and a raster no wider than the head, unless it may be scaled.
Plannable(row) ==
    /\ options.legal
    /\ (row.wide => options.fit)
    /\ row.fault \notin {"unfilled", "unprintable"}

-----------------------------------------------------------------------------
(* The adapters.                                                           *)

NoAdapter == [kind |-> "none", place |-> <<>>, detail |-> None]

\* parse_rfcomm: MAC[@CHANNEL]; hexadecimal digits and colons are the MAC.
RfcommTarget(body) ==
    IF Len(body) = 3 /\ body[2] = "@"
    THEN [kind |-> "rfcomm", place |-> <<body[1]>>, detail |-> body[3]]
    ELSE [kind |-> "rfcomm", place |-> body, detail |-> FirstChannel]

\* execute_plan_inner: the adapter a URI selects; a TCP address with the IPP
\* port is IPP for a Brother plan, and IPP takes no other plan.
Adapter(text, o) ==
    LET plain(kind) == [kind |-> kind, place |-> text.body, detail |-> None]
    IN  CASE text.scheme = "file:" -> plain("file")
          [] text.scheme = "ipp://" ->
                 IF o.model \in Brother THEN plain("ipp") ELSE NoAdapter
          [] text.scheme = "tcp://" ->
                 IF o.model \in Brother /\ text.body[1] \in IppPort THEN plain("ipp")
                                                                   ELSE plain("tcp")
          [] text.scheme = "serial:" -> [plain("serial") EXCEPT !.detail = o.settings["baud"]]
          [] text.scheme = "rfcomm:" -> RfcommTarget(text.body)
          [] text.scheme = "ble:" -> plain("ble")
          [] text.scheme = "usb:" -> plain("usb")
          [] OTHER -> NoAdapter

-----------------------------------------------------------------------------
(* What a run starts from: options as the parser leaves them, the settings     *)
(* that the command line spells out among them, and a store that               *)
(* PrinterStore::load has validated, so that a name is one printer's.          *)

OptionName == {"printer", "model", "transport", "settings", "dryRun", "limit", "legal", "fit"}

ASSUME SceneAssumption ==
    \A sc \in Scene :
        /\ sc.spelled \subseteq Setting
        /\ \A s \in Setting : /\ sc.options.settings[s] # None
                              /\ s \notin sc.spelled => sc.options.settings[s] = Builtin[s]
        /\ OptionName \subseteq DOMAIN sc.options
        /\ sc.options.dryRun \in BOOLEAN
        /\ sc.options.limit \in Nat \cup {None}
        /\ sc.rows \in Seq([chosen : BOOLEAN, fault : Fault, wide : BOOLEAN])
        /\ IsFiniteSet(sc.store.printers)
        /\ \A p, q \in sc.store.printers : p.name = q.name => p = q
        /\ \A p \in sc.store.printers : p.preferred # None => Uri(p.preferred) # None

-----------------------------------------------------------------------------
Init ==
    /\ scene \in Scene
    /\ options = scene.options
    /\ stage = "resolve"
    /\ batch = <<>> /\ next = 1
    /\ wire = <<>>

Goto(s) == stage' = s

\* resolve_saved_printer: the printer of the options, the default, or the only
\* one; its preferred endpoint and its settings, before the configuration's.
ResolveSavedPrinter ==
    /\ stage = "resolve"
    /\ \/ OneOff(options, scene.config) /\ Goto("merge") /\ UNCHANGED options
       \/ /\ ~OneOff(options, scene.config)
          /\ \/ /\ Resolved(scene.store, options.printer) = {}
                /\ Goto("failed") /\ UNCHANGED options
             \/ \E p \in Resolved(scene.store, options.printer) :
                    IF options.transport = None /\ p.preferred = None
                    THEN Goto("failed") /\ UNCHANGED options
                    ELSE /\ options' = Completed(
                                [options EXCEPT !.transport =
                                    IF @ = None THEN Uri(p.preferred) ELSE @],
                                PrinterDefaults(p))
                         /\ Goto("merge")
    /\ UNCHANGED <<scene, batch, next, wire>>

ApplyConfigDefaults ==
    /\ stage = "merge"
    /\ options' = Completed(options, scene.config)
    /\ Goto("expand")
    /\ UNCHANGED <<scene, batch, next, wire>>

\* Print and laposte: all the records, or none of them.  Stamps that the slot
\* selectors leave out are not printed, and there has to be one.
Expand ==
    /\ stage = "expand" /\ scene.command # "test"
    /\ \/ /\ Expandable
          /\ (scene.command = "laposte" => Selected # {} /\ options.model # None)
          /\ batch' \in InOrder(Selected)
          /\ Goto("planning")
       \/ /\ \/ ~Expandable
             \/ scene.command = "laposte" /\ (Selected = {} \/ options.model = None)
          /\ Goto("failed") /\ UNCHANGED batch
    /\ UNCHANGED <<scene, options, next, wire>>

\* printer test: a strip for each density.
Densities ==
    /\ stage = "expand" /\ scene.command = "test"
    /\ \/ options.model = None /\ Goto("failed") /\ UNCHANGED batch
       \/ options.model # None /\ Goto("planning") /\ batch' = [n \in 1 .. 8 |-> n]
    /\ UNCHANGED <<scene, options, next, wire>>

Planned == options.model # None /\ (scene.command # "test" => Plannable(Rows[batch[next]]))

PlanRecord ==
    /\ stage = "planning" /\ next <= Len(batch)
    /\ Goto(IF Planned THEN "executing" ELSE "failed")
    /\ UNCHANGED <<scene, options, batch, next, wire>>

Printed(whole) ==
    [record |-> batch[next], to |-> Adapter(options.transport, options), whole |-> whole]

\* Mutant of AfterError: the next record is tried.
AfterError_Continue == "planning"

\* An error ends the command.
AfterError == "failed"

\* execute_plan: to a capture, which is then put in a file, when nothing is to
\* be printed; otherwise to the adapter, which may fail before, while or after
\* it writes.
Execute ==
    /\ stage = "executing"
    /\ \/ /\ options.dryRun
          /\ Goto("planning") \/ Goto(AfterError)
          /\ next' = next + 1 /\ UNCHANGED wire
       \/ /\ ~options.dryRun
          /\ options.transport = None \/ Adapter(options.transport, options) = NoAdapter
          /\ Goto("failed") /\ UNCHANGED <<next, wire>>
       \/ /\ ~options.dryRun /\ options.transport # None
          /\ Adapter(options.transport, options) # NoAdapter
          /\ \/ Goto("planning") /\ next' = next + 1 /\ wire' = Append(wire, Printed(TRUE))
             \/ Goto(AfterError) /\ next' = next + 1 /\ wire' = Append(wire, Printed(FALSE))
             \/ Goto(AfterError) /\ next' = next + 1 /\ UNCHANGED wire
    /\ UNCHANGED <<scene, options, batch>>

Finish ==
    /\ stage = "planning" /\ next > Len(batch)
    /\ Goto("done")
    /\ UNCHANGED <<scene, options, batch, next, wire>>

Next == ResolveSavedPrinter \/ ApplyConfigDefaults \/ Expand \/ Densities \/ PlanRecord
        \/ Execute \/ Finish

Spec == Init /\ [][Next]_vars

-----------------------------------------------------------------------------
(* Properties.                                                             *)

\* The rows that were sent, whole or in part, in the order they were sent.
SentRows == [n \in DOMAIN wire |-> wire[n].record]

\* The rows a batch is about: those before the limit is reached.  (A limit of
\* zero lets one through.)
Wanted(q) ==
    Limited =>
        Cardinality({m \in 1 .. q - 1 : Rows[m].chosen}) < Max({1, scene.options.limit})

\* A batch comes out in the order of its rows, each row at most once, no chosen
\* row left out before a printed one, none beyond the limit, and nothing after
\* a record that failed.
BatchInOrder ==
    scene.command # "test" =>
        /\ \A m, n \in DOMAIN wire : m < n => wire[m].record < wire[n].record /\ wire[m].whole
        /\ \A r \in Range(SentRows) : Rows[r].chosen /\ Wanted(r)
        /\ \A r \in Range(SentRows), q \in DOMAIN Rows :
               q < r /\ Rows[q].chosen => q \in Range(SentRows)

\* A batch with a row that cannot be read or filled in, among those it is
\* about, prints nothing at all: the error comes before the first write.
NothingOfABadBatch ==
    scene.command # "test" /\ (\E q \in DOMAIN Rows :
        Wanted(q) /\ (Rows[q].fault = "ragged" \/ (Rows[q].chosen /\ Rows[q].fault = "unfilled")))
    => wire = <<>>

\* "Printing never fails over": all records of a run go to one place, which is
\* the one the options name, else the preferred endpoint of the printer that is
\* named, the default, or the only one, else the configured one; a dry run
\* writes to no printer.  (RFCOMM: see RfcommReached; the details of serial and
\* IPP endpoints are not part of their URI.)
Target ==
    LET o == scene.options
        d == scene.config
        p == Resolved(scene.store, o.printer)
    IN  IF o.transport # None THEN {o.transport}
        ELSE IF o.printer = None /\ d.kind # None /\ d.address # None THEN {ConfiguredUri(d)}
        ELSE {Uri(q.preferred) : q \in {r \in p : r.preferred # None}}

OneTarget ==
    \A n \in DOMAIN wire :
        /\ ~scene.options.dryRun
        /\ \E t \in Target : wire[n].to = Adapter(t, options)

\* What the command line, a saved printer or the configuration say of a setting,
\* as far as the merging can tell: the parser's own value says nothing.
Says(settings, s) == settings[s] \notin {None, Builtin[s]}

\* The printer whose settings count.
SavedPrinter ==
    IF OneOff(scene.options, scene.config) THEN {} ELSE Resolved(scene.store, scene.options.printer)

\* What a setting is printed with: the command line's word, else the saved
\* printer's, else the configuration's, else the parser's own value; the two
\* merging steps do not know of each other.
SettingsInOrder ==
    stage \in {"planning", "executing", "done"} =>
        LET o == scene.options
            d == scene.config
        IN  \A s \in Setting :
                /\ Says(o.settings, s) => options.settings[s] = o.settings[s]
                /\ \A p \in SavedPrinter : ~Says(o.settings, s) /\ Says(p.settings, s)
                       => options.settings[s] = p.settings[s]
                /\ ~Says(o.settings, s) /\ (\A p \in SavedPrinter : ~Says(p.settings, s))
                       => options.settings[s] = Merged(d.settings[s], Builtin[s])

\* "Print a document using a saved printer or explicit overrides" (src/cli.rs):
\* what the command line spells out is what is printed with, whatever the saved
\* printer and the configuration say.  Not so for the parser's own value.
SpelledOutStands ==
    stage \in {"planning", "executing", "done"} =>
        \A s \in scene.spelled : options.settings[s] = scene.options.settings[s]

\* "Saved RFCOMM jobs use the same MAC/channel contract as discovery and
\* connection probes" (docs/platform-plan-audit.md): what reaches the adapter
\* is the saved address and channel.
RfcommReached ==
    \A n \in DOMAIN wire, p \in scene.store.printers :
        /\ scene.options.printer = p.name /\ scene.options.transport = None
        /\ p.preferred # None /\ p.preferred.kind = "rfcomm"
        => wire[n].to = [kind |-> "rfcomm", place |-> <<p.preferred.place>>,
                         detail |-> p.preferred.detail]
=============================================================================
