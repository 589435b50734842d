------------------------------- MODULE LabelPlan -------------------------------
(***************************************************************************)
(* What JobExecutor::submit makes of one request before it starts a worker *)
(* (src/api/jobs.rs): the checks against the printer and the loaded media, *)
(* the rasters, the cutter's counter and the plan; and what the worker     *)
(* reports of the batch while the plan is executed.                        *)
(*                                                                         *)
(* Abstractions.  Lengths are in one unit, whatever the resolution.  The   *)
(* checks that depend on one field of the request alone are left out:      *)
(* Reject of JobExecutor has them.  The tape is what the plan's actions    *)
(* are executed on: a printer, or for an IPP printer the document that is  *)
(* captured, and reported, before any of it is sent.                       *)
(***************************************************************************)
EXTENDS Integers, Sequences, SequencesExt, FiniteSets, FiniteSetsExt

CONSTANTS
    Scene,      \* the requests, printers and loaded media a run may start from
    None,       \* what is not given or not known
    ByteMax,    \* the largest u8: the cutter counts in one
    LabelMax,   \* the largest u16: labels are counted in one
    Tolerance   \* how much a label may exceed the loaded media (half a millimetre)

ASSUME WidthAssumption ==
    ByteMax \in Nat \ {0} /\ LabelMax \in Nat /\ LabelMax >= ByteMax /\ Tolerance \in Nat

VARIABLES
    scene,      \* the request, its printer and the loaded media
    stage,      \* submitted, refused, panicked, running or printed
    cutter,     \* the plan's cut flag and counter
    plan,       \* the plan's actions
    last,       \* how many of them are done
    shown,      \* the item and copy the last event showed
    tape        \* the labels of the raster actions done so far

vars == <<scene, stage, cutter, plan, last, shown, tape>>

request == scene.request
printer == scene.printer
loaded  == scene.loaded
docs    == request.docs

-----------------------------------------------------------------------------
(* The checks.                                                             *)

Size(w, h) == [width |-> w, height |-> h]

\* A document as the request turns it.
Turned(d) ==
    IF request.rotation \in {90, 270} THEN Size(d.height, d.width) ELSE Size(d.width, d.height)

\* All documents of a batch share the roll and the resolution.
SameRoll ==
    \A n \in DOMAIN docs :
        docs[n].roll = docs[1].roll /\ docs[n].width = docs[1].width /\ docs[n].dpi = docs[1].dpi

TotalLabels == request.copies * Len(docs)

\* Mutant of CutLabels: the copies are not chained.
CutLabels_Total == TotalLabels

\* How many labels the cutter's counter is about.
CutLabels ==
    IF request.continuous # None /\ request.continuous.chain
       /\ request.continuous.mode = "after-each"
    THEN request.copies ELSE TotalLabels

\* What continuous_protocol_options refuses.  It looks at the first document.
RollRefused ==
    LET c == request.continuous IN
    IF ~docs[1].roll THEN c # None
    ELSE \/ ~printer.rolls
         \/ docs[1].height < printer.shortest \/ docs[1].height > printer.longest
         \/ c # None /\ \/ c.mode \notin printer.modes
                        \/ c.chain /\ ~printer.chained
                        \/ c.feed > printer.feed

\* The options' counter has to fit in a byte.
Counted ==
    /\ docs[1].roll /\ request.continuous # None
    /\ \/ request.continuous.mode = "after-job"
       \/ request.continuous.mode = "after-each" /\ request.continuous.chain

CounterFits == Counted => CutLabels <= ByteMax

\* The flag and the counter of the plan.
Cutter ==
    [cut   |-> ~docs[1].roll \/ request.continuous = None \/ request.continuous.mode # "none",
     every |-> IF Counted THEN CutLabels ELSE 1]

\* Mutant of ExceedsLoaded: the rotation is forgotten.
ExceedsLoaded_Unturned(d) ==
    \/ loaded.width # None /\ d.width > loaded.width + Tolerance
    \/ ~d.roll /\ loaded.length # None /\ d.height > loaded.length + Tolerance

\* Without fit, no document may exceed the loaded media.
ExceedsLoaded(d) ==
    \/ loaded.width # None /\ Turned(d).width > loaded.width + Tolerance
    \/ ~d.roll /\ loaded.length # None /\ Turned(d).height > loaded.length + Tolerance

\* The loaded label as a box, when both of its sides are known.
LoadedBox ==
    IF loaded.width \in {None, 0} \/ loaded.length \in {None, 0} \/ docs[1].roll
    THEN None ELSE Size(loaded.width, loaded.length)

-----------------------------------------------------------------------------
(* The rasters.                                                            *)

Smaller(a, b) == IF a <= b THEN a ELSE b

\* The raster as both the request and the printer turn it.
Upright(d) ==
    IF printer.rotated THEN Size(Turned(d).height, Turned(d).width) ELSE Turned(d)

\* The dots of the head; a model without a fixed head takes the media's.
HeadWidth == IF printer.head # None THEN printer.head
        ELSE IF LoadedBox # None THEN LoadedBox.width ELSE None

\* a / b, rounded to the nearest whole number, and one dot at least.
Rounded(a, b) == Max({1, (a + (b \div 2)) \div b})

\* raster::scale_to_width: the height follows the width.
ScaledTo(r, width) == Size(width, Rounded(r.height * width, r.width))

\* With fit, a raster that exceeds the loaded label goes through fit_to_box ...
Fits(r) ==
    request.fit /\ LoadedBox # None /\ (r.width > LoadedBox.width \/ r.height > LoadedBox.height)

\* ... into the part of the label that the head reaches ...
FitBox == Size(Smaller(LoadedBox.width, HeadWidth), LoadedBox.height)

\* ... scaled by the side that binds, and centred on white: the result is the box.
Fitted(r) == IF Fits(r) THEN FitBox ELSE r

\* fit_to_box scales by a width in either case.  When the height binds, that
\* width is rounded and the height is computed from it once more.
ArtWidth(r) ==
    IF FitBox.width * r.height <= FitBox.height * r.width THEN FitBox.width
    ELSE Rounded(r.width * FitBox.height, r.height)

\* The artwork is higher than its box: the margin above it is computed without
\* a sign, and centring panics.
Overruns(r) == Fits(r) /\ ScaledTo(r, ArtWidth(r)).height > FitBox.height

\* With fit, a raster that is wider than the head is scaled to it.
Scaled(r) == IF r.width > HeadWidth THEN ScaledTo(r, HeadWidth) ELSE r

\* What api_render_for_printer refuses.
RenderRefused(d) ==
    IF HeadWidth = None THEN request.rotation # 0 \/ request.fit
    ELSE ~request.fit /\ Fitted(Upright(d)).width > HeadWidth

Rendered(d) == IF HeadWidth = None THEN Upright(d) ELSE Scaled(Fitted(Upright(d)))

-----------------------------------------------------------------------------
(* The plan.                                                               *)

\* The labels of the plan: every document with its copies.
Labels == [n \in 1 .. TotalLabels |-> [item |-> (n - 1) \div request.copies,
                                       copy |-> (n - 1) % request.copies]]

\* A Brother plan announces each label before its raster.
Actions ==
    IF printer.brother
    THEN [n \in 1 .. 2 * TotalLabels |-> IF n % 2 = 1 THEN "information" ELSE "raster"]
    ELSE [n \in 1 .. TotalLabels |-> "raster"]

\* Mutant of BatchPosition: the announcements are counted from one.
BatchPosition_FromOne(done) ==
    LET page == Cardinality({n \in 1 .. done : plan[n] = "information"})
    IN  [item |-> Smaller(page \div request.copies, Len(docs) - 1), copy |-> page % request.copies]

\* batch_position: the last label that was announced.
BatchPosition(done) ==
    LET page == Max({Cardinality({n \in 1 .. done : plan[n] = "information"}) - 1, 0})
    IN  [item |-> Smaller(page \div request.copies, Len(docs) - 1), copy |-> page % request.copies]

-----------------------------------------------------------------------------
(* What a run starts from: a request that JobExecutor did not reject, with     *)
(* documents and copies, a model's head and what is known of the media.        *)

Document == [width : Nat \ {0}, height : Nat \ {0}, dpi : Nat, roll : BOOLEAN]
CutModes == {"after-each", "after-job", "none"}

ASSUME SceneAssumption ==
    \A sc \in Scene :
        /\ sc.request.docs \in Seq(Document) /\ sc.request.docs # <<>>
        /\ sc.request.copies \in Nat \ {0}
        /\ LET c == sc.request.continuous IN
               c # None => c.mode \in CutModes /\ c.chain \in BOOLEAN
        /\ sc.printer.head \in (Nat \ {0}) \cup {None}
        /\ sc.loaded.width \in Nat \cup {None} /\ sc.loaded.length \in Nat \cup {None}

-----------------------------------------------------------------------------
Init ==
    /\ scene \in Scene
    /\ stage = "submitted"
    /\ cutter = [cut |-> TRUE, every |-> 1]
    /\ plan = <<>> /\ last = 0
    /\ shown = [item |-> 0, copy |-> 0]
    /\ tape = <<>>

Acceptable ==
    /\ SameRoll
    /\ TotalLabels <= LabelMax
    /\ ~RollRefused
    /\ CounterFits
    /\ request.fit \/ \A n \in DOMAIN docs : ~ExceedsLoaded(docs[n])
    /\ \A n \in DOMAIN docs : ~RenderRefused(docs[n])

Refuse ==
    /\ stage = "submitted" /\ ~Acceptable
    /\ stage' = "refused"
    /\ UNCHANGED <<scene, cutter, plan, last, shown, tape>>

\* Rendering one of the documents panics: the request ends without an answer.
\* (A document that overruns has a head and a label, so none is refused then.)
Panic ==
    /\ stage = "submitted" /\ Acceptable
    /\ \E n \in DOMAIN docs : Overruns(Upright(docs[n]))
    /\ stage' = "panicked"
    /\ UNCHANGED <<scene, cutter, plan, last, shown, tape>>

\* Validates and renders the documents and plans the batch.
MakePlan ==
    /\ stage = "submitted" /\ Acceptable
    /\ \A n \in DOMAIN docs : ~Overruns(Upright(docs[n]))
    /\ stage' = "running"
    /\ cutter' = Cutter
    /\ plan' = Actions
    /\ UNCHANGED <<scene, last, shown, tape>>

\* The next label, and the knife when the printer's counter says so.
Output ==
    Append(tape, [label |-> Labels[Len(tape) + 1],
                  cut |-> cutter.cut /\ (Len(tape) + 1) % cutter.every = 0])

\* One action of the plan is written, for an IPP printer to the document that
\* is captured for it; the worker reports where the batch is.
ExecuteAction ==
    /\ stage = "running" /\ last < Len(plan)
    /\ last' = last + 1
    /\ tape' = IF plan[last + 1] = "raster" THEN Output ELSE tape
    /\ shown' = BatchPosition(last + 1)
    /\ UNCHANGED <<scene, stage, cutter, plan>>

Finish ==
    /\ stage = "running" /\ last = Len(plan)
    /\ stage' = "printed"
    /\ UNCHANGED <<scene, cutter, plan, last, shown, tape>>

Next == Refuse \/ Panic \/ MakePlan \/ ExecuteAction \/ Finish

Spec == Init /\ [][Next]_vars

-----------------------------------------------------------------------------
(* Properties.                                                             *)

\* The knife falls where the request says: after every label, after the copies
\* of a document when they are chained, after the whole job, or never; and
\* without such options after every label.  It does so for one document with
\* copies as for a batch, whatever is counted on the way.
CutsAsAsked ==
    stage = "printed" =>
        \A n \in DOMAIN tape :
            LET c == request.continuous
                copy == tape[n].label.copy + 1
                item == tape[n].label.item + 1
            IN  tape[n].cut <=>
                    \/ c = None
                    \/ c # None /\ c.mode = "after-job" /\ item = Len(docs) /\ copy = request.copies
                    \/ c # None /\ c.mode = "after-each" /\ (c.chain => copy = request.copies)

\* While a Brother batch is written, the item and copy of the last event name
\* the label whose raster comes next or was just written: never an earlier or a
\* later one, across the copies and the documents of the batch.  Written is to
\* the transport; to an IPP printer it is to the captured document, so there
\* the last event is out before the first label is on its way.
ProgressNamesTheLabel ==
    printer.brother /\ last > 0 =>
        shown.item * request.copies + shown.copy
            = IF plan[last] = "raster" THEN Len(tape) - 1 ELSE Len(tape)

\* "Loaded-media and head-width mismatches fail before transport creation
\* unless fitting was requested" (docs/api.md), and with fitting there is no
\* mismatch: no raster of an accepted job is wider than the head or, when the
\* loaded label is known, exceeds it by more than the tolerance.  (For models
\* that print in the direction of the document; see the README for the others.)
FitsWhatIsLoaded ==
    stage \in {"running", "printed"} /\ HeadWidth # None /\ ~printer.rotated =>
        \A n \in DOMAIN docs :
            /\ Rendered(docs[n]).width <= HeadWidth
            /\ LoadedBox # None =>
                   /\ Rendered(docs[n]).width <= LoadedBox.width + Tolerance
                   /\ Rendered(docs[n]).height <= LoadedBox.height + Tolerance

\* "Scale proportionally into a fixed printable box and centre on white"
\* (src/raster.rs), where an assertion says the scaled height is the one that
\* was computed for the box: no request to fit a document panics.
FittingSucceeds == stage # "panicked"

\* "continuous document length is outside the printer capability range": no
\* accepted job has such a document.
LengthsInRange ==
    stage \in {"running", "printed"} /\ docs[1].roll =>
        \A n \in DOMAIN docs : docs[n].height \in printer.shortest .. printer.longest
=============================================================================
