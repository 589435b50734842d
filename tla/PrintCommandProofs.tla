-------------------------- MODULE PrintCommandProofs --------------------------
(***************************************************************************)
(* Theorems of a run of a printing command and their proofs: a batch comes *)
(* out in the order of its rows and up to its limit, a batch with a bad    *)
(* row not at all, everything goes to the place the options, the saved     *)
(* printer or the configuration name, in that order, and so do settings.   *)
(***************************************************************************)
EXTENDS PrintCommand, FiniteSetTheorems, WellFoundedInduction, TLAPS

-----------------------------------------------------------------------------
(* The smallest and the largest of a set of numbers.                       *)

\* A set of naturals with an element has a smallest one.
LEMMA MinIs ==
    ASSUME NEW S, S \subseteq Nat, S # {}
    PROVE  Min(S) \in S /\ \A y \in S : Min(S) <= y
<1> DEFINE R == {ss \in Nat \X Nat : ss[1] < ss[2]}
<1>1. IsWellFoundedOn(R, Nat)
    BY NatLessThanWellFounded, Zenon DEF OpToRel
<1>2. \A x, y \in Nat : y < x => <<y, x>> \in R
    OBVIOUS
<1> HIDE DEF R
<1>3. PICK x \in S : \A y \in S : ~(<<y, x>> \in R)
    BY <1>1, WFMin
<1>4. \A y \in S : ~(y < x)
    BY <1>2, <1>3
<1>5. \A y \in S : x <= y
    BY ONLY <1>4, x \in S, S \subseteq Nat
<1> QED BY <1>5 DEF Min

\* A set of naturals with an element and a bound has a largest one.
LEMMA Largest ==
    ASSUME NEW S, S \subseteq Nat, S # {}, NEW bound \in Nat, \A y \in S : y <= bound
    PROVE  \E x \in S : \A y \in S : y <= x
<1> DEFINE D == {bound - y : y \in S}
<1>0. \A y \in S : bound - y \in Nat
    OBVIOUS
<1>2. \A y \in S : bound - y \in D
    OBVIOUS
<1>1. D \subseteq Nat /\ D # {}
    <2>1. D \subseteq Nat
        BY ONLY <1>0 DEF D
    <2>2. D # {}
        BY ONLY <1>2, S # {}
    <2> QED BY <2>1, <2>2
<1>3. PICK x \in S : Min(D) = bound - x
    BY <1>1, MinIs
<1>4. \A d \in D : Min(D) <= d
    BY <1>1, MinIs
<1> HIDE DEF D
<1>5. \A y \in S : bound - x <= bound - y
    BY <1>2, <1>3, <1>4
<1>6. \A y \in S : y <= x
    BY ONLY <1>5, x \in S, S \subseteq Nat, bound \in Nat
<1> QED BY <1>6

\* The larger of one and a number.
LEMMA AtLeastOne ==
    ASSUME NEW n \in Nat
    PROVE  Max({1, n}) \in Nat /\ Max({1, n}) = IF n = 0 THEN 1 ELSE n
<1>1. \E x \in {1, n} : \A y \in {1, n} : x >= y
    <2>1. CASE n = 0
        BY <2>1
    <2>2. CASE n # 0
        BY <2>2
    <2> QED BY <2>1, <2>2
<1>2. Max({1, n}) \in {1, n} /\ \A y \in {1, n} : Max({1, n}) >= y
    BY <1>1 DEF Max
<1> QED BY <1>2

-----------------------------------------------------------------------------
(* The rows a batch is about.                                              *)

\* What a scene's rows and limit are.
LEMMA SceneRows ==
    ASSUME scene \in Scene
    PROVE  /\ Rows \in Seq([chosen : BOOLEAN, fault : Fault, wide : BOOLEAN])
           /\ Len(Rows) \in Nat /\ DOMAIN Rows = 1 .. Len(Rows)
           /\ scene.options.limit \in Nat \cup {None}
<1>1. Rows \in Seq([chosen : BOOLEAN, fault : Fault, wide : BOOLEAN])
      /\ scene.options.limit \in Nat \cup {None}
    BY SceneAssumption DEF Rows
<1>2. Len(Rows) \in Nat /\ DOMAIN Rows = 1 .. Len(Rows)
    BY <1>1
<1> QED BY <1>1, <1>2

\* The chosen rows up to one: so many, and no fewer than up to an earlier one.
LEMMA ChosenCounted ==
    ASSUME NEW n \in Nat
    PROVE  /\ IsFiniteSet(ChosenUpTo(n)) /\ Cardinality(ChosenUpTo(n)) \in Nat
           /\ ChosenUpTo(n) \subseteq 1 .. n
           /\ \A m \in Nat : m <= n => Cardinality(ChosenUpTo(m)) <= Cardinality(ChosenUpTo(n))
<1>1. ChosenUpTo(n) \subseteq 1 .. n
    BY DEF ChosenUpTo
<1>2. IsFiniteSet(1 .. n)
    BY FS_Interval
<1>3. IsFiniteSet(ChosenUpTo(n)) /\ Cardinality(ChosenUpTo(n)) \in Nat
    BY <1>1, <1>2, FS_Subset, FS_CardinalityType
<1>4. ASSUME NEW m \in Nat, m <= n
      PROVE  Cardinality(ChosenUpTo(m)) <= Cardinality(ChosenUpTo(n))
    <2>1. ChosenUpTo(m) \subseteq ChosenUpTo(n)
        BY <1>4 DEF ChosenUpTo
    <2> QED BY <1>3, <2>1, FS_Subset
<1> QED BY <1>1, <1>3, <1>4

\* The limit of the options is the scene's.
LimitKept == scene \in Scene /\ options.limit = scene.options.limit

Enough == {n \in DOMAIN Rows : Limited /\ LimitReached(n)}

\* The last row that is read is one of them, or there is none to stop at.
LEMMA LastReadIs ==
    ASSUME LimitKept
    PROVE  /\ LastRead \in 0 .. Len(Rows)
           /\ Enough = {} => LastRead = Len(Rows)
           /\ Enough # {} => LastRead \in Enough /\ \A n \in Enough : LastRead <= n
<1>1. Len(Rows) \in Nat /\ DOMAIN Rows = 1 .. Len(Rows)
    BY SceneRows DEF LimitKept
<1>2. LastRead = IF Enough = {} THEN Len(Rows) ELSE Min(Enough)
    BY DEF LastRead, Enough
<1>3. Enough \subseteq 1 .. Len(Rows)
    BY <1>1 DEF Enough
<1>4. Enough \subseteq Nat
    BY <1>3
<1>5. CASE Enough = {}
    BY <1>1, <1>2, <1>5
<1>6. CASE Enough # {}
    <2>1. Min(Enough) \in Enough /\ \A n \in Enough : Min(Enough) <= n
        BY <1>4, <1>6, MinIs
    <2>2. LastRead = Min(Enough)
        BY <1>2, <1>6
    <2>3. Min(Enough) \in 1 .. Len(Rows)
        BY <1>3, <2>1
    <2>4. Min(Enough) \in 0 .. Len(Rows)
        BY ONLY <1>1, <2>3
    <2> QED BY <1>6, <2>1, <2>2, <2>4
<1> QED BY <1>5, <1>6

\* A batch reads the rows it is about and no other.
LEMMA WantedIsRead ==
    ASSUME LimitKept, NEW q \in DOMAIN Rows
    PROVE  Wanted(q) <=> q <= LastRead
<1>1. Len(Rows) \in Nat /\ DOMAIN Rows = 1 .. Len(Rows) /\ q \in 1 .. Len(Rows)
      /\ scene.options.limit \in Nat \cup {None}
    BY SceneRows DEF LimitKept
<1>2. LastRead \in Nat
    BY <1>1, LastReadIs
<1>3. CASE ~Limited
    <2>1. Enough = {}
        BY <1>3 DEF Enough
    <2> QED BY <1>1, <1>3, <2>1, LastReadIs DEF Wanted
<1>4. CASE Limited
    <2> DEFINE limit == scene.options.limit
               before == Cardinality(ChosenUpTo(q - 1))
    <2>1. options.limit = limit /\ limit \in Nat
        BY <1>1, <1>4 DEF Limited, LimitKept
    <2>2. Wanted(q) <=> before < Max({1, limit})
        BY <1>4 DEF Wanted, ChosenUpTo
    <2>3. Max({1, limit}) = IF limit = 0 THEN 1 ELSE limit
        BY <2>1, AtLeastOne
    <2>4. q - 1 \in Nat /\ before \in Nat
        <3>1. q - 1 \in Nat
            BY <1>1
        <3> QED BY <3>1, ChosenCounted
    <2> HIDE DEF limit, before
    <2>5. ASSUME LastRead < q PROVE ~Wanted(q)
        <3>1. LastRead \in Enough
            <4>1. Enough # {}
                BY <1>1, <2>5, LastReadIs
            <4> QED BY <4>1, LastReadIs
        <3>2. Cardinality(ChosenUpTo(LastRead)) >= limit /\ LastRead \in ChosenUpTo(LastRead)
            BY <1>1, <1>2, <2>1, <3>1 DEF Enough, LimitReached, ChosenUpTo
        <3>3. IsFiniteSet(ChosenUpTo(LastRead)) /\ Cardinality(ChosenUpTo(LastRead)) \in Nat
            BY <1>2, ChosenCounted
        <3>4. Cardinality(ChosenUpTo(LastRead)) # 0
            BY <3>2, <3>3, FS_EmptySet
        <3>5. Cardinality(ChosenUpTo(LastRead)) <= before
            <4>1. LastRead <= q - 1
                BY <1>1, <1>2, <2>5
            <4> QED BY <1>2, <2>4, <4>1, ChosenCounted DEF before
        <3> QED BY <2>1, <2>2, <2>3, <2>4, <3>2, <3>3, <3>4, <3>5
    <2>6. ASSUME ~Wanted(q) PROVE LastRead < q
        <3>1. before >= limit /\ before >= 1
            BY <2>1, <2>2, <2>3, <2>4, <2>6
        <3>2. ChosenUpTo(q - 1) # {} /\ ChosenUpTo(q - 1) \subseteq 1 .. q - 1
            <4>1. ChosenUpTo(q - 1) # {}
                BY <2>4, <3>1, FS_EmptySet DEF before
            <4> QED BY <2>4, <4>1, ChosenCounted
        <3>3. PICK x \in ChosenUpTo(q - 1) : \A y \in ChosenUpTo(q - 1) : y <= x
            <4>1. ChosenUpTo(q - 1) \subseteq Nat /\ \A y \in ChosenUpTo(q - 1) : y <= q - 1
                BY <2>4, <3>2
            <4> QED BY <2>4, <3>2, <4>1, Largest
        <3>4. x \in 1 .. q - 1 /\ Rows[x].chosen
            BY <3>2, <3>3 DEF ChosenUpTo
        <3>5. ChosenUpTo(x) = ChosenUpTo(q - 1)
            <4>1. \A y \in Nat : y \in 1 .. q - 1 /\ Rows[y].chosen => y \in 1 .. x
                BY <2>4, <3>3, <3>4 DEF ChosenUpTo
            <4>2. \A y \in 1 .. x : y \in 1 .. q - 1
                BY <2>4, <3>4
            <4> QED BY <4>1, <4>2 DEF ChosenUpTo
        <3>6. Cardinality(ChosenUpTo(x)) >= limit
            BY <3>1, <3>5 DEF before
        <3>7. x \in Enough
            BY <1>1, <1>4, <2>1, <3>4, <3>6 DEF Enough, LimitReached
        <3>8. LastRead <= x
            BY <3>7, LastReadIs
        <3> QED BY <1>1, <1>2, <3>4, <3>8
    <2> QED BY <1>1, <1>2, <2>5, <2>6
<1> QED BY <1>3, <1>4

-----------------------------------------------------------------------------
(* The batch.                                                              *)

\* A set of positions put in order: a sequence that goes up and has them all.
LEMMA InOrderIs ==
    ASSUME NEW S, S \subseteq Nat, IsFiniteSet(S), NEW b \in InOrder(S)
    PROVE  /\ b \in Seq(Nat) /\ Len(b) = Cardinality(S) /\ Len(b) \in Nat
           /\ \A m \in 1 .. Len(b) : b[m] \in S
           /\ \A m, n \in 1 .. Len(b) : m < n => b[m] < b[n]
           /\ \A x \in S : \E m \in 1 .. Len(b) : b[m] = x
<1> DEFINE k == Cardinality(S)
<1>1. k \in Nat
    BY FS_CardinalityType
<1>2. b \in [1 .. k -> S] /\ \A m, n \in 1 .. k : m < n => b[m] < b[n]
    BY DEF InOrder
<1> HIDE DEF k
<1>3. b \in Seq(Nat) /\ Len(b) = k
    <2>1. b \in [1 .. k -> Nat]
        BY <1>2
    <2> QED BY <1>1, <2>1
<1>4. b \in Injection(1 .. k, S)
    <2>1. ASSUME NEW m \in 1 .. k, NEW n \in 1 .. k, b[m] = b[n] PROVE m = n
        <3>1. b[m] \in Nat /\ b[n] \in Nat
            BY <1>2
        <3>2. ~(m < n) /\ ~(n < m)
            BY <1>2, <2>1, <3>1
        <3> QED BY <1>1, <3>2
    <2> QED BY <1>2, <2>1 DEF Injection, IsInjective
<1>5. Cardinality(1 .. k) = k
    <2>1. Cardinality(1 .. k) = IF 1 > k THEN 0 ELSE k - 1 + 1
        BY <1>1, FS_Interval
    <2> QED BY <1>1, <2>1
<1>6. b \in Surjection(1 .. k, S)
    BY <1>4, <1>5, FS_Injection DEF k
<1>7. \A x \in S : \E m \in 1 .. k : b[m] = x
    BY <1>6 DEF Surjection
<1> QED BY <1>1, <1>2, <1>3, <1>7 DEF k

\* The rows a batch takes.
LEMMA SelectedIs ==
    ASSUME LimitKept
    PROVE  /\ Selected \subseteq 1 .. Len(Rows) /\ Selected \subseteq Nat /\ IsFiniteSet(Selected)
           /\ \A r \in Selected : r \in DOMAIN Rows /\ Rows[r].chosen /\ r <= LastRead
           /\ \A q \in DOMAIN Rows : q <= LastRead /\ Rows[q].chosen => q \in Selected
<1>1. Len(Rows) \in Nat /\ DOMAIN Rows = 1 .. Len(Rows)
    BY SceneRows DEF LimitKept
<1>2. LastRead \in 0 .. Len(Rows)
    BY LastReadIs
<1>3. LastRead \in Nat
    BY <1>1, <1>2
<1>4. IsFiniteSet(Selected)
    BY <1>3, ChosenCounted DEF Selected
<1>5. \A r \in Selected : r \in 1 .. LastRead /\ Rows[r].chosen
    BY DEF Selected, ChosenUpTo
<1>6. \A r \in Selected : r \in 1 .. Len(Rows) /\ r <= LastRead /\ r \in Nat
    BY <1>1, <1>2, <1>5
<1>7. ASSUME NEW q \in DOMAIN Rows, q <= LastRead, Rows[q].chosen PROVE q \in Selected
    <2>1. q \in 1 .. LastRead
        BY <1>1, <1>3, <1>7
    <2> QED BY <1>7, <2>1 DEF Selected, ChosenUpTo
<1> QED BY <1>1, <1>4, <1>5, <1>6, <1>7

-----------------------------------------------------------------------------
(* The options.                                                            *)

\* What resolve_saved_printer may make of the options of a scene.
Resolutions ==
    LET o == scene.options IN
    IF OneOff(o, scene.config) THEN {o}
    ELSE {Completed([o EXCEPT !.transport = IF @ = None THEN Uri(p.preferred) ELSE @],
                    PrinterDefaults(p)) :
             p \in {q \in Resolved(scene.store, o.printer) :
                       o.transport # None \/ q.preferred # None}}

\* What the configuration makes of them.
Settled == {Completed(o, scene.config) : o \in Resolutions}

\* Options that differ from the scene's in what defaults may change.
Derived(o) ==
    /\ OptionName \subseteq DOMAIN o
    /\ o.limit = scene.options.limit /\ o.dryRun = scene.options.dryRun

\* A default changes no limit and no dry run.
LEMMA CompletedDerived ==
    ASSUME NEW o, NEW d, Derived(o)
    PROVE  /\ Derived(Completed(o, d))
           /\ Completed(o, d).transport = IF o.transport = None /\ d.kind # None /\ d.address # None
                                          THEN ConfiguredUri(d) ELSE o.transport
           /\ \A s \in Setting : Completed(o, d).settings[s] =
                  IF o.settings[s] = Builtin[s] /\ d.settings[s] # None
                  THEN d.settings[s] ELSE o.settings[s]
BY DEF Derived, Completed, OptionName

\* Nor does the choice of a printer.
LEMMA ResolutionDerived ==
    ASSUME scene \in Scene, NEW o \in Resolutions
    PROVE  Derived(o)
<1>1. Derived(scene.options)
    BY SceneAssumption DEF Derived
<1>2. CASE OneOff(scene.options, scene.config)
    BY <1>1, <1>2 DEF Resolutions
<1>3. CASE ~OneOff(scene.options, scene.config)
    <2>1. PICK p \in Resolved(scene.store, scene.options.printer) :
              o = Completed([scene.options EXCEPT !.transport = IF @ = None THEN Uri(p.preferred) ELSE @],
                            PrinterDefaults(p))
        BY <1>3 DEF Resolutions
    <2>2. Derived([scene.options EXCEPT !.transport = IF @ = None THEN Uri(p.preferred) ELSE @])
        BY <1>1 DEF Derived, OptionName
    <2> QED BY <2>1, <2>2, CompletedDerived
<1> QED BY <1>2, <1>3

-----------------------------------------------------------------------------
(* The invariant.                                                          *)

Printing == stage \in {"planning", "executing"}

\* A batch is all the rows it is about, each of them fit to be filled in.
Expanded == batch \in InOrder(Selected) /\ Expandable

\* What has a target by now.
Routed == Printing \/ stage \in {"expand", "done"} \/ wire # <<>>

CommandInv ==
    /\ scene \in Scene /\ Derived(options)
    /\ stage \in {"resolve", "merge", "expand", "planning", "executing", "done", "failed"}
    /\ batch \in Seq(Nat) /\ next \in Nat \ {0}
    /\ stage \in {"resolve", "merge", "expand"} => wire = <<>> /\ next = 1
    /\ stage = "executing" => next <= Len(batch)
    /\ scene.command # "test" /\ (Printing \/ wire # <<>>) => Expanded
    /\ stage = "resolve" => options = scene.options
    /\ stage = "merge" => options \in Resolutions
    /\ Routed => options \in Settled

\* What reaches the adapter.
Sent == [record : Nat, to : {Adapter(options.transport, options)}, whole : BOOLEAN]

\* The wire has the records before the next one, and while the command runs
\* all of them, whole.
SentInv ==
    /\ wire \in Seq(Sent) /\ Len(wire) < next /\ Len(wire) <= Len(batch)
    /\ \A n \in 1 .. Len(wire) :
           /\ wire[n].record = batch[n]
           /\ n < Len(wire) \/ Printing => wire[n].whole
    /\ wire # <<>> => ~options.dryRun /\ options.transport # None
    /\ Printing /\ ~options.dryRun => Len(wire) = next - 1

\* The rows a batch is about are the scene's and its limit's.
LEMMA BatchFrame ==
    ASSUME UNCHANGED <<scene, options>>
    PROVE  Selected' = Selected /\ Expandable' = Expandable
BY DEF Selected, Expandable, LastRead, ChosenUpTo, LimitReached, Limited, Rows

\* What options are settled on is the scene's.
LEMMA SettledFrame ==
    ASSUME UNCHANGED scene
    PROVE  Resolutions' = Resolutions /\ Settled' = Settled
BY DEF Resolutions, Settled

LEMMA CommandStart == Init => CommandInv /\ SentInv
<1> SUFFICES ASSUME Init PROVE CommandInv /\ SentInv
    OBVIOUS
<1>1. Derived(options)
    BY SceneAssumption DEF Init, Derived
<1>2. CommandInv
    BY <1>1 DEF Init, CommandInv, Printing, Routed
<1>3. SentInv
    BY DEF Init, SentInv, Printing
<1> QED BY <1>2, <1>3

\* No step changes the scene, and only merging changes the options.
LEMMA StepFrame ==
    ASSUME CommandInv, [Next]_vars
    PROVE  /\ scene' = scene
           /\ options' = options \/ ResolveSavedPrinter \/ ApplyConfigDefaults
<1>1. CASE Next
    BY <1>1 DEF Next, ResolveSavedPrinter, ApplyConfigDefaults, Expand, Densities, PlanRecord,
                Execute, Finish
<1>2. CASE UNCHANGED vars
    BY <1>2 DEF vars
<1> QED BY <1>1, <1>2

\* resolve_saved_printer leaves what it may.
LEMMA ResolveStep ==
    ASSUME CommandInv, ResolveSavedPrinter
    PROVE  CommandInv' /\ SentInv'
<1>1. stage = "resolve" /\ options = scene.options /\ wire = <<>> /\ next = 1
      /\ scene' = scene /\ wire' = wire /\ next' = next /\ batch' = batch
    BY DEF ResolveSavedPrinter, CommandInv
<1>2. Resolutions' = Resolutions
    BY <1>1, SettledFrame
<1>3. \/ stage' = "failed" /\ options' = options
      \/ stage' = "merge" /\ options' \in Resolutions
    <2>1. CASE OneOff(options, scene.config)
        BY <1>1, <2>1 DEF ResolveSavedPrinter, Resolutions, Goto
    <2>2. CASE ~OneOff(options, scene.config) /\ stage' # "failed"
        <3>1. PICK p \in Resolved(scene.store, options.printer) :
                  /\ ~(options.transport = None /\ p.preferred = None)
                  /\ options' = Completed([options EXCEPT !.transport =
                                    IF @ = None THEN Uri(p.preferred) ELSE @], PrinterDefaults(p))
                  /\ stage' = "merge"
            BY <2>2 DEF ResolveSavedPrinter, Goto
        <3> QED BY <1>1, <2>2, <3>1 DEF Resolutions
    <2>3. CASE ~OneOff(options, scene.config) /\ stage' = "failed"
        BY <2>3 DEF ResolveSavedPrinter, Goto
    <2> QED BY <2>1, <2>2, <2>3
<1>4. Derived(options)'
    <2>1. \A o \in Resolutions : Derived(o)
        BY ResolutionDerived DEF CommandInv
    <2>2. Derived(options')
        BY <1>3, <2>1 DEF CommandInv
    <2> QED BY <1>1, <2>2 DEF Derived
<1>5. CommandInv'
    BY <1>1, <1>2, <1>3, <1>4 DEF CommandInv, Printing, Routed
<1>6. SentInv'
    BY <1>1, <1>3, <1>5 DEF SentInv, CommandInv, Printing
<1> QED BY <1>5, <1>6

\* The configuration settles the options.
LEMMA MergeStep ==
    ASSUME CommandInv, ApplyConfigDefaults
    PROVE  CommandInv' /\ SentInv'
<1>1. stage = "merge" /\ options \in Resolutions /\ wire = <<>> /\ next = 1 /\ stage' = "expand"
      /\ scene' = scene /\ wire' = wire /\ next' = next /\ batch' = batch
      /\ options' = Completed(options, scene.config)
    BY DEF ApplyConfigDefaults, CommandInv, Goto
<1>2. Settled' = Settled /\ options' \in Settled
    BY <1>1, SettledFrame DEF Settled
<1>3. Derived(options)'
    <2>1. Derived(options')
        BY <1>1, CompletedDerived DEF CommandInv
    <2> QED BY <1>1, <2>1 DEF Derived
<1>4. CommandInv'
    BY <1>1, <1>2, <1>3 DEF CommandInv, Printing, Routed
<1>5. SentInv'
    BY <1>1, <1>4 DEF SentInv, CommandInv, Printing
<1> QED BY <1>4, <1>5

\* Steps that leave the options leave what a record goes to.
LEMMA SameOptions ==
    ASSUME CommandInv, UNCHANGED <<scene, options>>
    PROVE  /\ Derived(options)' /\ Sent' = Sent /\ Settled' = Settled
           /\ (batch \in InOrder(Selected) /\ Expandable /\ batch' = batch => Expanded')
BY BatchFrame, SettledFrame DEF CommandInv, Derived, Sent, Expanded

\* expand_batch has every record, in order.
LEMMA ExpandStep ==
    ASSUME CommandInv, Expand
    PROVE  CommandInv' /\ SentInv'
<1>1. stage = "expand" /\ wire = <<>> /\ next = 1 /\ options \in Settled
      /\ scene' = scene /\ options' = options /\ wire' = wire /\ next' = next
      /\ scene.command # "test"
    BY DEF Expand, CommandInv, Routed
<1>2. LimitKept
    BY DEF CommandInv, Derived, LimitKept
<1>3. \/ stage' = "failed" /\ batch' = batch
      \/ stage' = "planning" /\ batch' \in InOrder(Selected) /\ Expandable
    BY DEF Expand, Goto
<1>4. batch' \in Seq(Nat)
    <2>1. CASE batch' \in InOrder(Selected)
        BY <1>2, <2>1, SelectedIs, InOrderIs
    <2>2. CASE batch' = batch
        BY <2>2 DEF CommandInv
    <2> QED BY <1>3, <2>1, <2>2
<1>5. stage' = "planning" => Expanded'
    BY <1>1, <1>3, BatchFrame DEF Expanded
<1>6. CommandInv'
    BY <1>1, <1>3, <1>4, <1>5, SameOptions DEF CommandInv, Printing, Routed
<1>7. SentInv'
    BY <1>1, <1>4 DEF SentInv, Printing
<1> QED BY <1>6, <1>7

\* The strips of a test print.
LEMMA DensitiesStep ==
    ASSUME CommandInv, Densities
    PROVE  CommandInv' /\ SentInv'
<1>1. stage = "expand" /\ wire = <<>> /\ next = 1 /\ options \in Settled
      /\ scene' = scene /\ options' = options /\ wire' = wire /\ next' = next
      /\ scene.command = "test"
    BY DEF Densities, CommandInv, Routed
<1>2. \/ stage' = "failed" /\ batch' = batch
      \/ stage' = "planning" /\ batch' = [n \in 1 .. 8 |-> n]
    BY DEF Densities, Goto
<1>3. batch' \in Seq(Nat)
    <2>1. [n \in 1 .. 8 |-> n] \in [1 .. 8 -> Nat]
        OBVIOUS
    <2>2. [n \in 1 .. 8 |-> n] \in Seq(Nat)
        BY ONLY <2>1
    <2> QED BY <1>2, <2>2 DEF CommandInv
<1>4. CommandInv'
    BY <1>1, <1>2, <1>3, SameOptions DEF CommandInv, Printing, Routed
<1>5. SentInv'
    BY <1>1, <1>3 DEF SentInv, Printing
<1> QED BY <1>4, <1>5

\* A step that only moves the command on, or ends it.
LEMMA TurnStep ==
    ASSUME CommandInv, SentInv, UNCHANGED <<scene, options, batch, next, wire>>,
           \/ UNCHANGED stage
           \/ stage = "planning" /\ stage' \in {"executing", "failed", "done"}
                 /\ (stage' = "executing" => next <= Len(batch))
           \/ stage = "executing" /\ stage' = "failed"
    PROVE  CommandInv' /\ SentInv'
<1>1. Derived(options)' /\ Sent' = Sent /\ Settled' = Settled /\ Resolutions' = Resolutions
    BY SameOptions, SettledFrame
<1>2. Expanded => Expanded'
    BY SameOptions DEF Expanded
<1>3. Printing' => Printing
    BY DEF Printing
<1>4. CommandInv'
    <2>1. CASE UNCHANGED stage
        BY <1>1, <1>2, <2>1 DEF CommandInv, Printing, Routed
    <2>2. CASE stage = "planning" /\ stage' \in {"executing", "failed", "done"}
                 /\ (stage' = "executing" => next <= Len(batch))
        BY <1>1, <1>2, <2>2 DEF CommandInv, Printing, Routed
    <2>3. CASE stage = "executing" /\ stage' = "failed"
        BY <1>1, <1>2, <2>3 DEF CommandInv, Printing, Routed
    <2> QED BY <2>1, <2>2, <2>3
<1>5. SentInv'
    BY <1>1, <1>3 DEF SentInv
<1> QED BY <1>4, <1>5

\* execute_plan adds the record it is about.
LEMMA ExecuteStep ==
    ASSUME CommandInv, SentInv, Execute
    PROVE  CommandInv' /\ SentInv'
<1>1. stage = "executing" /\ next <= Len(batch) /\ next \in Nat \ {0}
      /\ batch \in Seq(Nat) /\ Len(batch) \in Nat
      /\ scene' = scene /\ options' = options /\ batch' = batch
    BY DEF Execute, CommandInv
<1>2. Derived(options)' /\ Sent' = Sent /\ Settled' = Settled /\ (Expanded => Expanded')
      /\ Resolutions' = Resolutions
    BY <1>1, SameOptions, SettledFrame DEF Expanded
<1>3. options \in Settled /\ (scene.command # "test" => Expanded)
    BY <1>1 DEF CommandInv, Printing, Routed
<1>4. stage' \in {"planning", "failed"} /\ (next' = next + 1 \/ (next' = next /\ stage' = "failed"))
    BY DEF Execute, Goto, AfterError
<1>5. CommandInv'
    BY <1>1, <1>2, <1>3, <1>4 DEF CommandInv, Printing, Routed
<1>6. wire \in Seq(Sent) /\ Len(wire) \in Nat /\ Len(wire) < next /\ Len(wire) <= Len(batch)
    BY DEF SentInv
<1>7. \A n \in 1 .. Len(wire) : wire[n].record = batch[n] /\ wire[n].whole
    BY <1>1 DEF SentInv, Printing
<1>8. CASE wire' = wire
    <2>1. Len(wire) < next' /\ (Printing' => stage' = "planning")
        BY <1>1, <1>4, <1>6 DEF Printing
    <2>2. Printing' /\ ~options.dryRun => FALSE
        <3>1. CASE options.dryRun
            BY <3>1
        <3>2. CASE ~options.dryRun
            <4>1. stage' = "failed" \/ wire' = Append(wire, Printed(TRUE))
                BY <3>2 DEF Execute, Goto, AfterError
            <4>2. Append(wire, Printed(TRUE)) # wire
                <5>1. ASSUME NEW w \in Seq(Sent), NEW x PROVE Len(Append(w, x)) = Len(w) + 1
                    BY ONLY w \in Seq(Sent)
                <5>2. ASSUME Append(wire, Printed(TRUE)) = wire PROVE FALSE
                    <6>1. Len(wire) = Len(wire) + 1
                        BY <1>6, <5>1, <5>2
                    <6> QED BY ONLY <1>6, <6>1
                <5> QED BY <5>2
            <4> QED BY <1>8, <4>1, <4>2 DEF Printing
        <3> QED BY <3>1, <3>2
    <2>3. wire # <<>> => ~options.dryRun /\ options.transport # None
        BY DEF SentInv
    <2> QED BY <1>1, <1>2, <1>5, <1>6, <1>7, <1>8, <2>1, <2>2, <2>3 DEF SentInv
<1>9. CASE wire' # wire
    <2>1. PICK whole \in BOOLEAN :
              /\ wire' = Append(wire, Printed(whole))
              /\ next' = next + 1
              /\ stage' = "planning" => whole
        BY <1>9 DEF Execute, Goto, AfterError
    <2>2. ~options.dryRun /\ options.transport # None
        BY <1>9 DEF Execute
    <2>3. Len(wire) = next - 1
        BY <1>1, <2>2 DEF SentInv, Printing
    <2>4. batch[next] \in Nat
        BY <1>1
    <2>5. Printed(whole) \in Sent /\ Printed(whole).record = batch[next]
          /\ Printed(whole).whole = whole
        BY <2>4 DEF Printed, Sent
    <2> HIDE DEF Printed, Sent
    <2>6. /\ wire' \in Seq(Sent) /\ Len(wire') = next /\ Len(wire') \in Nat
          /\ \A n \in 1 .. Len(wire') : wire'[n] = IF n = next THEN Printed(whole) ELSE wire[n]
        BY <1>1, <1>6, <2>1, <2>3, <2>5
    <2>7. ASSUME NEW n \in 1 .. Len(wire')
          PROVE  wire'[n].record = batch[n] /\ (n < Len(wire') \/ Printing' => wire'[n].whole)
        <3>1. CASE n = next
            BY <1>4, <2>1, <2>5, <2>6, <3>1 DEF Printing
        <3>2. CASE n # next
            <4>1. n \in 1 .. Len(wire)
                BY <1>1, <2>3, <2>6, <3>2
            <4> QED BY <1>7, <2>6, <3>2, <4>1
        <3> QED BY <3>1, <3>2
    <2>8. Len(wire') < next' /\ Len(wire') <= Len(batch) /\ Len(wire') = next' - 1
        BY <1>1, <2>1, <2>6
    <2>9. wire' # <<>> => ~options'.dryRun /\ options'.transport # None
        BY <1>1, <2>2
    <2>10. wire' \in Seq(Sent)' /\ batch' = batch
        BY <1>1, <1>2, <2>6
    <2>11. \A n \in 1 .. Len(wire') :
               wire'[n].record = batch'[n] /\ (n < Len(wire') \/ Printing' => wire'[n].whole)
        BY <2>7, <2>10
    <2>12. Len(wire') < next' /\ Len(wire') <= Len(batch') /\ Len(wire') = next' - 1
        BY <2>8, <2>10
    <2> QED BY <1>5, <2>9, <2>10, <2>11, <2>12 DEF SentInv
<1> QED BY <1>5, <1>8, <1>9

\* Every step keeps the invariant.
LEMMA CommandStep ==
    ASSUME CommandInv, SentInv, [Next]_vars
    PROVE  CommandInv' /\ SentInv'
<1>1. CASE ResolveSavedPrinter
    BY <1>1, ResolveStep
<1>2. CASE ApplyConfigDefaults
    BY <1>2, MergeStep
<1>3. CASE Expand
    BY <1>3, ExpandStep
<1>4. CASE Densities
    BY <1>4, DensitiesStep
<1>5. CASE PlanRecord
    BY <1>5, TurnStep DEF PlanRecord, Goto
<1>6. CASE Execute
    BY <1>6, ExecuteStep
<1>7. CASE Finish
    BY <1>7, TurnStep DEF Finish, Goto
<1>8. CASE UNCHANGED vars
    BY <1>8, TurnStep DEF vars
<1> QED BY <1>1, <1>2, <1>3, <1>4, <1>5, <1>6, <1>7, <1>8 DEF Next

LEMMA CommandAlways == Spec => [](CommandInv /\ SentInv)
<1>1. CommandInv /\ SentInv /\ [Next]_vars => (CommandInv /\ SentInv)'
    BY CommandStep
<1> QED BY <1>1, CommandStart, PTL DEF Spec

-----------------------------------------------------------------------------
(* Theorems.                                                               *)

\* What has been sent of a batch are its first records.
LEMMA SentIsBatch ==
    ASSUME CommandInv, SentInv, scene.command # "test"
    PROVE  /\ DOMAIN wire = 1 .. Len(wire) /\ Len(wire) \in Nat
           /\ \A n \in 1 .. Len(wire) :
                  /\ wire[n].record = batch[n] /\ n \in 1 .. Len(batch)
                  /\ n < Len(wire) => wire[n].whole
           /\ Range(SentRows) = {batch[n] : n \in 1 .. Len(wire)}
           /\ wire # <<>> => Expanded /\ LimitKept
<1>1. DOMAIN wire = 1 .. Len(wire) /\ Len(wire) \in Nat /\ Len(wire) <= Len(batch)
    BY DEF SentInv
<1>2. Len(batch) \in Nat
    BY DEF CommandInv
<1>3. \A n \in 1 .. Len(wire) : n \in 1 .. Len(batch)
    BY <1>1, <1>2
<1>4. \A n \in 1 .. Len(wire) : wire[n].record = batch[n] /\ (n < Len(wire) => wire[n].whole)
    BY DEF SentInv
<1>5. Range(SentRows) = {batch[n] : n \in 1 .. Len(wire)}
    BY <1>1, <1>4 DEF Range, SentRows
<1>6. wire # <<>> => Expanded /\ LimitKept
    BY DEF CommandInv, Derived, LimitKept
<1> QED BY <1>1, <1>3, <1>4, <1>5, <1>6

\* The order of a batch, from the invariant.
LEMMA OrderFromInv ==
    ASSUME CommandInv, SentInv
    PROVE  BatchInOrder
<1> SUFFICES ASSUME scene.command # "test", wire # <<>> PROVE BatchInOrder
    <2>1. ASSUME wire = <<>> PROVE BatchInOrder
        <3>1. DOMAIN wire = {} /\ Range(SentRows) = {}
            BY <2>1 DEF Range, SentRows
        <3> QED BY <3>1 DEF BatchInOrder
    <2> QED BY <2>1 DEF BatchInOrder
<1>1. LimitKept /\ batch \in InOrder(Selected)
    BY SentIsBatch DEF Expanded
<1>2. /\ DOMAIN wire = 1 .. Len(wire) /\ Len(wire) \in Nat
      /\ \A n \in 1 .. Len(wire) : wire[n].record = batch[n] /\ n \in 1 .. Len(batch)
                                   /\ (n < Len(wire) => wire[n].whole)
      /\ Range(SentRows) = {batch[n] : n \in 1 .. Len(wire)}
    BY SentIsBatch
<1>3. Selected \subseteq Nat /\ IsFiniteSet(Selected)
    BY <1>1, SelectedIs
<1>4. /\ batch \in Seq(Nat) /\ Len(batch) \in Nat
      /\ \A m \in 1 .. Len(batch) : batch[m] \in Selected
      /\ \A m, n \in 1 .. Len(batch) : m < n => batch[m] < batch[n]
      /\ \A x \in Selected : \E m \in 1 .. Len(batch) : batch[m] = x
    BY <1>1, <1>3, InOrderIs
<1>5. ASSUME NEW m \in DOMAIN wire, NEW n \in DOMAIN wire, m < n
      PROVE  wire[m].record < wire[n].record /\ wire[m].whole
    <2>1. m \in 1 .. Len(wire) /\ n \in 1 .. Len(wire) /\ m < Len(wire)
        BY <1>2, <1>5
    <2> QED BY <1>2, <1>4, <1>5, <2>1
<1>6. ASSUME NEW r \in Range(SentRows)
      PROVE  /\ r \in DOMAIN Rows /\ Rows[r].chosen /\ Wanted(r) /\ r <= LastRead
             /\ \E n \in 1 .. Len(wire) : r = batch[n]
    <2>1. PICK n \in 1 .. Len(wire) : r = batch[n]
        BY <1>2, <1>6
    <2>2. r \in Selected
        BY <1>2, <1>4, <2>1
    <2>3. r \in DOMAIN Rows /\ Rows[r].chosen /\ r <= LastRead
        BY <1>1, <2>2, SelectedIs
    <2> QED BY <1>1, <2>1, <2>3, WantedIsRead
<1>7. ASSUME NEW r \in Range(SentRows), NEW q \in DOMAIN Rows, q < r, Rows[q].chosen
      PROVE  q \in Range(SentRows)
    <2>1. PICK n \in 1 .. Len(wire) : r = batch[n]
        BY <1>6
    <2>2. r \in DOMAIN Rows /\ r <= LastRead
        BY <1>6
    <2>3. DOMAIN Rows \subseteq Nat /\ LastRead \in Nat
        <3>1. Len(Rows) \in Nat /\ DOMAIN Rows = 1 .. Len(Rows)
            BY SceneRows DEF CommandInv
        <3>2. LastRead \in 0 .. Len(Rows)
            BY <1>1, LastReadIs
        <3> QED BY <3>1, <3>2
    <2>4. q <= LastRead
        BY <1>7, <2>2, <2>3
    <2>5. q \in Selected
        BY <1>1, <1>7, <2>4, SelectedIs
    <2>6. PICK m \in 1 .. Len(batch) : batch[m] = q
        BY <1>4, <2>5
    <2>7. n \in 1 .. Len(batch)
        BY <1>2
    <2>8. m < n
        <3>1. ~(n < m)
            <4>1. n < m => r < q
                BY <1>4, <2>1, <2>6, <2>7
            <4>2. q \in Nat /\ r \in Nat
                BY <2>2, <2>3, <1>7
            <4> QED BY <1>7, <4>1, <4>2
        <3>2. m # n
            <4>1. q \in Nat /\ r \in Nat
                BY <2>2, <2>3, <1>7
            <4> QED BY <1>7, <2>1, <2>6, <4>1
        <3> QED BY <1>4, <2>7, <3>1, <3>2
    <2>9. m \in 1 .. Len(wire)
        BY <1>2, <1>4, <2>8
    <2> QED BY <1>2, <2>6, <2>9
<1> QED BY <1>5, <1>6, <1>7 DEF BatchInOrder

\* A printed batch has no row that it could not read or fill in.
LEMMA GoodFromInv ==
    ASSUME CommandInv, SentInv
    PROVE  NothingOfABadBatch
<1> SUFFICES ASSUME scene.command # "test", wire # <<>>, NEW q \in DOMAIN Rows, Wanted(q),
                    Rows[q].fault = "ragged" \/ (Rows[q].chosen /\ Rows[q].fault = "unfilled")
             PROVE  FALSE
    BY DEF NothingOfABadBatch
<1>1. LimitKept /\ Expandable
    BY SentIsBatch DEF Expanded
<1>2. q <= LastRead
    BY <1>1, WantedIsRead
<1>3. CASE Rows[q].fault = "ragged"
    <2>1. DOMAIN Rows = 1 .. Len(Rows) /\ Len(Rows) \in Nat /\ LastRead \in 0 .. Len(Rows)
        BY <1>1, SceneRows, LastReadIs DEF CommandInv
    <2>2. q \in 1 .. LastRead
        BY <1>2, <2>1
    <2> QED BY <1>1, <1>3, <2>2 DEF Expandable
<1>4. CASE Rows[q].chosen /\ Rows[q].fault = "unfilled"
    <2>1. q \in Selected
        BY <1>1, <1>2, <1>4, SelectedIs
    <2> QED BY <1>1, <1>4, <2>1 DEF Expandable
<1> QED BY <1>3, <1>4

\* Settled options name the target of the scene.
LEMMA SettledTarget ==
    ASSUME scene \in Scene, NEW o \in Settled, ~o.dryRun, o.transport # None
    PROVE  o.transport \in Target /\ ~scene.options.dryRun
<1> DEFINE given == scene.options
           config == scene.config
<1>1. PICK r \in Resolutions : o = Completed(r, config)
    BY DEF Settled
<1>2. Derived(r) /\ Derived(o)
    BY <1>1, ResolutionDerived, CompletedDerived
<1>3. ~given.dryRun
    BY <1>2 DEF Derived
<1>4. o.transport = IF r.transport = None /\ config.kind # None /\ config.address # None
                    THEN ConfiguredUri(config) ELSE r.transport
    BY <1>1, <1>2, CompletedDerived
<1>5. CASE OneOff(given, config)
    <2>1. r = given
        BY <1>5 DEF Resolutions
    <2>2. given.printer = None
          /\ (given.transport # None \/ (config.kind # None /\ config.address # None))
        BY <1>3, <1>5 DEF OneOff
    <2> QED BY <1>3, <1>4, <2>1, <2>2 DEF Target
<1>6. CASE ~OneOff(given, config)
    <2>1. PICK p \in Resolved(scene.store, given.printer) :
              /\ given.transport # None \/ p.preferred # None
              /\ r = Completed([given EXCEPT !.transport = IF @ = None THEN Uri(p.preferred) ELSE @],
                               PrinterDefaults(p))
        BY <1>6 DEF Resolutions
    <2> DEFINE aimed == [given EXCEPT !.transport = IF @ = None THEN Uri(p.preferred) ELSE @]
    <2>2. Derived(given)
        BY SceneAssumption DEF Derived
    <2>3. Derived(aimed) /\ aimed.transport = IF given.transport = None THEN Uri(p.preferred)
                                              ELSE given.transport
        BY <2>2 DEF Derived, OptionName
    <2>4. r.transport = aimed.transport
        <3>1. PrinterDefaults(p).kind = None
            BY DEF PrinterDefaults
        <3>2. r = Completed(aimed, PrinterDefaults(p)) /\ Derived(aimed)
            BY <2>1, <2>3
        <3> HIDE DEF aimed
        <3> QED BY <3>1, <3>2, CompletedDerived
    <2>5. CASE given.transport # None
        BY <1>3, <1>4, <2>3, <2>4, <2>5 DEF Target
    <2>6. CASE given.transport = None
        <3>1. p.preferred # None /\ p \in scene.store.printers
            BY <2>1, <2>6 DEF Resolved
        <3>2. Uri(p.preferred) # None
            BY <3>1, SceneAssumption
        <3>3. o.transport = Uri(p.preferred)
            BY <1>4, <2>3, <2>4, <2>6, <3>2
        <3>4. ~(given.printer = None /\ config.kind # None /\ config.address # None)
            BY <1>6, <2>6 DEF OneOff
        <3> QED BY <1>3, <2>1, <2>6, <3>1, <3>3, <3>4 DEF Target
    <2> QED BY <2>5, <2>6
<1> QED BY <1>5, <1>6

\* One target, from the invariant.
LEMMA TargetFromInv ==
    ASSUME CommandInv, SentInv
    PROVE  OneTarget
<1> SUFFICES ASSUME NEW n \in DOMAIN wire
             PROVE  ~scene.options.dryRun /\ \E t \in Target : wire[n].to = Adapter(t, options)
    BY DEF OneTarget
<1>1. wire \in Seq(Sent) /\ wire # <<>>
    BY DEF SentInv
<1>2. wire[n] \in Sent
    BY <1>1
<1>3. wire[n].to = Adapter(options.transport, options)
    BY <1>2 DEF Sent
<1>4. options \in Settled /\ ~options.dryRun /\ options.transport # None /\ scene \in Scene
    BY <1>1 DEF CommandInv, SentInv, Routed
<1>5. options.transport \in Target /\ ~scene.options.dryRun
    BY <1>4, SettledTarget
<1> QED BY <1>3, <1>5

\* A name, the default or the only printer is one printer.
LEMMA OnlyOne ==
    ASSUME scene \in Scene, NEW name, NEW p \in Resolved(scene.store, name),
           NEW q \in Resolved(scene.store, name)
    PROVE  p = q
<1>1. IsFiniteSet(scene.store.printers)
      /\ \A a, b \in scene.store.printers : a.name = b.name => a = b
    BY SceneAssumption
<1>2. CASE name # None \/ scene.store.default # None
    BY <1>1, <1>2 DEF Resolved
<1>3. CASE ~(name # None \/ scene.store.default # None)
    <2>1. p \in scene.store.printers /\ q \in scene.store.printers
          /\ Cardinality(scene.store.printers) = 1
        BY <1>3 DEF Resolved
    <2>2. \E x : scene.store.printers = {x}
        BY <1>1, <2>1, FS_Singleton
    <2> QED BY <2>1, <2>2
<1> QED BY <1>2, <1>3

\* The settings' order of precedence, from the invariant.
LEMMA SettingsFromInv ==
    ASSUME CommandInv
    PROVE  SettingsInOrder
<1> DEFINE given == scene.options
           config == scene.config
<1> SUFFICES ASSUME stage \in {"planning", "executing", "done"}, NEW s \in Setting
             PROVE  /\ Says(given.settings, s) => options.settings[s] = given.settings[s]
                    /\ \A p \in SavedPrinter : ~Says(given.settings, s) /\ Says(p.settings, s)
                           => options.settings[s] = p.settings[s]
                    /\ ~Says(given.settings, s) /\ (\A p \in SavedPrinter : ~Says(p.settings, s))
                           => options.settings[s] = Merged(config.settings[s], Builtin[s])
    BY DEF SettingsInOrder
<1>1. PICK r \in Resolutions : options = Completed(r, config)
    BY DEF CommandInv, Routed, Printing, Settled
<1>2. Derived(r) /\ Derived(given)
    BY ResolutionDerived, SceneAssumption DEF CommandInv, Derived
<1>3. options.settings[s] = IF r.settings[s] = Builtin[s] /\ config.settings[s] # None
                            THEN config.settings[s] ELSE r.settings[s]
    BY <1>1, <1>2, CompletedDerived
<1>4. Builtin[s] # None /\ given.settings[s] # None
    BY SettingAssumption, SceneAssumption DEF CommandInv
<1>5. CASE OneOff(given, config)
    <2>1. r = given /\ SavedPrinter = {}
        BY <1>5 DEF Resolutions, SavedPrinter
    <2> QED BY <1>3, <1>4, <2>1 DEF Says, Merged
<1>6. CASE ~OneOff(given, config)
    <2>1. PICK p \in Resolved(scene.store, given.printer) :
              r = Completed([given EXCEPT !.transport = IF @ = None THEN Uri(p.preferred) ELSE @],
                            PrinterDefaults(p))
        BY <1>6 DEF Resolutions
    <2> DEFINE aimed == [given EXCEPT !.transport = IF @ = None THEN Uri(p.preferred) ELSE @]
    <2>2. Derived(aimed) /\ aimed.settings = given.settings
        BY <1>2 DEF Derived, OptionName
    <2>3. r.settings[s] = IF given.settings[s] = Builtin[s] /\ p.settings[s] # None
                          THEN p.settings[s] ELSE given.settings[s]
        <3>1. PrinterDefaults(p).settings = p.settings
            BY DEF PrinterDefaults
        <3>2. r = Completed(aimed, PrinterDefaults(p))
            BY <2>1
        <3> HIDE DEF aimed
        <3> QED BY <2>2, <3>1, <3>2, CompletedDerived
    <2>4. SavedPrinter = {p}
        <3>1. \A q \in Resolved(scene.store, given.printer) : q = p
            BY OnlyOne DEF CommandInv
        <3> QED BY <1>6, <3>1 DEF SavedPrinter
    <2> QED BY <1>3, <1>4, <2>3, <2>4 DEF Says, Merged
<1> QED BY <1>5, <1>6

\* A batch comes out in the order of its rows, each row at most once, none left
\* out before a printed one, none beyond the limit, and nothing after a record
\* that failed.
THEOREM BatchOrdered == Spec => []BatchInOrder
BY CommandAlways, OrderFromInv, PTL

\* A batch with a row that cannot be read or filled in prints nothing.
THEOREM BadBatchUnprinted == Spec => []NothingOfABadBatch
BY CommandAlways, GoodFromInv, PTL

\* All that a run prints goes where the options say, else the saved printer,
\* else the configuration; a dry run prints nothing.
THEOREM TargetKept == Spec => []OneTarget
BY CommandAlways, TargetFromInv, PTL

\* A setting is the command line's, else the saved printer's, else the
\* configuration's, else the parser's own value, where whoever says the
\* parser's own value is silent.
THEOREM SettingsOrdered == Spec => []SettingsInOrder
BY CommandAlways, SettingsFromInv, PTL
=============================================================================
