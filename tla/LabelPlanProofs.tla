---------------------------- MODULE LabelPlanProofs ----------------------------
(***************************************************************************)
(* Theorems of a batch of labels and their proofs: the knife falls where   *)
(* the request says, the events name the label that is printing, and no    *)
(* raster of an accepted job exceeds the head or the loaded label.         *)
(***************************************************************************)
EXTENDS LabelPlan, FiniteSetTheorems, TLAPS

-----------------------------------------------------------------------------
(* Arithmetic.                                                             *)

\* Quotient and remainder.
LEMMA DivMod ==
    ASSUME NEW p \in Nat, NEW k \in Nat \ {0}
    PROVE  /\ p \div k \in Nat /\ p % k \in 0 .. k - 1
           /\ p = (k * (p \div k)) + (p % k)
OBVIOUS

\* Multiples of k are k apart.
LEMMA Steps ==
    ASSUME NEW k \in Nat, NEW a \in Int, NEW b \in Int, a < b
    PROVE  (k * a) + k <= k * b
<1>1. b - a - 1 \in Nat
    OBVIOUS
<1>2. \A x, y \in Nat : x * y \in Nat
    OBVIOUS
<1>3. k * (b - a - 1) \in Nat
    BY <1>1, <1>2
<1>4. k * (b - a - 1) = (k * b) - (k * a) - k
    OBVIOUS
<1> QED BY ONLY <1>3, <1>4, k \in Nat, a \in Int, b \in Int

\* They are unique.
LEMMA DivUnique ==
    ASSUME NEW k \in Nat \ {0}, NEW a \in Int, NEW b \in Int,
           NEW r \in 0 .. k - 1, NEW s \in 0 .. k - 1, (k * a) + r = (k * b) + s
    PROVE  a = b /\ r = s
<1>0. k * a \in Int /\ k * b \in Int
    OBVIOUS
<1>1. ~(a < b)
    <2>1. ASSUME a < b PROVE FALSE
        <3>1. (k * a) + k <= k * b
            BY <2>1, Steps
        <3> QED BY <1>0, <3>1
    <2> QED BY <2>1
<1>2. ~(b < a)
    <2>1. ASSUME b < a PROVE FALSE
        <3>1. (k * b) + k <= k * a
            BY <2>1, Steps
        <3> QED BY <1>0, <3>1
    <2> QED BY <2>1
<1>3. a = b
    BY <1>1, <1>2
<1> QED BY <1>0, <1>3

\* What is below a multiple has a quotient below the factor.
LEMMA QuotientBelow ==
    ASSUME NEW k \in Nat \ {0}, NEW m \in Nat, NEW p \in Nat, p < k * m
    PROVE  p \div k < m
<1>1. p \div k \in Nat /\ p % k \in 0 .. k - 1 /\ p = (k * (p \div k)) + (p % k)
    BY DivMod
<1>2. ASSUME m <= p \div k PROVE FALSE
    <2>1. k * m <= k * (p \div k)
        <3>1. CASE m = p \div k
            BY <3>1
        <3>2. CASE m < p \div k
            <4>1. (k * m) + k <= k * (p \div k)
                BY <1>1, <3>2, Steps
            <4>2. k * m \in Int /\ k * (p \div k) \in Int
                BY <1>1
            <4> QED BY <4>1, <4>2
        <3> QED BY <1>1, <1>2, <3>1, <3>2
    <2>2. k * m \in Int /\ k * (p \div k) \in Int
        BY <1>1
    <2> QED BY <1>1, <2>1, <2>2
<1> QED BY <1>1, <1>2

\* The n-th number is the last of its k when it is a multiple of k.
LEMMA LastOfRound ==
    ASSUME NEW k \in Nat \ {0}, NEW n \in Nat \ {0}
    PROVE  n % k = 0 <=> ((n - 1) % k) + 1 = k
<1> DEFINE q == (n - 1) \div k
           r == (n - 1) % k
           u == n \div k
           v == n % k
<1>0. n - 1 \in Nat
    OBVIOUS
<1>1. q \in Nat /\ r \in 0 .. k - 1 /\ n - 1 = (k * q) + r
    BY <1>0, DivMod
<1>2. u \in Nat /\ v \in 0 .. k - 1 /\ n = (k * u) + v
    BY DivMod
<1> HIDE DEF q, r, u, v
<1>3. k * q \in Int /\ k * u \in Int
    BY <1>1, <1>2
<1>4. ASSUME v = 0 PROVE r + 1 = k
    <2>1. PICK b \in Int, s \in 0 .. k - 1 : b = u - 1 /\ s = k - 1
        BY <1>2
    <2>2. k * b = (k * u) - k
        BY <1>2, <2>1
    <2>3. (k * q) + r = (k * b) + s
        BY <1>1, <1>2, <1>3, <1>4, <2>1, <2>2
    <2>4. r = s
        BY <1>1, <2>3, DivUnique
    <2> QED BY <2>1, <2>4
<1>5. ASSUME r + 1 = k PROVE v = 0
    <2>1. PICK b \in Int, s \in 0 .. k - 1 : b = q + 1 /\ s = 0
        BY <1>1
    <2>2. k * b = (k * q) + k
        BY <1>1, <2>1
    <2>3. (k * u) + v = (k * b) + s
        BY <1>1, <1>2, <1>3, <1>5, <2>1, <2>2
    <2>4. v = s
        BY <1>2, <2>3, DivUnique
    <2> QED BY <2>1, <2>4
<1>6. v = 0 <=> r + 1 = k
    BY <1>4, <1>5
<1> QED BY <1>6 DEF r, v

\* The larger of a number and one.
LEMMA AtLeastOne ==
    ASSUME NEW x \in Nat
    PROVE  Max({1, x}) \in Nat \ {0} /\ (\A m \in Nat \ {0} : x <= m => Max({1, x}) <= m)
<1>1. \E y \in {1, x} : \A z \in {1, x} : y >= z
    OBVIOUS
<1>2. Max({1, x}) \in {1, x} /\ \A z \in {1, x} : Max({1, x}) >= z
    BY <1>1 DEF Max
<1> QED BY <1>2

\* Scaling down makes nothing longer.
LEMMA ScaledDown ==
    ASSUME NEW h \in Nat \ {0}, NEW k \in Nat \ {0}, NEW w \in Nat, k < w
    PROVE  Rounded(h * k, w) \in Nat \ {0} /\ Rounded(h * k, w) <= h
<1> DEFINE half == w \div 2
           p == (h * k) + half
<1>1. w \in Nat \ {0} /\ h * k \in Nat /\ half \in Nat /\ half < w
    OBVIOUS
<1>2. h * k <= w * h
    <2>1. (h * k) + h <= h * w
        BY Steps
    <2>2. h * w \in Int /\ h * w = w * h
        OBVIOUS
    <2> QED BY <1>1, <2>1, <2>2
<1>3. w * h \in Nat /\ w * (h + 1) = (w * h) + w
    OBVIOUS
<1> HIDE DEF half
<1>4. p \in Nat /\ p < w * (h + 1)
    BY <1>1, <1>2, <1>3
<1> HIDE DEF p
<1>5. p \div w < h + 1
    BY <1>1, <1>4, QuotientBelow
<1>6. p \div w \in Nat
    BY <1>1, <1>4, DivMod
<1>7. Rounded(h * k, w) = Max({1, p \div w})
    BY DEF Rounded, p, half
<1> QED BY <1>5, <1>6, <1>7, AtLeastOne

-----------------------------------------------------------------------------
(* The scene.                                                              *)

\* Documents, copies and labels are counted from one.
LEMMA SceneNumbers ==
    ASSUME scene \in Scene
    PROVE  /\ Len(docs) \in Nat \ {0} /\ DOMAIN docs = 1 .. Len(docs)
           /\ request.copies \in Nat \ {0}
           /\ TotalLabels \in Nat \ {0} /\ TotalLabels = request.copies * Len(docs)
           /\ \A n \in DOMAIN docs : docs[n] \in Document
<1>1. docs \in Seq(Document) /\ docs # <<>> /\ request.copies \in Nat \ {0}
    BY SceneAssumption DEF docs, request
<1>2. Len(docs) \in Nat \ {0} /\ DOMAIN docs = 1 .. Len(docs)
      /\ \A n \in DOMAIN docs : docs[n] \in Document
    BY <1>1
<1>3. ASSUME NEW k \in Nat \ {0}, NEW m \in Nat \ {0} PROVE k * m \in Nat \ {0}
    OBVIOUS
<1>4. TotalLabels \in Nat \ {0} /\ TotalLabels = request.copies * Len(docs)
    BY <1>1, <1>2, <1>3 DEF TotalLabels
<1> QED BY <1>1, <1>2, <1>4

LabelId == [item : Nat, copy : Nat]

\* The n-th label is a copy of a document of the batch.
LEMMA LabelIs ==
    ASSUME scene \in Scene, NEW n \in 1 .. TotalLabels
    PROVE  /\ Labels[n] \in LabelId
           /\ Labels[n].item = (n - 1) \div request.copies
           /\ Labels[n].copy = (n - 1) % request.copies
           /\ Labels[n].item < Len(docs) /\ Labels[n].copy < request.copies
           /\ n - 1 = (request.copies * Labels[n].item) + Labels[n].copy
<1> DEFINE k == request.copies
<1>1. k \in Nat \ {0} /\ Len(docs) \in Nat /\ TotalLabels \in Nat /\ TotalLabels = k * Len(docs)
    BY SceneNumbers
<1>2. Labels[n] = [item |-> (n - 1) \div k, copy |-> (n - 1) % k]
    BY DEF Labels
<1> HIDE DEF k
<1>3. n - 1 \in Nat /\ n - 1 < k * Len(docs)
    BY <1>1
<1>4. /\ (n - 1) \div k \in Nat /\ (n - 1) % k \in 0 .. k - 1
      /\ n - 1 = (k * ((n - 1) \div k)) + ((n - 1) % k)
    BY <1>1, <1>3, DivMod
<1>5. (n - 1) \div k < Len(docs)
    BY <1>1, <1>3, QuotientBelow
<1>6. (n - 1) % k \in Nat /\ (n - 1) % k < k
    BY <1>1, <1>4
<1> QED BY <1>2, <1>4, <1>5, <1>6 DEF LabelId, k

-----------------------------------------------------------------------------
(* The invariant.                                                          *)

Underway == stage \in {"running", "printed"}

\* The labels and the announcements among the first n actions.
LabelsIn(n) == IF printer.brother THEN n \div 2 ELSE n
AnnouncedIn(n) == {m \in 1 .. n : plan[m] = "information"}

PlanInv ==
    /\ scene \in Scene
    /\ stage \in {"submitted", "refused", "panicked", "running", "printed"}
    /\ ~Underway => plan = <<>> /\ last = 0 /\ tape = <<>>
    /\ Underway => Acceptable /\ cutter = Cutter /\ plan = Actions
    /\ last \in Nat /\ (Underway => last <= Len(plan))

\* A label with what the knife does after it.
Cutting(n) == [label |-> Labels[n], cut |-> cutter.cut /\ n % cutter.every = 0]

\* What came out are the first labels, and the last event shows the place of
\* the last action.
TapeInv ==
    /\ tape \in Seq([label : LabelId, cut : BOOLEAN])
    /\ Len(tape) = LabelsIn(last) /\ Len(tape) <= TotalLabels
    /\ \A n \in 1 .. Len(tape) : tape[n] = Cutting(n)
    /\ printer.brother => Cardinality(AnnouncedIn(last)) = (last + 1) \div 2
    /\ last > 0 => shown = BatchPosition(last)

\* What only depends on the scene.
LEMMA SceneFrame ==
    ASSUME UNCHANGED scene
    PROVE  /\ Acceptable' = Acceptable /\ Cutter' = Cutter /\ Actions' = Actions
           /\ Labels' = Labels /\ TotalLabels' = TotalLabels
BY DEF Acceptable, SameRoll, RollRefused, CounterFits, Counted, CutLabels, TotalLabels,
       ExceedsLoaded, RenderRefused, HeadWidth, LoadedBox, Fitted, Fits, FitBox, Upright, Turned, Cutter, Actions,
       Labels, request, printer, loaded, docs

\* The actions of a plan, one by one.
LEMMA ActionIs ==
    ASSUME scene \in Scene, plan = Actions
    PROVE  /\ Len(plan) = IF printer.brother THEN 2 * TotalLabels ELSE TotalLabels
           /\ Len(plan) \in Nat
           /\ \A n \in 1 .. Len(plan) :
                  plan[n] = IF printer.brother /\ n % 2 = 1 THEN "information" ELSE "raster"
<1>1. TotalLabels \in Nat /\ 2 * TotalLabels \in Nat
    BY SceneNumbers
<1>2. CASE printer.brother
    <2>1. plan = [n \in 1 .. 2 * TotalLabels |-> IF n % 2 = 1 THEN "information" ELSE "raster"]
        BY <1>2 DEF Actions
    <2>2. Len(plan) = 2 * TotalLabels
        BY <1>1, <2>1
    <2> QED BY <1>1, <1>2, <2>1, <2>2
<1>3. CASE ~printer.brother
    <2>1. plan = [n \in 1 .. TotalLabels |-> "raster"]
        BY <1>3 DEF Actions
    <2>2. Len(plan) = TotalLabels
        BY <1>1, <2>1
    <2> QED BY <1>1, <1>3, <2>1, <2>2
<1> QED BY <1>2, <1>3

\* Half of the next number.
LEMMA NextHalf ==
    ASSUME NEW n \in Nat
    PROVE  /\ n \div 2 \in Nat
           /\ n % 2 = 1 => (n + 1) \div 2 = (n \div 2) + 1 /\ (n + 1) % 2 = 0
           /\ n % 2 # 1 => n % 2 = 0 /\ (n + 1) \div 2 = n \div 2 /\ (n + 1) % 2 = 1
           /\ \A m \in Nat : n <= 2 * m => n \div 2 <= m
OBVIOUS

\* The announcements up to the next action.
LEMMA NextAnnounced ==
    ASSUME NEW n \in Nat
    PROVE  Cardinality(AnnouncedIn(n + 1)) =
               Cardinality(AnnouncedIn(n)) + IF plan[n + 1] = "information" THEN 1 ELSE 0
<1>1. IsFiniteSet(AnnouncedIn(n)) /\ Cardinality(AnnouncedIn(n)) \in Nat /\ n + 1 \notin AnnouncedIn(n)
    <2>1. AnnouncedIn(n) \subseteq 1 .. n
        BY DEF AnnouncedIn
    <2>2. IsFiniteSet(1 .. n)
        BY FS_Interval
    <2>3. IsFiniteSet(AnnouncedIn(n))
        BY <2>1, <2>2, FS_Subset
    <2>4. n + 1 \notin 1 .. n
        OBVIOUS
    <2> QED BY <2>1, <2>3, <2>4, FS_CardinalityType
<1>2. \A m : m \in 1 .. n + 1 <=> m \in 1 .. n \/ m = n + 1
    OBVIOUS
<1>3. CASE plan[n + 1] = "information"
    <2>1. AnnouncedIn(n + 1) = AnnouncedIn(n) \cup {n + 1}
        BY <1>2, <1>3 DEF AnnouncedIn
    <2>2. Cardinality(AnnouncedIn(n) \cup {n + 1}) = Cardinality(AnnouncedIn(n)) + 1
        BY <1>1, FS_AddElement
    <2> QED BY <1>3, <2>1, <2>2
<1>4. CASE plan[n + 1] # "information"
    <2>1. AnnouncedIn(n + 1) = AnnouncedIn(n)
        BY <1>2, <1>4 DEF AnnouncedIn
    <2> QED BY <1>1, <1>4, <2>1
<1> QED BY <1>3, <1>4

\* Nothing is printed and nothing announced before the first action.
LEMMA NothingYet ==
    /\ LabelsIn(0) = 0
    /\ Cardinality(AnnouncedIn(0)) = 0 /\ (0 + 1) \div 2 = 0
<1>1. AnnouncedIn(0) = {}
    BY DEF AnnouncedIn
<1>2. Cardinality({}) = 0
    BY FS_EmptySet
<1>3. 0 \div 2 = 0 /\ (0 + 1) \div 2 = 0
    OBVIOUS
<1> QED BY <1>1, <1>2, <1>3 DEF LabelsIn

LEMMA PlanStart == Init => PlanInv /\ TapeInv
<1> SUFFICES ASSUME Init PROVE PlanInv /\ TapeInv
    OBVIOUS
<1>1. PlanInv
    BY DEF Init, PlanInv, Underway
<1>2. TotalLabels \in Nat
    BY SceneNumbers DEF Init
<1>3. TapeInv
    BY <1>2, NothingYet DEF Init, TapeInv
<1> QED BY <1>1, <1>3

\* Refusing, panicking, planning and finishing leave the tape.
LEMMA QuietStep ==
    ASSUME PlanInv, TapeInv, Refuse \/ Panic \/ MakePlan \/ Finish \/ UNCHANGED vars
    PROVE  PlanInv' /\ TapeInv'
<1>1. UNCHANGED <<scene, last, shown, tape>>
    BY DEF Refuse, Panic, MakePlan, Finish, vars
<1>2. /\ Acceptable' = Acceptable /\ Cutter' = Cutter /\ Actions' = Actions
      /\ Labels' = Labels /\ TotalLabels' = TotalLabels /\ printer' = printer
    BY <1>1, SceneFrame DEF printer
<1>3. PlanInv'
    <2>1. CASE Refuse \/ Panic \/ Finish \/ UNCHANGED vars
        BY <1>1, <1>2, <2>1 DEF PlanInv, Refuse, Panic, Finish, vars, Underway
    <2>2. CASE MakePlan
        <3>1. last = 0 /\ plan' = Actions /\ scene' = scene /\ scene \in Scene
            BY <2>2 DEF PlanInv, MakePlan, Underway
        <3>2. Len(Actions) \in Nat
            <4>1. TotalLabels \in Nat /\ 2 * TotalLabels \in Nat
                BY <3>1, SceneNumbers
            <4> QED BY <4>1 DEF Actions
        <3> QED BY <1>1, <1>2, <2>2, <3>1, <3>2 DEF PlanInv, MakePlan, Underway
    <2> QED BY <2>1, <2>2
<1>4. CASE plan' = plan /\ cutter' = cutter
    <2>1. LabelsIn(last)' = LabelsIn(last)
        BY <1>1, <1>2 DEF LabelsIn
    <2>2. Cardinality(AnnouncedIn(last))' = Cardinality(AnnouncedIn(last))
        BY <1>1, <1>4 DEF AnnouncedIn
    <2>3. BatchPosition(last)' = BatchPosition(last)
        BY <1>1, <1>4 DEF BatchPosition, request, docs
    <2>4. \A n \in 1 .. Len(tape) : Cutting(n)' = Cutting(n)
        BY <1>2, <1>4 DEF Cutting
    <2> QED BY <1>1, <1>2, <1>3, <2>1, <2>2, <2>3, <2>4 DEF TapeInv
<1>5. CASE MakePlan
    <2>1. last = 0 /\ tape = <<>>
        BY <1>5 DEF PlanInv, MakePlan, Underway
    <2>2. LabelsIn(last)' = 0
        BY <1>1, <1>2, <2>1, NothingYet DEF LabelsIn
    <2>3. Cardinality(AnnouncedIn(last)') = 0
        <3>1. AnnouncedIn(last)' = {}
            BY <1>1, <2>1 DEF AnnouncedIn
        <3> QED BY <3>1, FS_EmptySet
    <2>4. TotalLabels \in Nat
        BY SceneNumbers DEF PlanInv
    <2>5. Cardinality(AnnouncedIn(last))' = 0 /\ (last' + 1) \div 2 = 0
        BY <1>1, <2>1, <2>3, NothingYet
    <2>6. tape' = <<>> /\ Len(tape') = 0 /\ last' = 0
        BY <1>1, <2>1
    <2>7. tape' \in Seq([label : LabelId, cut : BOOLEAN]) /\ 1 .. Len(tape') = {}
        BY <2>6
    <2>8. Len(tape') <= TotalLabels'
        BY <1>2, <2>4, <2>6
    <2> QED BY <1>2, <1>3, <2>2, <2>5, <2>6, <2>7, <2>8 DEF TapeInv
<1> QED BY <1>3, <1>4, <1>5 DEF Refuse, Panic, Finish, vars

\* One action more: a label that comes out is the next one.
LEMMA ActionStep ==
    ASSUME PlanInv, TapeInv, ExecuteAction
    PROVE  PlanInv' /\ TapeInv'
<1>1. /\ stage = "running" /\ last \in Nat /\ last < Len(plan) /\ plan = Actions /\ cutter = Cutter
      /\ scene \in Scene /\ last' = last + 1 /\ shown' = BatchPosition(last + 1)
      /\ UNCHANGED <<scene, stage, cutter, plan>>
    BY DEF ExecuteAction, PlanInv, Underway
<1>2. /\ Acceptable' = Acceptable /\ Cutter' = Cutter /\ Actions' = Actions
      /\ Labels' = Labels /\ TotalLabels' = TotalLabels /\ printer' = printer
    BY <1>1, SceneFrame DEF printer
<1>3. /\ Len(plan) = IF printer.brother THEN 2 * TotalLabels ELSE TotalLabels
      /\ Len(plan) \in Nat /\ last + 1 \in 1 .. Len(plan)
      /\ plan[last + 1] = IF printer.brother /\ (last + 1) % 2 = 1 THEN "information" ELSE "raster"
      /\ TotalLabels \in Nat
    BY <1>1, ActionIs, SceneNumbers
<1>4. PlanInv'
    BY <1>1, <1>2, <1>3 DEF PlanInv, Underway
<1>5. BatchPosition(last)' = BatchPosition(last + 1)
    BY <1>1 DEF BatchPosition, request, docs
<1>6. printer.brother => Cardinality(AnnouncedIn(last))' = (last' + 1) \div 2
    <2>1. Cardinality(AnnouncedIn(last))' = Cardinality(AnnouncedIn(last + 1))
        BY <1>1 DEF AnnouncedIn
    <2>2. Cardinality(AnnouncedIn(last + 1)) =
              Cardinality(AnnouncedIn(last)) + IF plan[last + 1] = "information" THEN 1 ELSE 0
        BY <1>1, NextAnnounced
    <2>3. printer.brother => Cardinality(AnnouncedIn(last)) = (last + 1) \div 2
        BY DEF TapeInv
    <2>4. last + 1 \in Nat /\ (last + 1) \div 2 \in Nat
        BY <1>1, NextHalf
    <2>5. CASE (last + 1) % 2 = 1
        <3>1. (last + 1 + 1) \div 2 = ((last + 1) \div 2) + 1
            BY <2>4, <2>5, NextHalf
        <3> QED BY <1>1, <1>3, <2>1, <2>2, <2>3, <2>5, <3>1
    <2>6. CASE (last + 1) % 2 # 1
        <3>1. (last + 1 + 1) \div 2 = (last + 1) \div 2
            BY <2>4, <2>6, NextHalf
        <3> QED BY <1>1, <1>3, <2>1, <2>2, <2>3, <2>4, <2>6, <3>1
    <2> QED BY <2>5, <2>6
<1>7. CASE plan[last + 1] = "information"
    <2>1. tape' = tape /\ printer.brother /\ (last + 1) % 2 = 1
        BY <1>3, <1>7 DEF ExecuteAction
    <2>2. (last + 1) \div 2 = last \div 2
        BY <1>1, <2>1, NextHalf
    <2>3. LabelsIn(last)' = LabelsIn(last)
        BY <1>1, <1>2, <2>1, <2>2 DEF LabelsIn
    <2>4. \A n \in 1 .. Len(tape) : Cutting(n)' = Cutting(n)
        BY <1>1, <1>2 DEF Cutting
    <2> QED BY <1>1, <1>2, <1>4, <1>5, <1>6, <2>1, <2>3, <2>4 DEF TapeInv
<1>8. CASE plan[last + 1] = "raster"
    <2>1. tape' = Append(tape, Cutting(Len(tape) + 1))
        BY <1>8 DEF ExecuteAction, Output, Cutting
    <2>2. LabelsIn(last)' = LabelsIn(last) + 1 /\ LabelsIn(last)' <= TotalLabels /\ LabelsIn(last) \in Nat
        <3>1. CASE printer.brother
            <4>1. (last + 1) % 2 # 1
                BY <1>3, <1>8, <3>1
            <4>2. last % 2 = 1
                BY <1>1, <4>1, NextHalf
            <4>3. (last + 1) \div 2 = (last \div 2) + 1 /\ last \div 2 \in Nat
                BY <1>1, <4>2, NextHalf
            <4>4. (last + 1) \div 2 <= TotalLabels
                <5>1. last + 1 \in Nat /\ last + 1 <= 2 * TotalLabels
                    BY <1>1, <1>3, <3>1
                <5> QED BY <1>3, <5>1, NextHalf
            <4> QED BY <1>1, <1>2, <3>1, <4>3, <4>4 DEF LabelsIn
        <3>2. CASE ~printer.brother
            BY <1>1, <1>2, <1>3, <3>2 DEF LabelsIn
        <3> QED BY <3>1, <3>2
    <2>3. /\ tape \in Seq([label : LabelId, cut : BOOLEAN]) /\ Len(tape) = LabelsIn(last)
          /\ Len(tape) + 1 \in 1 .. TotalLabels
        BY <1>3, <2>2 DEF TapeInv
    <2>4. Cutting(Len(tape) + 1) \in [label : LabelId, cut : BOOLEAN]
        <3>1. cutter.cut \in BOOLEAN
            BY <1>1 DEF Cutter
        <3>2. Labels[Len(tape) + 1] \in LabelId
            BY <1>1, <2>3, LabelIs
        <3> QED BY <3>1, <3>2 DEF Cutting
    <2>5. \A n : Cutting(n)' = Cutting(n)
        BY <1>1, <1>2 DEF Cutting
    <2> HIDE DEF Cutting
    <2>6. /\ tape' \in Seq([label : LabelId, cut : BOOLEAN]) /\ Len(tape') = Len(tape) + 1
          /\ \A n \in 1 .. Len(tape') :
                 tape'[n] = IF n = Len(tape) + 1 THEN Cutting(n) ELSE tape[n]
        BY <2>1, <2>3, <2>4
    <2>7. \A n \in 1 .. Len(tape') : tape'[n] = Cutting(n)
        <3> SUFFICES ASSUME NEW n \in 1 .. Len(tape') PROVE tape'[n] = Cutting(n)
            OBVIOUS
        <3>1. CASE n = Len(tape) + 1
            BY <2>6, <3>1
        <3>2. CASE n # Len(tape) + 1
            <4>1. n \in 1 .. Len(tape)
                BY <2>3, <2>6, <3>2
            <4> QED BY <2>6, <3>2, <4>1 DEF TapeInv
        <3> QED BY <3>1, <3>2
    <2>8. Len(tape') = LabelsIn(last)' /\ Len(tape') <= TotalLabels'
        BY <1>2, <2>2, <2>3, <2>6
    <2> QED BY <1>1, <1>2, <1>4, <1>5, <1>6, <2>5, <2>6, <2>7, <2>8 DEF TapeInv
<1> QED BY <1>3, <1>7, <1>8

LEMMA PlanAlways == Spec => [](PlanInv /\ TapeInv)
<1>1. PlanInv /\ TapeInv /\ [Next]_vars => (PlanInv /\ TapeInv)'
    BY QuietStep, ActionStep DEF Next
<1> QED BY <1>1, PlanStart, PTL DEF Spec

-----------------------------------------------------------------------------
(* Theorems.                                                               *)

\* The cutter's counter, by what the request asks for.
LEMMA CutterIs ==
    ASSUME scene \in Scene, Acceptable, cutter = Cutter
    PROVE  LET c == request.continuous IN
           \/ c = None /\ cutter.cut /\ cutter.every = 1
           \/ /\ c # None /\ c.mode \in CutModes /\ c.chain \in BOOLEAN
              /\ \/ c.mode = "none" /\ ~cutter.cut
                 \/ c.mode = "after-job" /\ cutter.cut /\ cutter.every = TotalLabels
                 \/ c.mode = "after-each" /\ c.chain /\ cutter.cut /\ cutter.every = request.copies
                 \/ c.mode = "after-each" /\ ~c.chain /\ cutter.cut /\ cutter.every = 1
<1> DEFINE c == request.continuous
<1>1. c # None => c.mode \in CutModes /\ c.chain \in BOOLEAN
    BY SceneAssumption DEF request
<1>2. cutter.cut = (~docs[1].roll \/ c = None \/ c.mode # "none")
      /\ cutter.every = IF Counted THEN CutLabels ELSE 1
    BY DEF Cutter
<1>3. CASE c = None
    BY <1>2, <1>3 DEF Counted
<1>4. CASE c # None
    <2>1. docs[1].roll
        BY <1>4 DEF Acceptable, RollRefused
    <2>2. CASE c.mode = "none"
        BY <1>1, <1>2, <1>4, <2>1, <2>2
    <2>3. CASE c.mode = "after-job"
        BY <1>1, <1>2, <1>4, <2>1, <2>3 DEF Counted, CutLabels
    <2>4. CASE c.mode = "after-each"
        BY <1>1, <1>2, <1>4, <2>1, <2>4 DEF Counted, CutLabels
    <2> QED BY <1>1, <1>4, <2>2, <2>3, <2>4 DEF CutModes
<1> QED BY <1>3, <1>4

\* The last label of the job is the last copy of the last document.
LEMMA LastOfJob ==
    ASSUME scene \in Scene, NEW n \in 1 .. TotalLabels
    PROVE  n % TotalLabels = 0 <=>
               Labels[n].item + 1 = Len(docs) /\ Labels[n].copy + 1 = request.copies
<1> DEFINE k == request.copies
           m == Len(docs)
           i == Labels[n].item
           j == Labels[n].copy
<1>1. k \in Nat \ {0} /\ m \in Nat \ {0} /\ TotalLabels \in Nat \ {0} /\ TotalLabels = k * m
    BY SceneNumbers
<1>2. i \in Nat /\ j \in Nat /\ i < m /\ j < k /\ n - 1 = (k * i) + j
    BY LabelIs DEF LabelId
<1> HIDE DEF k, m, i, j
<1>3. n % TotalLabels = 0 <=> n = TotalLabels
    <2>1. n \in Nat \ {0} /\ n <= TotalLabels
        BY <1>1
    <2>2. n < TotalLabels => n % TotalLabels = n
        BY ONLY <1>1, <2>1
    <2>3. TotalLabels % TotalLabels = 0
        BY ONLY <1>1
    <2> QED BY <1>1, <2>1, <2>2, <2>3
<1>4. k * i \in Int /\ k * m \in Int
    BY <1>1, <1>2
<1>5. ASSUME i + 1 = m, j + 1 = k PROVE n = TotalLabels
    <2>1. k * (i + 1) = (k * i) + k
        BY <1>1, <1>2
    <2> QED BY <1>1, <1>2, <1>4, <1>5, <2>1
<1>6. ASSUME n = TotalLabels PROVE i + 1 = m /\ j + 1 = k
    <2>1. PICK a \in Int, r \in 0 .. k - 1 : a = m - 1 /\ r = k - 1
        BY <1>1
    <2>2. k * a = (k * m) - k
        BY <1>1, <2>1
    <2>3. (k * i) + j = (k * a) + r
        BY <1>1, <1>2, <1>4, <1>6, <2>1, <2>2
    <2>4. i \in Int /\ j \in 0 .. k - 1
        BY <1>1, <1>2
    <2>5. i = a /\ j = r
        BY <1>1, <2>3, <2>4, DivUnique
    <2> QED BY <1>1, <1>2, <2>1, <2>5
<1> QED BY <1>3, <1>5, <1>6 DEF k, m, i, j

\* The cuts, from the invariant.
LEMMA CutsFromInv ==
    ASSUME PlanInv, TapeInv
    PROVE  CutsAsAsked
<1> DEFINE c == request.continuous
<1> SUFFICES ASSUME stage = "printed", NEW n \in DOMAIN tape
             PROVE  tape[n].cut <=>
                        \/ c = None
                        \/ c # None /\ c.mode = "after-job" /\ tape[n].label.item + 1 = Len(docs)
                             /\ tape[n].label.copy + 1 = request.copies
                        \/ c # None /\ c.mode = "after-each"
                             /\ (c.chain => tape[n].label.copy + 1 = request.copies)
    BY DEF CutsAsAsked
<1>1. scene \in Scene /\ Acceptable /\ cutter = Cutter
    BY DEF PlanInv, Underway
<1>2. n \in 1 .. Len(tape) /\ Len(tape) \in Nat /\ Len(tape) <= TotalLabels /\ TotalLabels \in Nat
    BY <1>1, SceneNumbers DEF TapeInv
<1>3. n \in 1 .. TotalLabels /\ n \in Nat \ {0}
    BY <1>2
<1>4. tape[n].label = Labels[n] /\ tape[n].cut = (cutter.cut /\ n % cutter.every = 0)
    BY <1>2 DEF TapeInv, Cutting
<1>5. request.copies \in Nat \ {0} /\ Labels[n].copy = (n - 1) % request.copies
    BY <1>1, <1>3, SceneNumbers, LabelIs
<1>6. n % request.copies = 0 <=> Labels[n].copy + 1 = request.copies
    BY <1>3, <1>5, LastOfRound
<1>7. n % TotalLabels = 0 <=> Labels[n].item + 1 = Len(docs) /\ Labels[n].copy + 1 = request.copies
    BY <1>1, <1>3, LastOfJob
<1>8. n % 1 = 0
    BY <1>3
<1>9. CASE c = None
    <2>1. cutter.cut /\ cutter.every = 1
        BY <1>1, <1>9, CutterIs
    <2> QED BY <1>4, <1>8, <1>9, <2>1
<1>10. CASE c # None
    <2>1. \/ c.mode = "none" /\ ~cutter.cut
          \/ c.mode = "after-job" /\ cutter.cut /\ cutter.every = TotalLabels
          \/ c.mode = "after-each" /\ c.chain /\ cutter.cut /\ cutter.every = request.copies
          \/ c.mode = "after-each" /\ ~c.chain /\ cutter.cut /\ cutter.every = 1
        BY <1>1, <1>10, CutterIs
    <2>2. CASE c.mode = "none" /\ ~cutter.cut
        BY <1>4, <1>10, <2>2
    <2>3. CASE c.mode = "after-job" /\ cutter.cut /\ cutter.every = TotalLabels
        BY <1>4, <1>7, <1>10, <2>3
    <2>4. CASE c.mode = "after-each" /\ c.chain /\ cutter.cut /\ cutter.every = request.copies
        BY <1>4, <1>6, <1>10, <2>4
    <2>5. CASE c.mode = "after-each" /\ ~c.chain /\ cutter.cut /\ cutter.every = 1
        BY <1>4, <1>8, <1>10, <2>5
    <2> QED BY <2>1, <2>2, <2>3, <2>4, <2>5
<1> QED BY <1>9, <1>10

\* The larger of a number and zero.
LEMMA NotBelowZero ==
    ASSUME NEW x \in Nat
    PROVE  Max({x, 0}) = x
<1>1. \E y \in {x, 0} : \A z \in {x, 0} : y >= z
    OBVIOUS
<1>2. Max({x, 0}) \in {x, 0} /\ \A z \in {x, 0} : Max({x, 0}) >= z
    BY <1>1 DEF Max
<1> QED BY <1>2

\* Half of a bound bounds half of a number.
LEMMA HalfBound ==
    ASSUME NEW d \in Nat, NEW t \in Nat
    PROVE  (2 * d + 1 <= 2 * t => d < t) /\ (2 * d <= 2 * t => d <= t)
OBVIOUS

\* The halves of an odd and of an even number.
LEMMA Halves ==
    ASSUME NEW n \in Nat \ {0}
    PROVE  /\ n % 2 = 1 => \E d \in Nat : n = 2 * d + 1 /\ n \div 2 = d /\ (n + 1) \div 2 = d + 1
           /\ n % 2 # 1 => \E d \in Nat : d > 0 /\ n = 2 * d /\ n \div 2 = d /\ (n + 1) \div 2 = d
<1>1. n \div 2 \in Nat /\ n % 2 \in {0, 1} /\ n = (2 * (n \div 2)) + (n % 2)
    <2>1. n \div 2 \in Nat /\ n % 2 \in 0 .. 2 - 1 /\ n = (2 * (n \div 2)) + (n % 2)
        BY DivMod
    <2>2. \A v \in 0 .. 2 - 1 : v \in {0, 1}
        OBVIOUS
    <2>3. n % 2 \in {0, 1}
        BY ONLY <2>1, <2>2
    <2> QED BY ONLY <2>1, <2>3
<1>2. CASE n % 2 = 1
    <2>1. n = 2 * (n \div 2) + 1 /\ (n + 1) \div 2 = (n \div 2) + 1
        BY <1>1, <1>2
    <2> QED BY <1>1, <1>2, <2>1
<1>3. CASE n % 2 # 1
    <2>1. n = 2 * (n \div 2) /\ (n + 1) \div 2 = n \div 2 /\ n \div 2 > 0
        BY <1>1, <1>3
    <2> QED BY <1>1, <1>3, <2>1
<1> QED BY <1>2, <1>3

\* The place of the batch, from the invariant.
LEMMA PlaceFromInv ==
    ASSUME PlanInv, TapeInv
    PROVE  ProgressNamesTheLabel
<1> DEFINE k == request.copies
           m == Len(docs)
           page == (last + 1) \div 2 - 1
<1> SUFFICES ASSUME printer.brother, last > 0
             PROVE  shown.item * k + shown.copy
                        = IF plan[last] = "raster" THEN Len(tape) - 1 ELSE Len(tape)
    BY DEF ProgressNamesTheLabel
<1>1. scene \in Scene /\ Underway /\ plan = Actions /\ last \in Nat \ {0} /\ last <= Len(plan)
    BY DEF PlanInv
<1>2. k \in Nat \ {0} /\ m \in Nat \ {0} /\ TotalLabels \in Nat /\ TotalLabels = k * m
    BY <1>1, SceneNumbers
<1>3. Len(plan) = 2 * TotalLabels /\ last \in 1 .. Len(plan)
      /\ plan[last] = IF last % 2 = 1 THEN "information" ELSE "raster"
    BY <1>1, ActionIs
<1>4. Len(tape) = last \div 2
    BY DEF TapeInv, LabelsIn
<1>5. /\ page \in Nat /\ page < k * m
      /\ page = IF plan[last] = "raster" THEN Len(tape) - 1 ELSE Len(tape)
    <2>1. CASE last % 2 = 1
        <3>1. PICK d \in Nat : last = 2 * d + 1 /\ last \div 2 = d /\ (last + 1) \div 2 = d + 1
            BY <1>1, <2>1, Halves
        <3>2. plan[last] = "information" /\ page = d /\ Len(tape) = d
            BY <1>3, <1>4, <2>1, <3>1
        <3>3. d < TotalLabels
            <4>1. 2 * d + 1 <= 2 * TotalLabels
                BY <1>3, <3>1
            <4> QED BY <1>2, <4>1, HalfBound
        <3> QED BY ONLY <1>2, <3>1, <3>2, <3>3
    <2>2. CASE last % 2 # 1
        <3>1. PICK d \in Nat : d > 0 /\ last = 2 * d /\ last \div 2 = d /\ (last + 1) \div 2 = d
            BY <1>1, <2>2, Halves
        <3>2. plan[last] = "raster" /\ page = d - 1 /\ Len(tape) = d
            BY <1>3, <1>4, <2>2, <3>1
        <3>3. d <= TotalLabels
            <4>1. 2 * d <= 2 * TotalLabels
                BY <1>3, <3>1
            <4> QED BY <1>2, <4>1, HalfBound
        <3> QED BY ONLY <1>2, <3>1, <3>2, <3>3
    <2> QED BY <2>1, <2>2
<1>6. Max({Cardinality({n \in 1 .. last : plan[n] = "information"}) - 1, 0}) = page
    <2>1. Cardinality({n \in 1 .. last : plan[n] = "information"}) - 1 = page
        BY DEF TapeInv, AnnouncedIn
    <2> HIDE DEF page
    <2> QED BY <1>5, <2>1, NotBelowZero
<1>7. shown = [item |-> Smaller(page \div k, m - 1), copy |-> page % k]
    BY <1>6 DEF TapeInv, BatchPosition
<1> HIDE DEF k, m, page
<1>8. page \div k \in Nat /\ page % k \in Nat /\ page = (k * (page \div k)) + (page % k)
      /\ page \div k < m
    <2>1. page \div k \in Nat /\ page % k \in 0 .. k - 1 /\ page = (k * (page \div k)) + (page % k)
        BY <1>2, <1>5, DivMod
    <2>2. page \div k < m
        BY <1>2, <1>5, QuotientBelow
    <2>3. page % k \in Nat
        BY ONLY <1>2, <2>1
    <2> QED BY <2>1, <2>2, <2>3
<1>9. Smaller(page \div k, m - 1) = page \div k
    BY <1>2, <1>8 DEF Smaller
<1>10. shown.item * k = k * (page \div k) /\ shown.copy = page % k
    BY <1>2, <1>7, <1>8, <1>9
<1> QED BY <1>5, <1>8, <1>10 DEF k

\* The smaller of two numbers.
LEMMA SmallerIs ==
    ASSUME NEW a \in Nat \ {0}, NEW b \in Nat \ {0}
    PROVE  Smaller(a, b) \in Nat \ {0} /\ Smaller(a, b) <= a /\ Smaller(a, b) <= b
BY DEF Smaller

\* Scaling to the head makes no raster wider than the head, nor larger.
LEMMA ScaledIs ==
    ASSUME NEW r, r.width \in Nat \ {0}, r.height \in Nat \ {0}, HeadWidth \in Nat \ {0}
    PROVE  /\ Scaled(r).width <= HeadWidth /\ Scaled(r).width <= r.width
           /\ Scaled(r).width \in Nat /\ Scaled(r).height \in Nat
           /\ Scaled(r).height <= r.height
           /\ r.width <= HeadWidth => Scaled(r) = r
<1>1. CASE r.width > HeadWidth
    <2>1. Scaled(r) = [width |-> HeadWidth, height |-> Rounded(r.height * HeadWidth, r.width)]
        BY <1>1 DEF Scaled, ScaledTo, Size
    <2>2. Rounded(r.height * HeadWidth, r.width) \in Nat
          /\ Rounded(r.height * HeadWidth, r.width) <= r.height
        BY <1>1, ScaledDown
    <2> QED BY <1>1, <2>1, <2>2
<1>2. CASE ~(r.width > HeadWidth)
    <2>1. Scaled(r) = r
        BY <1>2 DEF Scaled
    <2> QED BY <1>2, <2>1
<1> QED BY <1>1, <1>2

\* What is known of the head and of the loaded label.
LEMMA MediaIs ==
    ASSUME scene \in Scene
    PROVE  /\ HeadWidth # None => HeadWidth \in Nat \ {0}
           /\ LoadedBox # None => /\ ~docs[1].roll
                                  /\ loaded.width # None /\ loaded.length # None
                                  /\ LoadedBox.width = loaded.width /\ loaded.width \in Nat \ {0}
                                  /\ LoadedBox.height = loaded.length /\ loaded.length \in Nat \ {0}
<1>1. /\ printer.head \in (Nat \ {0}) \cup {None}
      /\ loaded.width \in Nat \cup {None} /\ loaded.length \in Nat \cup {None}
    BY SceneAssumption DEF printer, loaded
<1>2. LoadedBox # None => /\ ~docs[1].roll
                          /\ loaded.width \notin {None, 0} /\ loaded.length \notin {None, 0}
                          /\ LoadedBox = [width |-> loaded.width, height |-> loaded.length]
    BY DEF LoadedBox, Size
<1>3. HeadWidth # None => HeadWidth \in Nat \ {0}
    BY <1>1, <1>2 DEF HeadWidth
<1> QED BY <1>1, <1>2, <1>3

\* The sizes, from the invariant.
LEMMA FitsFromInv ==
    ASSUME PlanInv
    PROVE  FitsWhatIsLoaded
<1> SUFFICES ASSUME Underway, HeadWidth # None, ~printer.rotated, NEW n \in DOMAIN docs
             PROVE  /\ Rendered(docs[n]).width <= HeadWidth
                    /\ LoadedBox # None =>
                           /\ Rendered(docs[n]).width <= LoadedBox.width + Tolerance
                           /\ Rendered(docs[n]).height <= LoadedBox.height + Tolerance
    BY DEF FitsWhatIsLoaded, Underway
<1> DEFINE d == docs[n]
           r == Turned(d)
           box == LoadedBox
<1>1. scene \in Scene /\ Acceptable
    BY DEF PlanInv
<1>2. d \in Document /\ HeadWidth \in Nat \ {0} /\ Tolerance \in Nat
    BY <1>1, SceneNumbers, MediaIs, WidthAssumption
<1>3. r.width \in Nat \ {0} /\ r.height \in Nat \ {0}
    BY <1>2 DEF Turned, Size, Document
<1>4. Rendered(d) = Scaled(Fitted(r))
    BY DEF Rendered, Upright
<1>5. box # None => /\ ~docs[1].roll /\ loaded.width # None /\ loaded.length # None
                    /\ box.width = loaded.width /\ loaded.width \in Nat \ {0}
                    /\ box.height = loaded.length /\ loaded.length \in Nat \ {0}
    BY <1>1, MediaIs
<1>6. CASE request.fit /\ box # None /\ (r.width > box.width \/ r.height > box.height)
    <2> DEFINE f == Size(Smaller(box.width, HeadWidth), box.height)
    <2>1. Fitted(r) = f
        BY <1>6 DEF Fitted, Fits, FitBox
    <2>2. box.width \in Nat \ {0} /\ box.height \in Nat \ {0}
        BY <1>5, <1>6
    <2> HIDE DEF box
    <2>3. f.width \in Nat \ {0} /\ f.width <= box.width /\ f.width <= HeadWidth
          /\ f.height \in Nat \ {0} /\ f.height <= box.height
        <3>1. f.width = Smaller(box.width, HeadWidth) /\ f.height = box.height
            BY DEF Size
        <3>2. box.height <= box.height
            BY <2>2
        <3> QED BY <1>2, <2>2, <3>1, <3>2, SmallerIs
    <2> HIDE DEF f
    <2>4. Rendered(d) = f
        BY <1>2, <1>4, <2>1, <2>3, ScaledIs
    <2> HIDE DEF d
    <2> QED BY <1>2, <2>2, <2>3, <2>4 DEF box, d
<1>7. CASE ~(request.fit /\ box # None /\ (r.width > box.width \/ r.height > box.height))
    <2>1. Fitted(r) = r
        BY <1>7 DEF Fitted, Fits
    <2>2. /\ Rendered(d).width <= HeadWidth /\ Rendered(d).width <= r.width
          /\ Rendered(d).height <= r.height
          /\ Rendered(d).width \in Nat /\ Rendered(d).height \in Nat
        BY <1>2, <1>3, <1>4, <2>1, ScaledIs
    <2>3. ASSUME box # None
          PROVE  r.width <= box.width + Tolerance /\ r.height <= box.height + Tolerance
        <3>1. CASE request.fit
            <4>1. r.width <= box.width /\ r.height <= box.height
                BY <1>3, <1>5, <1>7, <2>3, <3>1
            <4> QED BY <1>2, <1>3, <1>5, <2>3, <4>1
        <3>2. CASE ~request.fit
            <4>1. ~ExceedsLoaded(d)
                BY <1>1, <3>2 DEF Acceptable
            <4>2. ~d.roll
                BY <1>1, <1>5, <2>3 DEF Acceptable, SameRoll
            <4>3. ~(r.width > loaded.width + Tolerance) /\ ~(r.height > loaded.length + Tolerance)
                BY <1>5, <2>3, <4>1, <4>2 DEF ExceedsLoaded
            <4> QED BY <1>2, <1>3, <1>5, <2>3, <4>3
        <3> QED BY <3>1, <3>2
    <2> HIDE DEF d, r, box
    <2>4. box # None => box.width \in Nat /\ box.height \in Nat
        BY <1>5
    <2>5. box # None => Rendered(d).width <= box.width + Tolerance
                        /\ Rendered(d).height <= box.height + Tolerance
        BY <1>2, <1>3, <2>2, <2>3, <2>4
    <2> QED BY <2>2, <2>5 DEF d, box
<1> QED BY <1>6, <1>7

\* The knife falls where the request says, however the labels are counted.
THEOREM CutsHold == Spec => []CutsAsAsked
BY PlanAlways, CutsFromInv, PTL

\* The last event of a Brother batch names the label that is on its way or has
\* just come out.
THEOREM ProgressHolds == Spec => []ProgressNamesTheLabel
BY PlanAlways, PlaceFromInv, PTL

\* No raster of an accepted job is wider than the head or exceeds the loaded
\* label by more than the tolerance.
THEOREM FitHolds == Spec => []FitsWhatIsLoaded
BY PlanAlways, FitsFromInv, PTL
=============================================================================
