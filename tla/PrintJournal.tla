---------------------------- MODULE PrintJournal ----------------------------
(***************************************************************************)
(* What the jobs file promises about the printer.  entry[c] is the verdict *)
(* a restart at this moment would give of call c's job; wire[c] is what of *)
(* its plan may have reached the printer.  An entry is opened before the   *)
(* first write, stays "outcome-unknown" while writes are possible, and is  *)
(* settled once, with a verdict the wire bears out; then it can only be    *)
(* forgotten.                                                              *)
(***************************************************************************)
CONSTANTS Call, Full     \* Full: the plan positions of a complete print
VARIABLES entry, wire

Settled == {"completed", "failed", "cancelled-before-send", "cancelled-partial"}
Verdict == Settled \cup {"absent", "outcome-unknown"}

\* The verdicts that what is on the wire bears out.
BornOut(v, w) ==
    /\ v = "completed" => w = Full
    /\ v \in {"failed", "cancelled-before-send"} => w = {}

Init ==
    /\ entry = [c \in Call |-> "absent"]
    /\ wire = [c \in Call |-> {}]

\* What one replacement of the file may do to the entry of call c.
Revise(c) ==
    \/ entry'[c] = entry[c]
    \/ entry[c] = "absent" /\ entry'[c] = "outcome-unknown" /\ wire[c] = {}
    \/ entry[c] = "outcome-unknown" /\ entry'[c] \in Settled /\ BornOut(entry'[c], wire[c])
    \/ entry'[c] = "absent"

Replace ==
    /\ entry' \in [Call -> Verdict]
    /\ \A c \in Call : Revise(c)
    /\ UNCHANGED wire

Write(c) ==
    /\ entry[c] = "outcome-unknown"
    /\ \E w \in SUBSET Full : wire[c] \subseteq w /\ wire' = [wire EXCEPT ![c] = w]
    /\ UNCHANGED entry

Next == Replace \/ \E c \in Call : Write(c)

Spec == Init /\ [][Next]_<<entry, wire>>
=============================================================================
