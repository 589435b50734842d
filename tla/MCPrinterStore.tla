--------------------------- MODULE MCPrinterStore ---------------------------
(* Small instances of the printer store for TLC.                           *)
EXTENDS PrinterStore, TLC

CONSTANTS lab, LAB

\* "LAB" is "lab" in another case.
OneCase == [w \in Id |-> IF w = LAB THEN lab ELSE w]
OwnUri == [t \in Transport |-> t]

\* What printers.json and connections.json may be at first.
NewFile    == {Missing}
FutureFile == {Unreadable}
NoLegacy   == {Missing}
OneLegacy  == {Missing} \cup {{[id |-> lab, transport |-> t]} : t \in Transport}

Alike == Permutations(Command) \cup Permutations(Transport)
=============================================================================
