----------------------------- MODULE MCLabelPlan -----------------------------
(* Requests, printers and loaded media for TLC.                             *)
EXTENDS LabelPlan

Doc(w, h, roll) == [width |-> w, height |-> h, dpi |-> 300, roll |-> roll]
Request(ds, copies, rotation, fit, c) ==
    [docs |-> ds, copies |-> copies, rotation |-> rotation, fit |-> fit, continuous |-> c]
Cut(mode, chain, feed) == [mode |-> mode, chain |-> chain, feed |-> feed]

Ql == [head |-> 4, rotated |-> FALSE, brother |-> TRUE, rolls |-> TRUE, shortest |-> 2,
       longest |-> 5, modes |-> {"after-each", "after-job", "none"}, chained |-> TRUE, feed |-> 0]
Plain == [Ql EXCEPT !.brother = FALSE, !.rolls = FALSE, !.modes = {}, !.chained = FALSE]
Printers == {Ql, [Ql EXCEPT !.modes = {"after-each"}, !.chained = FALSE], Plain,
             [Plain EXCEPT !.rotated = TRUE], [Ql EXCEPT !.head = None]}

Unknown == [width |-> None, length |-> None]
Label(w, l) == [width |-> w, length |-> l]

\* Batches on a roll, with every way to cut.
Rolls ==
    { [request |-> Request(ds, copies, 0, FALSE, c), printer |-> p, loaded |-> Unknown] :
        ds \in {<<Doc(3, h, TRUE)>> : h \in {1, 2, 6}}
               \cup {<<Doc(3, 2, TRUE), d>> :
                       d \in {Doc(2, 4, TRUE), Doc(3, 4, TRUE), [Doc(3, 4, TRUE) EXCEPT !.dpi = 203]}}
               \cup {<<Doc(3, 2, TRUE), Doc(3, 3, TRUE), Doc(3, 4, roll)>> : roll \in BOOLEAN},
        copies \in 1 .. 4,
        c \in {None} \cup {Cut(m, chain, feed) : m \in {"after-each", "after-job", "none"},
                                                 chain \in BOOLEAN, feed \in {0, 1}},
        p \in {q \in Printers : q.head # None} }

\* Labels of every size against every head and every loaded label.
Sheets ==
    { [request |-> Request(<<Doc(w, h, FALSE)>> \o more, 2, rotation, fit, c),
       printer |-> p, loaded |-> l] :
        w \in 1 .. 5, h \in {1, 3, 5}, more \in {<<>>, <<Doc(3, 4, FALSE)>>},
        rotation \in {0, 90}, fit \in BOOLEAN, c \in {None, Cut("none", FALSE, 0)},
        p \in Printers,
        l \in {Unknown, Label(3, 3), Label(5, 2), Label(2, 0), Label(None, 3)} }

AllScenes == Rolls \cup Sheets

\* Batches whose documents have lengths of their own.
Lengths ==
    { [request |-> Request(<<Doc(3, h, TRUE), Doc(3, k, TRUE)>>, 1, 0, FALSE, None),
       printer |-> Ql, loaded |-> Unknown] : h \in 1 .. 6, k \in 1 .. 6 }
=============================================================================
