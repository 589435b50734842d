---------------------------- MODULE MCPrintCommand ----------------------------
(* Scenes of the printing commands for TLC: where to print, with what        *)
(* settings, and what to print.                                              *)
EXTENDS PrintCommand

DefaultSettings == [baud |-> 115200, density |-> 6]
NoSettings == [baud |-> None, density |-> None]

Plain == [printer |-> None, model |-> None, transport |-> None, settings |-> DefaultSettings,
          dryRun |-> FALSE, limit |-> None, legal |-> TRUE, fit |-> FALSE]
NoConfig == [model |-> None, kind |-> None, address |-> None, settings |-> NoSettings]

Row(chosen, fault) == [chosen |-> chosen, fault |-> fault, wide |-> FALSE]
OneRow == <<Row(TRUE, "none")>>

Endpoint(kind, detail) == [kind |-> kind, place |-> "desk", detail |-> detail]
Lab(e, density) == [name |-> "lab", model |-> "ql", preferred |-> e,
                    settings |-> [NoSettings EXCEPT !.density = density]]
Shop == [name |-> "shop", model |-> "b1", preferred |-> Endpoint("tcp", None),
         settings |-> NoSettings]

Saved == {Endpoint("file", None), Endpoint("tcp", None), Endpoint("serial", 9600),
          Endpoint("ipp", "pem"), Endpoint("ble", None), Endpoint("usb", None)}

Store(ps, d) == [printers |-> ps, default |-> d]

\* Every way to name a printer, a transport and a setting.
Targets ==
    { [command |-> c, rows |-> OneRow, spelled |-> IF density = 8 THEN {"density"} ELSE {},
       options |-> [Plain EXCEPT !.printer = n, !.transport = t, !.dryRun = dry,
                                 !.settings.density = density],
       config |-> [NoConfig EXCEPT !.model = m, !.kind = k, !.address = "shelf",
                                   !.settings.density = cd],
       store |-> st] :
        c \in {"print", "test"}, n \in {None, "lab"}, dry \in BOOLEAN,
        t \in {None, Text("tcp://", <<"ippdesk">>), Text("rfcomm:", <<"desk", "@", 2>>)},
        density \in {6, 8}, m \in {None, "b1"}, k \in {None, "bluetooth", "rfcomm", "ipp"},
        cd \in {None, 3},
        st \in {Store({}, None), Store({Lab(None, 2)}, None), Store({Lab(Endpoint("tcp", None), 6)}, None)}
               \cup {Store({Lab(e, 2)}, None) : e \in Saved}
               \cup {Store({Lab(Endpoint("usb", None), 2), Shop}, d) : d \in {None, "lab", "shop"}} }

Rows3 == UNION {[1 .. n -> [chosen : BOOLEAN, fault : Fault, wide : {FALSE}]] : n \in 0 .. 3}

\* Every batch of up to three rows.
Batches ==
    { [command |-> c, rows |-> rs, spelled |-> {},
       options |-> [Plain EXCEPT !.limit = limit, !.transport = Text("usb:", <<"desk">>),
                                 !.model = "ql"],
       config |-> NoConfig, store |-> Store({}, None)] :
        c \in {"print"}, limit \in {None, 0, 1, 2}, rs \in Rows3 }

\* Every sheet of up to three stamps.
Sheets ==
    { [sc EXCEPT !.command = "laposte"] :
        sc \in {b \in Batches : \A n \in DOMAIN b.rows : b.rows[n].fault # "unfilled"} }

\* The planner's own checks.
Checks ==
    { [command |-> "print", spelled |-> {},
       rows |-> <<[chosen |-> TRUE, fault |-> "none", wide |-> wide]>>,
       options |-> [Plain EXCEPT !.transport = t, !.model = m, !.legal = legal, !.fit = fit],
       config |-> NoConfig, store |-> Store({}, None)] :
        wide \in BOOLEAN, legal \in BOOLEAN, fit \in BOOLEAN, m \in {"ql", "b1"},
        t \in {Text(s, <<"desk">>) : s \in {"ipp://", "file:", "lpd:"}} }

\* A saved RFCOMM printer.
Rfcomm ==
    { [command |-> "print", rows |-> OneRow, spelled |-> {},
       options |-> [Plain EXCEPT !.printer = "lab"],
       config |-> NoConfig, store |-> Store({Lab(Endpoint("rfcomm", channel), None)}, None)] :
        channel \in 1 .. 3 }

\* A density that the command line spells out, with every default.
SpelledOut ==
    { [sc EXCEPT !.spelled = {"density"}] :
        sc \in {t \in Targets : t.command = "print" /\ t.options.transport = None} }

AllScenes == Targets \cup Batches \cup Sheets \cup Checks
=============================================================================
