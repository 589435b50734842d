--------------------------- MODULE MCDeviceRequests ---------------------------
(* Instances of DeviceRequests for TLC.                                     *)
EXTENDS DeviceRequests

CONSTANTS s1, s2, u1, u2, t1, d1, d2, sn, none

\* Two USB printers with one serial number, of which only the first can be
\* identified, and a printer on a network or a serial port.
MCSerial  == [p \in {u1, u2, t1} |-> IF p = t1 THEN none ELSE sn]
MCProduct == [p \in {u1, u2, t1} |-> IF p = u1 THEN "wireless" ELSE none]

Req(op, kind, device, to, model) ==
    [op |-> op, kind |-> kind, device |-> device, to |-> to, model |-> model]

\* Every operation and every kind of link.
Mixed == {
    Req("status", "selector", sn, none, "wireless"),
    Req("probe", "ids", none, none, "other"),
    Req("wireless", "selector", d1, none, "wireless"),
    Req("configure", "selector", d1, none, "unasked"),
    Req("report", "selector", sn, none, "wired"),
    Req("status", "stream", none, t1, "wired"),
    Req("status", "ipp", none, t1, "other"),
    Req("status", "serial", none, t1, "wired"),
    Req("status", "ids", none, none, "unasked"),
    Req("status", "serial", none, t1, "unknown"),
    Req("print", "selector", d1, none, "unasked")}
=============================================================================
