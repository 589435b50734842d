---------------------------- MODULE PrinterStore ----------------------------
(***************************************************************************)
(* The printer store (src/printers.rs) and the two programs that write it: *)
(* "mb-printer printer ..." commands, each of which loads the file, edits  *)
(* what it loaded and saves it, and the service, which reads the file when *)
(* it starts, keeps a map of connections and writes that map back over the *)
(* file, taking what a connection lacks from the printer it finds there.   *)
(*                                                                         *)
(* A printer has the id of the command or connection that made it.  What   *)
(* is saved under a printer's settings, description, status and media is   *)
(* carried along by every operation and left out.                          *)
(***************************************************************************)
EXTENDS Integers, Sequences, FiniteSets, SequencesExt

CONSTANTS
    Word,         \* connection ids, printer names and selectors
    Fold,         \* what is left of an id, name or selector in lower case
    Command,      \* executions of "mb-printer printer ..."; the UUIDs they make
    Transport,    \* transports an endpoint may have
    Uri,          \* Transport -> the text that names it
    Foreign,      \* transports with a field that the store does not know
    Nothing,      \* no selector
    Missing,      \* no file
    Unreadable,   \* a file of another schema version, or not JSON
    InitialFiles, \* what printers.json may be at first
    LegacyFiles,  \* what connections.json may be: Missing or a set of [id, transport]
    ConnectionLimit, \* max_recent_jobs
    MaxEndpoints, \* bound on the endpoints of a printer
    MaxRestarts,  \* bound on restarts of the service
    SaveFaults    \* writing the file may fail

Id == Word \cup Command

VARIABLES
    file,        \* printers.json
    legacy,      \* connections.json, of earlier versions
    cmd,         \* where each command is
    copy,        \* the store a command holds in memory
    service,     \* "down", "migrating" or "up"
    connections, \* its map: id -> transport, for the ids it has
    restarts,
    \* history
    answered,    \* ids that a command or the service said are saved
    gone,        \* ids a command said are removed, not asked for since
    seen,        \* the file as the service last read or wrote it
    overlap      \* somebody wrote over what it had not read

commandVars == <<cmd, copy>>
serviceVars == <<service, connections, restarts>>
historyVars == <<answered, gone, seen, overlap>>
vars == <<file, legacy, commandVars, serviceVars, historyVars>>

-----------------------------------------------------------------------------
(* The store as a value.                                                   *)

Endpoint == [transport : Transport, preferred : BOOLEAN]
Endpoints == BoundedSeq(Endpoint, MaxEndpoints)
Printer  == [id : Id, name : Id, endpoints : Endpoints]
Empty == [default |-> Nothing, printers |-> {}]

Preferred(ends) == {i \in DOMAIN ends : ends[i].preferred}

\* Printer::preferred_endpoint finds one.
HasTarget(p) == \/ Cardinality(Preferred(p.endpoints)) = 1
                \/ Preferred(p.endpoints) = {} /\ Len(p.endpoints) = 1

\* The endpoint a printer is printed through.
Target(p) == IF Preferred(p.endpoints) = {}
             THEN p.endpoints[1].transport
             ELSE p.endpoints[CHOOSE i \in Preferred(p.endpoints) : TRUE].transport

SameName(a, b) == Fold[a] = Fold[b]

Names(p, selector) == p.id = selector \/ SameName(p.name, selector)

\* PrinterStore::find takes the first in the order of the file, which is left
\* out: when several printers match it may be any of them.
Find(s, selector) == {p \in s.printers : Names(p, selector)}

\* PrinterStore::validate; a name that is too long or has control characters
\* is not a Word, a model is always there.
Valid(s) ==
    /\ \A p \in s.printers : p.endpoints # <<>> /\ HasTarget(p)
    /\ \A p, q \in s.printers : p # q => p.id # q.id /\ ~SameName(p.name, q.name)
    /\ s.default # Nothing => Find(s, s.default) # {}

\* PrinterStore::load of a file that it can read
Loaded(f) == IF f = Missing THEN Empty ELSE f

\* The list of an earlier version, as load converts it.
FromLegacy(list) ==
    [default |-> Nothing,
     printers |-> {[id |-> c.id, name |-> c.id,
                    endpoints |-> <<[transport |-> c.transport, preferred |-> TRUE]>>]
                   : c \in list}]

Ids(s) == {p.id : p \in s.printers}
FileIds == IF file \in {Missing, Unreadable} THEN {} ELSE Ids(file)

\* A list of an earlier version names its printers by ids that clients chose.
ASSUME StoreAssumption ==
    /\ Word \cap Command = {}
    /\ Fold \in [Id -> Id]
    /\ DOMAIN Uri = Transport /\ Foreign \subseteq Transport
    /\ InitialFiles \subseteq {Missing, Unreadable, Empty}
    /\ \A list \in LegacyFiles \ {Missing} : \A c \in list :
         c.id \in Word /\ c.transport \in Transport
    /\ ConnectionLimit \in Nat /\ MaxEndpoints \in Nat \ {0, 1} /\ MaxRestarts \in Nat
    /\ SaveFaults \in BOOLEAN

-----------------------------------------------------------------------------
(* The edits of the commands.  Each is the set of stores that a command x  *)
(* may have made of the store s it loaded; validation comes with the save. *)

WithPrinters(s, printers) == [default |-> s.default, printers |-> printers]

\* The store with the name and the endpoints of one printer replaced.
Replaced(s, p, name, ends) ==
    WithPrinters(s, (s.printers \ {p})
                    \cup {[id |-> p.id, name |-> name, endpoints |-> ends]})

\* Printer::new, and --preferred, which is required with several endpoints
NewEndpoints ==
    {<<[transport |-> t, preferred |-> TRUE]>> : t \in Transport \ Foreign} \cup
    {<<[transport |-> t, preferred |-> Uri[t] = Uri[chosen]],
       [transport |-> u, preferred |-> Uri[u] = Uri[chosen]]>>
     : t, u, chosen \in Transport \ Foreign}

Unused(s) == {w \in Word : Find(s, w) = {}}

Added(s, x) ==
    {WithPrinters(s, s.printers \cup {[id |-> x, name |-> n, endpoints |-> e]})
     : n \in Unused(s), e \in NewEndpoints}

\* Mutant of Renamed: the new name is left to the validation.
Renamed_Unchecked(s) == {Replaced(s, p, n, p.endpoints) : p \in s.printers, n \in Word}

Renamed(s) == {Replaced(s, p, n, p.endpoints) : p \in s.printers, n \in Unused(s)}

\* Removing the default printer leaves no default.
Removed(s) ==
    {[default  |-> IF s.default # Nothing /\ Names(p, s.default) THEN Nothing ELSE s.default,
      printers |-> s.printers \ {p}] : p \in s.printers}

Defaulted(s) == {[default |-> d, printers |-> s.printers] : d \in Ids(s) \cup {Nothing}}

Marked(ends, marked) ==
    [i \in DOMAIN ends |-> [transport |-> ends[i].transport, preferred |-> i \in marked]]

\* The places of the endpoints written like one of them.
Alikes(ends, i) == {j \in DOMAIN ends : Uri[ends[j].transport] = Uri[ends[i].transport]}

\* What endpoint add, remove and prefer make of the endpoints of a printer.

\* No two endpoints of a printer are written alike when one is added.
EndpointAdded(ends) ==
    LET others == {t \in Transport \ Foreign :
                     /\ Len(ends) < MaxEndpoints
                     /\ \A i \in DOMAIN ends : Uri[ends[i].transport] # Uri[t]}
    IN  {Append(ends, [transport |-> t, preferred |-> FALSE]) : t \in others} \cup
        {Append(Marked(ends, {}), [transport |-> t, preferred |-> TRUE]) : t \in others}

\* The last endpoint stays, and the first takes over from a preferred one.
EndpointRemoved(ends) ==
    {LET rest == RemoveAt(ends, i)
     IN  IF ends[i].preferred THEN [rest EXCEPT ![1].preferred = TRUE] ELSE rest
     : i \in {j \in DOMAIN ends : Len(ends) > 1}}

\* An endpoint is named by its id, which no other has, or by its URI, in any
\* case: in another case than its own the URI marks none.
EndpointPreferred(ends) ==
    {Marked(ends, marked) : marked \in UNION {{{i}, Alikes(ends, i), {}} : i \in DOMAIN ends}}

EndpointsEdited(s) ==
    UNION {{Replaced(s, p, p.name, ends)
            : ends \in EndpointAdded(p.endpoints) \cup EndpointRemoved(p.endpoints)
                       \cup EndpointPreferred(p.endpoints)}
           : p \in s.printers}

Edits(s, x) ==
    Added(s, x) \cup Renamed(s) \cup Removed(s) \cup Defaulted(s) \cup EndpointsEdited(s)

-----------------------------------------------------------------------------
(* The service's map of connections, written over the file.                *)

Connected == DOMAIN connections

\* Mutant of FromFile: a printer whose only endpoint is not marked is skipped.
FromFile_MarkedOnly(f) ==
    IF f = Unreadable THEN << >>
    ELSE [c \in {p.id : p \in {q \in Loaded(f).printers : Preferred(q.endpoints) # {}}} |->
            Target(CHOOSE p \in Loaded(f).printers : p.id = c)]

\* What a fresh map holds: the printers of a readable file.
FromFile(f) == IF f = Unreadable THEN << >>
               ELSE [c \in Ids(Loaded(f)) |->
                       Target(CHOOSE p \in Loaded(f).printers : p.id = c)]

\* The file as save_connections finds it; one it cannot read counts as empty.
Previous == IF file = Unreadable THEN Empty ELSE Loaded(file)

NoPrinter == [id |-> Nothing, name |-> Nothing, endpoints |-> << >>]

\* The printer that lends a connection its name and endpoints.
PreviousOf(c) == IF Find(Previous, c) = {} THEN {NoPrinter} ELSE Find(Previous, c)

ConnectionPrinter(c, transport, p) ==
    IF p = NoPrinter
    THEN [id |-> c, name |-> c,
          endpoints |-> <<[transport |-> transport, preferred |-> TRUE]>>]
    ELSE [id |-> c, name |-> p.name, endpoints |-> p.endpoints]

KeptDefault(printers) ==
    IF /\ Previous.default # Nothing
       /\ \E p \in printers : Names(p, Previous.default)
    THEN Previous.default ELSE Nothing

\* The stores save_connections may write for a map of connections: one for
\* every way in which find picks among several.
Written(map) ==
    LET kept == {c \in DOMAIN map : map[c] \notin Foreign}
        lent == {f \in [kept -> Previous.printers \cup {NoPrinter}] :
                   \A c \in kept : f[c] \in PreviousOf(c)}
    IN  {LET printers == {ConnectionPrinter(c, map[c], f[c]) : c \in kept}
         IN  [default |-> KeptDefault(printers), printers |-> printers] : f \in lent}

-----------------------------------------------------------------------------
Init ==
    /\ file \in InitialFiles /\ legacy \in LegacyFiles
    /\ cmd = [x \in Command |-> "idle"] /\ copy = [x \in Command |-> Empty]
    /\ service = "down" /\ connections = << >> /\ restarts = 0
    /\ answered = {} /\ gone = {} /\ seen = file /\ overlap = FALSE

\* Whether a save that passes the validation fails all the same.
Failing == IF SaveFaults THEN BOOLEAN ELSE {FALSE}

(* Every start of the program first looks for a list of an earlier version *)
(* and, where printers.json is missing, writes it in the new form.         *)

MigrationDue == file = Missing /\ legacy # Missing

BeginMigration(x) ==
    /\ cmd[x] = "idle" /\ MigrationDue
    /\ \/ /\ Valid(FromLegacy(legacy))
          /\ cmd' = [cmd EXCEPT ![x] = "migrating"]
          /\ copy' = [copy EXCEPT ![x] = FromLegacy(legacy)]
       \/ /\ ~Valid(FromLegacy(legacy))
          /\ cmd' = [cmd EXCEPT ![x] = "refused"]
          /\ UNCHANGED copy
    /\ UNCHANGED <<file, legacy, serviceVars, historyVars>>

Migrate(x) ==
    /\ cmd[x] = "migrating"
    /\ \/ /\ file' = copy[x]
          /\ overlap' = (overlap \/ file # Missing)
          /\ cmd' = [cmd EXCEPT ![x] = "started"]
       \/ /\ SaveFaults
          /\ cmd' = [cmd EXCEPT ![x] = "refused"]
          /\ UNCHANGED <<file, overlap>>
    /\ UNCHANGED <<legacy, copy, serviceVars, answered, gone, seen>>

\* printer_command loads the file; a file it cannot read is an error.
Load(x) ==
    /\ \/ cmd[x] = "started"
       \/ cmd[x] = "idle" /\ ~MigrationDue
    /\ IF file = Unreadable
       THEN /\ cmd' = [cmd EXCEPT ![x] = "refused"]
            /\ UNCHANGED copy
       ELSE /\ cmd' = [cmd EXCEPT ![x] = "loaded"]
            /\ copy' = [copy EXCEPT ![x] = Loaded(file)]
    /\ UNCHANGED <<file, legacy, serviceVars, historyVars>>

\* One edit of the loaded store, its validation, the save and the answer.
Edit(x) ==
    /\ cmd[x] = "loaded"
    /\ \E s \in Edits(copy[x], x) :
         /\ Valid(s)
         /\ file' = s
         /\ answered' = (answered \cup (Ids(s) \ Ids(copy[x]))) \ (Ids(copy[x]) \ Ids(s))
         /\ gone' = (gone \cup (Ids(copy[x]) \ Ids(s))) \ (Ids(s) \ Ids(copy[x]))
    /\ overlap' = (overlap \/ Loaded(file) # copy[x])
    /\ cmd' = [cmd EXCEPT ![x] = "done"]
    /\ copy' = [copy EXCEPT ![x] = Empty]
    /\ UNCHANGED <<legacy, serviceVars, seen>>

\* The edit is refused, the validation fails, or the file cannot be written.
Refuse(x) ==
    /\ cmd[x] = "loaded"
    /\ SaveFaults \/ \E s \in Edits(copy[x], x) : ~Valid(s)
    /\ cmd' = [cmd EXCEPT ![x] = "refused"]
    /\ copy' = [copy EXCEPT ![x] = Empty]
    /\ UNCHANGED <<file, legacy, serviceVars, historyVars>>

-----------------------------------------------------------------------------
\* The service migrates like any command, then reads the file.
ServiceBeginsMigration ==
    /\ service = "down" /\ MigrationDue /\ Valid(FromLegacy(legacy))
    /\ service' = "migrating"
    /\ UNCHANGED <<file, legacy, commandVars, connections, restarts, historyVars>>

ServiceStarts ==
    /\ \/ service = "down" /\ ~MigrationDue /\ file' = file /\ UNCHANGED overlap
       \/ /\ service = "migrating"
          /\ file' = FromLegacy(legacy)
          /\ overlap' = (overlap \/ file # Missing)
    /\ service' = "up"
    /\ connections' = FromFile(file')
    /\ seen' = file'
    /\ UNCHANGED <<legacy, commandVars, restarts, answered, gone>>

\* The service ends or is killed: what was only in its map is lost.
ServiceEnds ==
    /\ service # "down" /\ restarts < MaxRestarts
    /\ service' = "down" /\ connections' = << >>
    /\ restarts' = restarts + 1
    /\ UNCHANGED <<file, legacy, commandVars, historyVars>>

\* POST /v1/connection, after a probe that answered: the map is changed, then
\* the whole of it is saved.  When that fails the map keeps the connection.
Connect(c, transport) ==
    /\ service = "up"
    /\ c \in Connected \/ Cardinality(Connected) < ConnectionLimit
    /\ LET map == [k \in Connected \cup {c} |->
                     IF k = c THEN transport ELSE connections[k]]
       IN  /\ connections' = map
           /\ \E s \in Written(map), failing \in Failing :
                IF Valid(s) /\ ~failing
                THEN /\ file' = s
                     /\ answered' = answered \cup {c}
                     /\ overlap' = (overlap \/ file # seen)
                     /\ seen' = s
                ELSE UNCHANGED <<file, answered, overlap, seen>>
           /\ gone' = gone \ {c}
    /\ UNCHANGED <<legacy, commandVars, service, restarts>>

Next ==
    \/ \E x \in Command : BeginMigration(x) \/ Migrate(x) \/ Load(x) \/ Edit(x) \/ Refuse(x)
    \/ ServiceBeginsMigration \/ ServiceStarts \/ ServiceEnds
    \/ \E c \in Word, t \in Transport : Connect(c, t)

Spec == Init /\ [][Next]_vars

-----------------------------------------------------------------------------
(* Properties.                                                             *)

Store == [default : Id \cup {Nothing}, printers : SUBSET Printer]

\* Type invariant.
PrinterTypeOK ==
    /\ file \in Store \cup {Missing, Unreadable} /\ seen \in Store \cup {Missing, Unreadable}
    /\ legacy \in LegacyFiles /\ restarts \in 0..MaxRestarts
    /\ cmd \in [Command -> {"idle", "migrating", "started", "loaded", "done", "refused"}]
    /\ copy \in [Command -> Store]
    /\ service \in {"down", "migrating", "up"}
    /\ connections \in [Connected -> Transport] /\ Connected \subseteq Id
    /\ answered \subseteq Id /\ gone \subseteq Id /\ overlap \in BOOLEAN

\* The name under which a printer is shown selects that printer and no other,
\* neither by its name nor by its id, whoever wrote the file last
\* (PrinterStore::find, the checks of add and rename, save_connections).
NamesSelectOne ==
    file \notin {Missing, Unreadable} =>
        \A p \in file.printers : Find(file, p.name) = {p}

\* As long as nobody writes over what it has not read, a printer that the user
\* was told is saved is in the file, and one told to be removed is not.
AnsweredStands == ~overlap => answered \subseteq FileIds /\ gone \cap FileIds = {}

\* The default printer does not silently come to mean another: as long as
\* nobody writes over what it has not read, a default that stays in the file
\* and found one printer alone still finds that printer.  (It may come to find
\* a second one, named like its id in another case: then the file's order
\* decides.)
DefaultStillFinds ==
    [][(/\ {file, file'} \cap {Missing, Unreadable} = {} /\ ~overlap'
        /\ file.default # Nothing /\ file'.default = file.default)
       => \A p \in file.printers : Find(file, file.default) = {p}
              => \E q \in Find(file', file.default) : q.id = p.id]_vars

\* "Unknown future schema versions are never overwritten."
FutureKept == [][file = Unreadable => file' = Unreadable]_vars

\* "POST /v1/connection persists a bounded connection definition": what the
\* service answers to have saved is what it finds when it starts again.
ConnectionPersisted ==
    service = "up" => \A c \in answered \cap Connected :
        ~overlap => c \in FileIds /\ FromFile(file)[c] = connections[c]
=============================================================================
