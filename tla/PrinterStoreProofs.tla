------------------------- MODULE PrinterStoreProofs -------------------------
(***************************************************************************)
(* Theorems of the printer store and their proofs.                         *)
(***************************************************************************)
EXTENDS PrinterStore, TLAPS

\* What makes the name of a printer select it alone: the validation does not
\* ask for the last conjunct.
Sound(s) ==
    \A p, q \in s.printers : p # q =>
        /\ p.id # q.id
        /\ ~SameName(p.name, q.name)
        /\ q.id # p.name

\* A UUID is nowhere before the command that makes it has saved.
Fresh(s) ==
    \A p \in s.printers : \A y \in Command :
        p.id = y \/ p.name = y => cmd[y] = "done"

NameInv ==
    /\ DOMAIN cmd = Command /\ DOMAIN copy = Command
    /\ legacy \in LegacyFiles
    /\ file \notin {Missing, Unreadable} => Sound(file) /\ Fresh(file)
    /\ \A x \in Command : Sound(copy[x]) /\ Fresh(copy[x])
    /\ \A c \in Connected : \A y \in Command : c = y => cmd[y] = "done"
    /\ service = "migrating" => Sound(FromLegacy(legacy)) /\ Fresh(FromLegacy(legacy))

-----------------------------------------------------------------------------
\* An empty store is sound.
LEMMA EmptySound == Sound(Empty) /\ Fresh(Empty)
BY DEF Sound, Fresh, Empty

\* What load makes of an earlier list is sound once it passes the validation,
\* for there the name of a printer is its id.
LEMMA LegacySound ==
    ASSUME NameInv, MigrationDue, Valid(FromLegacy(legacy))
    PROVE  Sound(FromLegacy(legacy)) /\ Fresh(FromLegacy(legacy))
<1>1. \A p \in FromLegacy(legacy).printers : p.name = p.id /\ p.id \in Word
    BY StoreAssumption DEF NameInv, MigrationDue, FromLegacy
<1>2. Sound(FromLegacy(legacy))
    BY <1>1 DEF Sound, Valid
<1>3. Fresh(FromLegacy(legacy))
    BY <1>1, StoreAssumption DEF Fresh
<1> QED BY <1>2, <1>3

\* Giving a printer a name that selects nothing, or its own, keeps a store sound.
LEMMA ReplacedSound ==
    ASSUME NEW s, Sound(s), Fresh(s), NEW p \in s.printers, NEW name, NEW ends,
           name = p.name \/ (name \in Word /\ Find(s, name) = {})
    PROVE  Sound(Replaced(s, p, name, ends)) /\ Fresh(Replaced(s, p, name, ends))
<1> DEFINE new == [id |-> p.id, name |-> name, endpoints |-> ends]
<1>1. Replaced(s, p, name, ends).printers = (s.printers \ {p}) \cup {new}
    BY DEF Replaced, WithPrinters
<1>2. \A q \in s.printers \ {p} :
        /\ p.id # q.id /\ q.id # name /\ new.id # q.name
        /\ ~SameName(name, q.name) /\ ~SameName(q.name, name)
    <2>1. CASE name = p.name
        BY <2>1 DEF Sound, SameName
    <2>2. CASE Find(s, name) = {}
        BY <2>2 DEF Sound, Find, Names, SameName
    <2> QED BY <2>1, <2>2
<1>3. new.id = p.id /\ new.name = name
    OBVIOUS
<1> HIDE DEF new
<1>4. Sound(Replaced(s, p, name, ends))
    BY <1>1, <1>2, <1>3 DEF Sound
<1>5. Fresh(Replaced(s, p, name, ends))
    BY <1>1, <1>3, StoreAssumption DEF Fresh
<1> QED BY <1>4, <1>5

\* Leaving printers out keeps a store sound.
LEMMA SmallerSound ==
    ASSUME NEW s, Sound(s), Fresh(s), NEW t, t.printers \subseteq s.printers
    PROVE  Sound(t) /\ Fresh(t)
BY DEF Sound, Fresh

\* Every edit of a sound store is sound, and no UUID but the command's is new.
LEMMA EditSound ==
    ASSUME NEW s, Sound(s), Fresh(s), NEW x \in Command, cmd[x] # "done",
           NEW t \in Edits(s, x)
    PROVE  /\ Sound(t)
           /\ \A p \in t.printers : \A y \in Command :
                p.id = y \/ p.name = y => y = x \/ cmd[y] = "done"
<1>1. CASE t \in Added(s, x)
    <2>1. PICK n \in Unused(s), e \in NewEndpoints :
            t = WithPrinters(s, s.printers \cup {[id |-> x, name |-> n, endpoints |-> e]})
        BY <1>1 DEF Added
    <2> DEFINE new == [id |-> x, name |-> n, endpoints |-> e]
    <2>2. t.printers = s.printers \cup {new} /\ new.id = x /\ new.name = n
        BY <2>1 DEF WithPrinters
    <2>3. n \in Word /\ \A q \in s.printers : q.id # n /\ ~SameName(q.name, n) /\ ~SameName(n, q.name)
        BY DEF Unused, Find, Names, SameName
    <2>4. \A q \in s.printers : q.id # x /\ q.name # x
        BY DEF Fresh
    <2> HIDE DEF new
    <2>5. Sound(t)
        BY <2>2, <2>3, <2>4 DEF Sound
    <2>6. \A p \in t.printers : \A y \in Command :
            p.id = y \/ p.name = y => y = x \/ cmd[y] = "done"
        BY <2>2, <2>3, StoreAssumption DEF Fresh
    <2> QED BY <2>5, <2>6
<1>2. CASE t \in Renamed(s)
    <2>1. PICK p \in s.printers, n \in Unused(s) : t = Replaced(s, p, n, p.endpoints)
        BY <1>2 DEF Renamed
    <2>2. n \in Word /\ Find(s, n) = {}
        BY DEF Unused
    <2>3. Sound(t) /\ Fresh(t)
        BY <2>1, <2>2, ReplacedSound
    <2> QED BY <2>3 DEF Fresh
<1>3. CASE t \in Removed(s) \cup Defaulted(s)
    <2>1. t.printers \subseteq s.printers
        BY <1>3 DEF Removed, Defaulted
    <2>2. Sound(t) /\ Fresh(t)
        BY <2>1, SmallerSound
    <2> QED BY <2>2 DEF Fresh
<1>4. CASE t \in EndpointsEdited(s)
    <2>1. \E p \in s.printers : \E ends : t = Replaced(s, p, p.name, ends)
        BY <1>4 DEF EndpointsEdited
    <2>2. PICK p \in s.printers : \E ends : t = Replaced(s, p, p.name, ends)
        BY <2>1
    <2>3. PICK ends : t = Replaced(s, p, p.name, ends)
        BY <2>2
    <2>4. Sound(t) /\ Fresh(t)
        BY <2>3, ReplacedSound
    <2> QED BY <2>4 DEF Fresh
<1> QED BY <1>1, <1>2, <1>3, <1>4 DEF Edits

\* What the service writes over a sound file is sound once it passes the
\* validation: a connection named like another's id would have been lent the
\* name of the same printer as the other, and the two names would be one.
LEMMA WrittenSound ==
    ASSUME NEW map, NEW s \in Written(map), Valid(s), Sound(Previous), Fresh(Previous),
           \A c \in DOMAIN map : \A y \in Command : c = y => cmd[y] = "done"
    PROVE  Sound(s) /\ Fresh(s)
<1> DEFINE kept == {c \in DOMAIN map : map[c] \notin Foreign}
           made(f) == {ConnectionPrinter(c, map[c], f[c]) : c \in kept}
<1>1. PICK f \in [kept -> Previous.printers \cup {NoPrinter}] :
        /\ \A c \in kept : f[c] \in PreviousOf(c)
        /\ s = [default |-> KeptDefault(made(f)), printers |-> made(f)]
    BY DEF Written
<1>2. s.printers = made(f)
    BY <1>1
<1>3. \A c \in kept : ConnectionPrinter(c, map[c], f[c]).id = c
    BY DEF ConnectionPrinter
<1>4. \A c \in kept : f[c] = NoPrinter => ConnectionPrinter(c, map[c], f[c]).name = c
    BY DEF ConnectionPrinter
<1>5. \A c \in kept : f[c] # NoPrinter =>
        /\ ConnectionPrinter(c, map[c], f[c]).name = f[c].name
        /\ f[c] \in Find(Previous, c)
    BY <1>1 DEF ConnectionPrinter, PreviousOf
<1>6. ASSUME NEW c \in kept, NEW d \in kept, c # d,
             ConnectionPrinter(c, map[c], f[c]).name = d
      PROVE  SameName(ConnectionPrinter(c, map[c], f[c]).name,
                      ConnectionPrinter(d, map[d], f[d]).name)
    <2>1. f[c] # NoPrinter
        BY <1>4, <1>6
    <2>2. f[c] \in Previous.printers /\ f[c].name = d
        BY <1>5, <1>6, <2>1 DEF Find
    <2>3. f[c] \in Find(Previous, d)
        BY <2>2 DEF Find, Names, SameName
    <2>4. f[d] \in Previous.printers /\ Names(f[d], d)
        BY <1>1, <2>3 DEF PreviousOf, Find
    <2>5. f[d] = f[c]
        BY <2>2, <2>4 DEF Sound, Names, SameName
    <2> QED BY <1>5, <2>1, <2>5 DEF SameName
<1>7. Sound(s)
    <2> SUFFICES ASSUME NEW p \in s.printers, NEW q \in s.printers, p # q
                 PROVE  q.id # p.name
        BY DEF Sound, Valid
    <2>1. PICK c \in kept : p = ConnectionPrinter(c, map[c], f[c])
        BY <1>2
    <2>2. PICK d \in kept : q = ConnectionPrinter(d, map[d], f[d])
        BY <1>2
    <2>3. ~SameName(p.name, q.name) /\ c # d /\ q.id = d
        BY <1>3, <2>1, <2>2 DEF Valid
    <2> QED BY <1>6, <2>1, <2>2, <2>3
<1>8. Fresh(s)
    <2> SUFFICES ASSUME NEW p \in s.printers, NEW y \in Command, p.id = y \/ p.name = y
                 PROVE  cmd[y] = "done"
        BY DEF Fresh
    <2>1. PICK c \in kept : p = ConnectionPrinter(c, map[c], f[c])
        BY <1>2
    <2>2. CASE y = c
        BY <2>2
    <2>3. CASE y # c
        BY <1>3, <1>4, <1>5, <2>1, <2>3 DEF Find, Fresh
    <2> QED BY <2>2, <2>3
<1> QED BY <1>7, <1>8

-----------------------------------------------------------------------------
\* Steps keep a store fresh while commands only come to be done.
LEMMA FreshLater ==
    ASSUME NEW s, Fresh(s), \A y \in Command : cmd[y] = "done" => cmd'[y] = "done"
    PROVE  \A p \in s.printers : \A y \in Command :
             p.id = y \/ p.name = y => cmd'[y] = "done"
BY DEF Fresh

\* The initial states satisfy the invariant.
LEMMA NameInit == Init => NameInv
<1> SUFFICES ASSUME Init
             PROVE  NameInv
    OBVIOUS
<1>1. file \notin {Missing, Unreadable} => file = Empty
    BY StoreAssumption DEF Init
<1>2. \A x \in Command : copy[x] = Empty
    BY DEF Init
<1>3. Connected = {}
    BY DEF Init, Connected
<1> QED BY <1>1, <1>2, <1>3, EmptySound DEF Init, NameInv

\* Each step of a command keeps the invariant.
LEMMA CommandSteps ==
    ASSUME NameInv, NEW x \in Command,
           BeginMigration(x) \/ Migrate(x) \/ Load(x) \/ Edit(x) \/ Refuse(x)
    PROVE  NameInv'
<1>1. DOMAIN cmd' = Command /\ DOMAIN copy' = Command
    BY DEF NameInv, BeginMigration, Migrate, Load, Edit, Refuse
<1>2. \A y \in Command : cmd[y] = "done" => cmd'[y] = "done"
    BY DEF NameInv, BeginMigration, Migrate, Load, Edit, Refuse
<1>3. legacy' = legacy /\ service' = service /\ connections' = connections
    BY DEF BeginMigration, Migrate, Load, Edit, Refuse, serviceVars
<1>4. (\A c \in Connected : \A y \in Command : c = y => cmd[y] = "done")'
    BY <1>2, <1>3 DEF NameInv, Connected
<1>5. (service = "migrating" => Sound(FromLegacy(legacy)) /\ Fresh(FromLegacy(legacy)))'
    BY <1>2, <1>3, FreshLater DEF NameInv, Sound, Fresh, FromLegacy
<1>6. \A s : Sound(s) /\ Fresh(s) => Sound(s) /\ (Fresh(s))'
    BY <1>2, FreshLater DEF Fresh
<1>7. (\A y \in Command : Sound(copy[y]) /\ Fresh(copy[y]))'
    <2>1. CASE BeginMigration(x)
        <3>1. copy' = copy \/ (copy' = [copy EXCEPT ![x] = FromLegacy(legacy)]
                               /\ Valid(FromLegacy(legacy)) /\ MigrationDue)
            BY <2>1 DEF BeginMigration
        <3> QED BY <1>2, <3>1, LegacySound DEF NameInv, Sound, Fresh
    <2>2. CASE Migrate(x)
        BY <1>2, <2>2 DEF Migrate, NameInv, Sound, Fresh
    <2>3. CASE Load(x)
        <3>1. copy' = copy \/ (copy' = [copy EXCEPT ![x] = Loaded(file)] /\ file # Unreadable)
            BY <2>3 DEF Load
        <3>2. file # Unreadable => Sound(Loaded(file)) /\ Fresh(Loaded(file))
            BY EmptySound DEF Loaded, NameInv
        <3> QED BY <1>2, <3>1, <3>2 DEF NameInv, Sound, Fresh
    <2>4. CASE Edit(x) \/ Refuse(x)
        <3>1. copy' = [copy EXCEPT ![x] = Empty]
            BY <2>4 DEF Edit, Refuse
        <3> QED BY <1>2, <3>1, EmptySound DEF NameInv, Sound, Fresh
    <2> QED BY <2>1, <2>2, <2>3, <2>4
<1>8. (file \notin {Missing, Unreadable} => Sound(file) /\ Fresh(file))'
    <2>1. CASE file' = file
        BY <1>2, <2>1 DEF NameInv, Sound, Fresh
    <2>2. CASE Migrate(x) /\ file' = copy[x]
        BY <1>2, <2>2 DEF NameInv, Sound, Fresh
    <2>3. CASE Edit(x)
        <3>1. PICK s \in Edits(copy[x], x) : file' = s
            BY <2>3 DEF Edit
        <3>2. cmd[x] # "done" /\ cmd'[x] = "done"
            BY <2>3 DEF Edit, NameInv
        <3>3. Sound(s) /\ \A p \in s.printers : \A y \in Command :
                            p.id = y \/ p.name = y => y = x \/ cmd[y] = "done"
            BY <3>2, EditSound DEF NameInv
        <3> QED BY <1>2, <3>1, <3>2, <3>3 DEF Sound, Fresh
    <2> QED BY <2>1, <2>2, <2>3 DEF BeginMigration, Migrate, Load, Edit, Refuse
<1> QED BY <1>1, <1>3, <1>4, <1>5, <1>7, <1>8 DEF NameInv

\* Each step of the service keeps the invariant.
LEMMA ServiceSteps ==
    ASSUME NameInv,
           \/ ServiceBeginsMigration \/ ServiceStarts \/ ServiceEnds
           \/ \E c \in Word, t \in Transport : Connect(c, t)
    PROVE  NameInv'
<1>1. cmd' = cmd /\ copy' = copy /\ legacy' = legacy
    BY DEF ServiceBeginsMigration, ServiceStarts, ServiceEnds, Connect, commandVars
<1>2. CASE ServiceBeginsMigration
    BY <1>1, <1>2, LegacySound
    DEF ServiceBeginsMigration, NameInv, Sound, Fresh, Connected, FromLegacy
<1>3. CASE ServiceStarts
    <2>1. file' = file \/ (service = "migrating" /\ file' = FromLegacy(legacy))
        BY <1>3 DEF ServiceStarts
    <2>2. file' \notin {Missing, Unreadable} => Sound(file') /\ Fresh(file')
        BY <2>1 DEF NameInv
    <2>3. \A c \in DOMAIN FromFile(file') : \A y \in Command : c = y => cmd[y] = "done"
        <3>1. CASE file' = Unreadable
            BY <3>1 DEF FromFile
        <3>2. CASE file' # Unreadable
            <4>1. DOMAIN FromFile(file') = Ids(Loaded(file'))
                BY <3>2 DEF FromFile
            <4>2. Fresh(Loaded(file'))
                BY <2>2, <3>2, EmptySound DEF Loaded
            <4> QED BY <4>1, <4>2 DEF Fresh, Ids
        <3> QED BY <3>1, <3>2
    <2>4. connections' = FromFile(file') /\ service' = "up"
        BY <1>3 DEF ServiceStarts
    <2>5. \A s : Fresh(s) => (Fresh(s))'
        BY <1>1 DEF Fresh
    <2> QED BY <1>1, <2>2, <2>3, <2>4 DEF NameInv, Sound, Fresh, Connected
<1>4. CASE ServiceEnds
    <2>1. file' = file /\ connections' = << >> /\ service' = "down"
        BY <1>4 DEF ServiceEnds
    <2> QED BY <1>1, <2>1 DEF NameInv, Sound, Fresh, Connected
<1>5. CASE \E c \in Word, t \in Transport : Connect(c, t)
    <2>1. PICK c \in Word, t \in Transport : Connect(c, t)
        BY <1>5
    <2> DEFINE map == [k \in Connected \cup {c} |-> IF k = c THEN t ELSE connections[k]]
    <2>2. /\ connections' = map /\ service' = service /\ service = "up"
          /\ file' = file \/ \E s \in Written(map) : Valid(s) /\ file' = s
        BY <2>1 DEF Connect
    <2>3. \A k \in DOMAIN map : \A y \in Command : k = y => cmd[y] = "done"
        BY StoreAssumption DEF NameInv
    <2>4. Sound(Previous) /\ Fresh(Previous)
        BY EmptySound DEF Previous, Loaded, NameInv
    <2> HIDE DEF map
    <2>5. file' = file \/ (Sound(file') /\ Fresh(file'))
        BY <2>2, <2>3, <2>4, WrittenSound
    <2>6. (file \notin {Missing, Unreadable} => Sound(file) /\ Fresh(file))'
        BY <1>1, <2>5 DEF NameInv, Sound, Fresh
    <2> QED BY <1>1, <2>2, <2>3, <2>6 DEF NameInv, Sound, Fresh, Connected
<1> QED BY <1>2, <1>3, <1>4, <1>5

\* Every step keeps the invariant.
LEMMA NameStep == NameInv /\ [Next]_vars => NameInv'
<1> SUFFICES ASSUME NameInv, [Next]_vars
             PROVE  NameInv'
    OBVIOUS
<1>1. CASE \E x \in Command : BeginMigration(x) \/ Migrate(x) \/ Load(x) \/ Edit(x) \/ Refuse(x)
    BY <1>1, CommandSteps
<1>2. CASE \/ ServiceBeginsMigration \/ ServiceStarts \/ ServiceEnds
           \/ \E c \in Word, t \in Transport : Connect(c, t)
    BY <1>2, ServiceSteps
<1>3. CASE UNCHANGED vars
    BY <1>3 DEF NameInv, Sound, Fresh, Connected, vars, commandVars, serviceVars
<1> QED BY <1>1, <1>2, <1>3 DEF Next

\* A sound store is one in which names select one printer each.
LEMMA SoundSelects == NameInv => NamesSelectOne
<1> SUFFICES ASSUME NameInv, file \notin {Missing, Unreadable}, NEW p \in file.printers
             PROVE  Find(file, p.name) = {p}
    BY DEF NamesSelectOne
<1>1. \A q \in file.printers : q # p => ~Names(q, p.name)
    BY DEF NameInv, Sound, Names, SameName
<1> QED BY <1>1 DEF Find, Names, SameName

\* Whoever wrote the file last, the name under which a printer is shown selects
\* that printer and no other.
THEOREM NamesSelectOneAlways == Spec => []NamesSelectOne
<1>1. Spec => []NameInv
    BY NameInit, NameStep, PTL DEF Spec
<1> QED BY <1>1, SoundSelects, PTL
-----------------------------------------------------------------------------
(* What was answered stays.                                                *)

\* Neither mark is a store.
Marks == \A d, ps : [default |-> d, printers |-> ps] \notin {Missing, Unreadable}

IsStore(s) == s = [default |-> s.default, printers |-> s.printers]

\* The default is the id of a printer.
Anchored(s) == s.default = Nothing \/ s.default \in Ids(s)

SeenIds == IF seen \in {Missing, Unreadable} THEN {} ELSE Ids(seen)

\* What is in memory, and how the file came to be.
CopyInv ==
    /\ DOMAIN cmd = Command /\ DOMAIN copy = Command
    /\ file \notin {Missing, Unreadable} => IsStore(file)
    /\ \A x \in Command :
        /\ IsStore(copy[x])
        /\ cmd[x] = "migrating" => copy[x] = FromLegacy(legacy) /\ legacy # Missing
    /\ legacy \in LegacyFiles
    /\ service = "migrating" => legacy # Missing
    /\ service = "up" => file # Missing \/ legacy = Missing
    /\ file = Missing => gone = {}

\* While nobody wrote over what it had not read, the service knows all the
\* file has that a command did not put there, and what it knows besides was
\* not removed.
KnownInv ==
    /\ service = "up" => SeenIds \subseteq Connected /\ Connected \subseteq SeenIds \cup Word
    /\ service = "up" /\ ~overlap =>
        /\ FileIds \cap Word \subseteq SeenIds
        /\ gone \cap (Connected \ SeenIds) = {}

KeptInv ==
    ~overlap =>
        /\ answered \subseteq FileIds /\ gone \cap FileIds = {}
        /\ file \notin {Missing, Unreadable} => Anchored(file)

SavedInv == CopyInv /\ KnownInv /\ KeptInv

\* An edit adds no printer but the command's, and its default is a printer.
LEMMA EditIds ==
    ASSUME NEW s, IsStore(s), NEW x, NEW t \in Edits(s, x)
    PROVE  /\ IsStore(t)
           /\ Ids(t) \subseteq Ids(s) \cup {x}
           /\ Anchored(s) => Anchored(t)
<1>1. CASE t \in Added(s, x)
    <2>1. PICK n \in Unused(s), e \in NewEndpoints :
            t = WithPrinters(s, s.printers \cup {[id |-> x, name |-> n, endpoints |-> e]})
        BY <1>1 DEF Added
    <2> DEFINE new == [id |-> x, name |-> n, endpoints |-> e]
    <2>2. new.id = x /\ t = [default |-> s.default, printers |-> s.printers \cup {new}]
        BY <2>1 DEF WithPrinters
    <2> HIDE DEF new
    <2> QED BY <2>2 DEF IsStore, Ids, Anchored
<1>2. ASSUME NEW p \in s.printers, NEW name, NEW ends, t = Replaced(s, p, name, ends)
      PROVE  IsStore(t) /\ Ids(t) = Ids(s) /\ t.default = s.default
    <2> DEFINE new == [id |-> p.id, name |-> name, endpoints |-> ends]
    <2>1. /\ new.id = p.id
          /\ t = [default |-> s.default, printers |-> (s.printers \ {p}) \cup {new}]
        BY <1>2 DEF Replaced, WithPrinters
    <2> HIDE DEF new
    <2> QED BY <2>1 DEF IsStore, Ids
<1>3. CASE t \in Renamed(s)
    <2>1. PICK p \in s.printers, n \in Unused(s) : t = Replaced(s, p, n, p.endpoints)
        BY <1>3 DEF Renamed
    <2> QED BY <1>2, <2>1 DEF Anchored
<1>4. CASE t \in EndpointsEdited(s)
    <2>1. \E p \in s.printers : \E ends : t = Replaced(s, p, p.name, ends)
        BY <1>4 DEF EndpointsEdited
    <2>2. PICK p \in s.printers : \E ends : t = Replaced(s, p, p.name, ends)
        BY <2>1
    <2>3. PICK ends : t = Replaced(s, p, p.name, ends)
        BY <2>2
    <2> QED BY <1>2, <2>3 DEF Anchored
<1>5. CASE t \in Removed(s)
    <2>1. PICK p \in s.printers :
            t = [default  |-> IF s.default # Nothing /\ Names(p, s.default) THEN Nothing
                              ELSE s.default,
                 printers |-> s.printers \ {p}]
        BY <1>5 DEF Removed
    <2>2. IsStore(t) /\ t.printers = s.printers \ {p}
        BY <2>1 DEF IsStore
    <2>3. t.default = Nothing \/ (t.default = s.default /\ p.id # s.default)
        BY <2>1 DEF Names
    <2> QED BY <2>2, <2>3 DEF Ids, Anchored
<1>6. CASE t \in Defaulted(s)
    <2>1. PICK d \in Ids(s) \cup {Nothing} : t = [default |-> d, printers |-> s.printers]
        BY <1>6 DEF Defaulted
    <2> QED BY <2>1 DEF IsStore, Ids, Anchored
<1> QED BY <1>1, <1>3, <1>4, <1>5, <1>6 DEF Edits

\* What the service writes has its connections, and the file's default or none.
LEMMA WrittenIds ==
    ASSUME Foreign = {}, NEW map, NEW s \in Written(map)
    PROVE  IsStore(s) /\ Ids(s) = DOMAIN map /\ s.default \in {Nothing, Previous.default}
<1> DEFINE kept == {c \in DOMAIN map : map[c] \notin Foreign}
           made(f) == {ConnectionPrinter(c, map[c], f[c]) : c \in kept}
<1>1. PICK f \in [kept -> Previous.printers \cup {NoPrinter}] :
        s = [default |-> KeptDefault(made(f)), printers |-> made(f)]
    BY DEF Written
<1>2. kept = DOMAIN map
    OBVIOUS
<1>3. \A c \in kept : ConnectionPrinter(c, map[c], f[c]).id = c
    BY DEF ConnectionPrinter
<1>4. s.printers = made(f) /\ s.default = KeptDefault(made(f)) /\ IsStore(s)
    BY <1>1 DEF IsStore
<1>5. Ids(s) = {p.id : p \in made(f)}
    BY <1>4 DEF Ids
<1>6. {p.id : p \in made(f)} = kept
    BY ONLY <1>3
<1>7. Ids(s) = DOMAIN map
    BY ONLY <1>2, <1>5, <1>6
<1> QED BY <1>4, <1>7 DEF KeptDefault

LEMMA SavedInit == ASSUME Marks PROVE Init => SavedInv
<1> SUFFICES ASSUME Init
             PROVE  SavedInv
    OBVIOUS
<1>1. file \in {Missing, Unreadable, Empty} /\ IsStore(Empty) /\ Anchored(Empty)
    BY StoreAssumption DEF Init, IsStore, Empty, Anchored
<1>2. \A x \in Command : copy[x] = Empty /\ cmd[x] = "idle"
    BY DEF Init
<1>3. CopyInv
    BY <1>1, <1>2 DEF Init, CopyInv
<1>4. KnownInv /\ KeptInv
    BY <1>1 DEF Init, KnownInv, KeptInv
<1> QED BY <1>3, <1>4 DEF SavedInv

\* A list of an earlier version becomes a store without a default.
LEMMA LegacyStore == IsStore(FromLegacy(legacy)) /\ FromLegacy(legacy).default = Nothing
BY DEF IsStore, FromLegacy

\* A step of a command that does not write the file.
LEMMA CommandReads ==
    ASSUME SavedInv, Marks, NEW x \in Command,
           \/ BeginMigration(x) \/ Load(x) \/ Refuse(x)
           \/ (Migrate(x) /\ UNCHANGED <<file, overlap>>)
    PROVE  SavedInv'
<1>1. /\ file' = file /\ legacy' = legacy /\ service' = service /\ connections' = connections
      /\ answered' = answered /\ gone' = gone /\ seen' = seen /\ overlap' = overlap
    BY DEF BeginMigration, Migrate, Load, Refuse, serviceVars, historyVars
<1>2. KnownInv' /\ KeptInv'
    BY <1>1 DEF SavedInv, KnownInv, KeptInv, SeenIds, FileIds, Connected, Anchored, Ids
<1>3. \/ copy' = copy
      \/ copy' = [copy EXCEPT ![x] = FromLegacy(legacy)] /\ MigrationDue
      \/ copy' = [copy EXCEPT ![x] = Loaded(file)] /\ file # Unreadable /\ cmd'[x] # "migrating"
      \/ copy' = [copy EXCEPT ![x] = Empty] /\ cmd'[x] # "migrating"
    BY DEF BeginMigration, Migrate, Load, Refuse, SavedInv, CopyInv
<1>4. DOMAIN cmd' = Command /\ DOMAIN copy' = Command
    BY DEF BeginMigration, Migrate, Load, Refuse, SavedInv, CopyInv
<1>5. \A y \in Command : cmd'[y] = "migrating" => cmd[y] = "migrating" \/ (y = x /\ BeginMigration(x))
    BY DEF BeginMigration, Migrate, Load, Refuse, SavedInv, CopyInv
<1>6. BeginMigration(x) /\ cmd'[x] = "migrating" =>
        copy' = [copy EXCEPT ![x] = FromLegacy(legacy)] /\ legacy # Missing
    BY DEF BeginMigration, MigrationDue, SavedInv, CopyInv
<1>7. IsStore(Empty) /\ (file # Unreadable => IsStore(Loaded(file)))
    BY DEF IsStore, Empty, Loaded, SavedInv, CopyInv
<1>8. (\A y \in Command :
        /\ IsStore(copy[y])
        /\ cmd[y] = "migrating" => copy[y] = FromLegacy(legacy) /\ legacy # Missing)'
    <2> SUFFICES ASSUME NEW y \in Command
                 PROVE  /\ IsStore(copy'[y])
                        /\ cmd'[y] = "migrating" => copy'[y] = FromLegacy(legacy) /\ legacy # Missing
        BY <1>1 DEF IsStore, FromLegacy
    <2>1. CASE y # x
        BY <1>3, <1>5, <2>1 DEF SavedInv, CopyInv
    <2>2. CASE y = x
        <3>1. IsStore(copy'[x])
            BY <1>3, <1>7, LegacyStore DEF SavedInv, CopyInv
        <3>2. CASE BeginMigration(x)
            BY <1>6, <2>2, <3>1, <3>2 DEF SavedInv, CopyInv
        <3>3. CASE ~BeginMigration(x)
            <4>1. cmd'[x] # "migrating"
                BY <3>3 DEF Migrate, Load, Refuse, SavedInv, CopyInv
            <4> QED BY <2>2, <3>1, <4>1
        <3> QED BY <3>2, <3>3
    <2> QED BY <2>1, <2>2
<1> QED BY <1>1, <1>2, <1>4, <1>8 DEF SavedInv, CopyInv, IsStore

\* A command that writes the file: an edit, or what load made of a list.
LEMMA CommandWrites ==
    ASSUME SavedInv, Marks, NEW x \in Command, Edit(x) \/ (Migrate(x) /\ cmd'[x] = "started")
    PROVE  SavedInv'
<1>1. legacy' = legacy /\ service' = service /\ connections' = connections /\ seen' = seen
    BY DEF Edit, Migrate, serviceVars
<1>2. DOMAIN cmd' = Command /\ DOMAIN copy' = Command
    BY DEF Edit, Migrate, SavedInv, CopyInv
<1>3. \A y \in Command : cmd'[y] = "migrating" => cmd[y] = "migrating" /\ y # x
    BY DEF Edit, Migrate, SavedInv, CopyInv
<1>4. copy' = copy \/ copy' = [copy EXCEPT ![x] = Empty]
    BY DEF Edit, Migrate
<1>5. IsStore(Empty)
    BY DEF IsStore, Empty
<1>6. (\A y \in Command :
        /\ IsStore(copy[y])
        /\ cmd[y] = "migrating" => copy[y] = FromLegacy(legacy) /\ legacy # Missing)'
    BY <1>1, <1>3, <1>4, <1>5 DEF SavedInv, CopyInv, IsStore, FromLegacy
<1>7. IsStore(file') /\ file' \notin {Missing, Unreadable}
    <2>1. IsStore(file')
        <3>1. CASE Edit(x)
            BY <3>1, EditIds DEF Edit, SavedInv, CopyInv
        <3>2. CASE Migrate(x) /\ cmd'[x] = "started"
            <4>1. file' = copy[x]
                BY <3>2 DEF Migrate, SavedInv, CopyInv
            <4> QED BY <4>1 DEF SavedInv, CopyInv, IsStore
        <3> QED BY <3>1, <3>2
    <2> QED BY <2>1 DEF IsStore, Marks
<1>8. CopyInv'
    BY <1>1, <1>2, <1>6, <1>7 DEF CopyInv, SavedInv, IsStore
<1>9. CASE overlap'
    <2>1. KnownInv'
        BY <1>1, <1>9 DEF SavedInv, KnownInv, SeenIds, Connected, Ids
    <2> QED BY <1>8, <1>9, <2>1 DEF SavedInv, KeptInv
<1>10. CASE ~overlap' /\ Edit(x)
    <2>1. ~overlap /\ Loaded(file) = copy[x]
        BY <1>10 DEF Edit
    <2>2. IsStore(copy[x]) /\ copy[x] \notin {Missing, Unreadable}
        BY DEF SavedInv, CopyInv, IsStore, Marks
    <2>3. FileIds = Ids(copy[x]) /\ Anchored(copy[x])
        BY <2>1, <2>2 DEF Loaded, FileIds, SavedInv, KeptInv, Empty, Ids, Anchored
    <2>4. PICK s \in Edits(copy[x], x) :
            /\ file' = s
            /\ answered' = (answered \cup (Ids(s) \ Ids(copy[x]))) \ (Ids(copy[x]) \ Ids(s))
            /\ gone' = (gone \cup (Ids(copy[x]) \ Ids(s))) \ (Ids(s) \ Ids(copy[x]))
        BY <1>10 DEF Edit
    <2>5. Ids(s) \subseteq FileIds \cup {x} /\ Anchored(s)
        BY <2>2, <2>3, EditIds
    <2>6. (FileIds)' = Ids(s)
        BY <1>7, <2>4 DEF FileIds
    <2>7. answered \subseteq FileIds /\ gone \cap FileIds = {}
        BY <2>1 DEF SavedInv, KeptInv
    <2>8. KeptInv'
        <3>1. answered' \subseteq Ids(s) /\ gone' \cap Ids(s) = {}
            BY <2>3, <2>4, <2>7
        <3> QED BY <2>4, <2>5, <2>6, <3>1 DEF KeptInv, Anchored, Ids
    <2>9. KnownInv'
        <3>1. (SeenIds)' = SeenIds /\ (Connected)' = Connected
            BY <1>1 DEF SeenIds, Connected, Ids
        <3>2. x \notin Word
            BY StoreAssumption
        <3>3. service = "up" => Ids(s) \cap Word \subseteq SeenIds
            BY <2>1, <2>5, <3>2 DEF SavedInv, KnownInv
        <3>4. service = "up" => gone' \cap (Connected \ SeenIds) = {}
            BY <2>1, <2>3, <2>4 DEF SavedInv, KnownInv
        <3> QED BY <1>1, <2>6, <3>1, <3>3, <3>4 DEF SavedInv, KnownInv
    <2> QED BY <1>8, <2>8, <2>9 DEF SavedInv
<1>11. CASE ~overlap' /\ Migrate(x) /\ cmd'[x] = "started"
    <2>1. /\ cmd[x] = "migrating" /\ answered' = answered /\ gone' = gone
          /\ file' = copy[x] /\ overlap' = (overlap \/ file # Missing)
        BY <1>11 DEF Migrate, SavedInv, CopyInv
    <2>2. /\ ~overlap /\ file = Missing
          /\ copy[x] = FromLegacy(legacy) /\ legacy # Missing /\ service # "up" /\ gone = {}
        BY <1>11, <2>1 DEF SavedInv, CopyInv
    <2>3. answered = {}
        BY <2>2 DEF SavedInv, KeptInv, FileIds
    <2>4. KeptInv'
        BY <1>11, <2>1, <2>2, <2>3, LegacyStore DEF KeptInv, Anchored
    <2>5. KnownInv'
        BY <1>1, <2>2 DEF KnownInv
    <2> QED BY <1>8, <2>4, <2>5 DEF SavedInv
<1> QED BY <1>9, <1>10, <1>11

\* The service begins, starts and ends.
LEMMA ServiceSaves ==
    ASSUME SavedInv, Marks, ServiceBeginsMigration \/ ServiceStarts \/ ServiceEnds
    PROVE  SavedInv'
<1>1. /\ cmd' = cmd /\ copy' = copy /\ legacy' = legacy
      /\ answered' = answered /\ gone' = gone
    BY DEF ServiceBeginsMigration, ServiceStarts, ServiceEnds, commandVars, historyVars
<1>2. CASE ServiceBeginsMigration \/ ServiceEnds
    <2>1. /\ file' = file /\ seen' = seen /\ overlap' = overlap
          /\ service' \in {"migrating", "down"}
          /\ service' = "migrating" => legacy # Missing
        BY <1>2 DEF ServiceBeginsMigration, ServiceEnds, MigrationDue, historyVars
    <2> QED BY <1>1, <2>1 DEF SavedInv, CopyInv, KnownInv, KeptInv, FileIds, Anchored, Ids,
                              IsStore, FromLegacy
<1>3. CASE ServiceStarts
    <2>1. /\ service' = "up" /\ connections' = FromFile(file') /\ seen' = file'
          /\ \/ file' = file /\ overlap' = overlap /\ ~MigrationDue
             \/ /\ service = "migrating" /\ file' = FromLegacy(legacy)
                /\ overlap' = (overlap \/ file # Missing)
        BY <1>3 DEF ServiceStarts
    <2>2. file' \notin {Missing, Unreadable} => IsStore(file')
        BY <2>1, LegacyStore DEF SavedInv, CopyInv, IsStore
    <2>3. (Connected)' = (SeenIds)' /\ (SeenIds)' = (FileIds)'
        <3>1. CASE file' = Unreadable
            BY <2>1, <3>1 DEF FromFile, Connected, SeenIds, FileIds
        <3>2. CASE file' # Unreadable
            <4>1. DOMAIN FromFile(file') = Ids(Loaded(file'))
                BY <3>2 DEF FromFile
            <4> QED BY <2>1, <3>2, <4>1 DEF Connected, SeenIds, FileIds, Loaded, Empty, Ids
        <3> QED BY <3>1, <3>2
    <2>4. KnownInv'
        BY <2>3 DEF KnownInv
    <2>5. CASE file' = file /\ overlap' = overlap /\ ~MigrationDue
        <3>1. file # Missing \/ legacy = Missing
            BY <2>5 DEF MigrationDue
        <3>2. CopyInv'
            BY <1>1, <2>1, <2>2, <2>5, <3>1 DEF SavedInv, CopyInv, IsStore, FromLegacy
        <3>3. KeptInv'
            BY <1>1, <2>5 DEF SavedInv, KeptInv, FileIds, Anchored, Ids
        <3> QED BY <2>4, <3>2, <3>3 DEF SavedInv
    <2>6. CASE service = "migrating" /\ file' = FromLegacy(legacy)
               /\ overlap' = (overlap \/ file # Missing)
        <3>1. file' \notin {Missing, Unreadable} /\ Anchored(file')
            BY <2>6, LegacyStore DEF IsStore, Marks, Anchored
        <3>2. CopyInv'
            BY <1>1, <2>1, <2>2, <3>1 DEF SavedInv, CopyInv, IsStore, FromLegacy
        <3>3. ~overlap' => file = Missing /\ answered = {} /\ gone = {}
            BY <2>6 DEF SavedInv, CopyInv, KeptInv, FileIds
        <3>4. KeptInv'
            BY <1>1, <3>1, <3>3 DEF KeptInv, Anchored, Ids
        <3> QED BY <2>4, <3>2, <3>4 DEF SavedInv
    <2> QED BY <2>1, <2>5, <2>6
<1> QED BY <1>2, <1>3

\* The service saves its map, or fails to.
LEMMA ConnectSaves ==
    ASSUME SavedInv, Marks, Foreign = {}, NEW c \in Word, NEW t \in Transport, Connect(c, t)
    PROVE  SavedInv'
<1> DEFINE map == [k \in Connected \cup {c} |-> IF k = c THEN t ELSE connections[k]]
<1>1. /\ cmd' = cmd /\ copy' = copy /\ legacy' = legacy
      /\ service = "up" /\ service' = "up" /\ connections' = map /\ gone' = gone \ {c}
    BY DEF Connect, commandVars
<1>2. DOMAIN map = Connected \cup {c}
    OBVIOUS
<1>3. \/ UNCHANGED <<file, answered, overlap, seen>>
      \/ \E s \in Written(map) : /\ file' = s /\ seen' = s /\ answered' = answered \cup {c}
                                 /\ overlap' = (overlap \/ file # seen)
    BY DEF Connect
<1> HIDE DEF map
<1>4. (Connected)' = Connected \cup {c}
    BY <1>1, <1>2 DEF Connected
<1>5. CASE UNCHANGED <<file, answered, overlap, seen>>
    <2>1. CopyInv'
        BY <1>1, <1>5 DEF SavedInv, CopyInv, IsStore, FromLegacy
    <2>2. KeptInv'
        BY <1>1, <1>5 DEF SavedInv, KeptInv, FileIds, Anchored, Ids
    <2>3. (SeenIds)' = SeenIds /\ (FileIds)' = FileIds
        BY <1>5 DEF SeenIds, FileIds, Ids
    <2>4. KnownInv'
        BY <1>1, <1>4, <1>5, <2>3 DEF SavedInv, KnownInv
    <2> QED BY <2>1, <2>2, <2>4 DEF SavedInv
<1>6. CASE \E s \in Written(map) : /\ file' = s /\ seen' = s /\ answered' = answered \cup {c}
                                   /\ overlap' = (overlap \/ file # seen)
    <2>1. PICK s \in Written(map) : /\ file' = s /\ seen' = s /\ answered' = answered \cup {c}
                                    /\ overlap' = (overlap \/ file # seen)
        BY <1>6
    <2>2. /\ IsStore(s) /\ Ids(s) = Connected \cup {c}
          /\ s.default \in {Nothing, Previous.default}
        BY <1>2, WrittenIds
    <2>3. s \notin {Missing, Unreadable}
        BY <2>2 DEF IsStore, Marks
    <2>4. CopyInv'
        BY <1>1, <2>1, <2>2, <2>3 DEF SavedInv, CopyInv, IsStore, FromLegacy
    <2>5. (FileIds)' = (Connected)' /\ (SeenIds)' = (Connected)'
        BY <1>4, <2>1, <2>2, <2>3 DEF FileIds, SeenIds
    <2>6. KnownInv'
        BY <2>5 DEF KnownInv
    <2>7. ASSUME ~overlap'
          PROVE  /\ answered' \subseteq Connected \cup {c}
                 /\ gone' \cap (Connected \cup {c}) = {}
                 /\ Anchored(s)
        <3>1. ~overlap /\ file = seen /\ FileIds = SeenIds
            BY <2>1, <2>7 DEF FileIds, SeenIds
        <3>2. answered \subseteq SeenIds /\ gone \cap SeenIds = {}
            BY <3>1 DEF SavedInv, KeptInv
        <3>3. SeenIds \subseteq Connected /\ gone \cap (Connected \ SeenIds) = {}
            BY <1>1, <3>1 DEF SavedInv, KnownInv
        <3>4. Previous.default = Nothing \/ Previous.default \in FileIds
            BY <3>1 DEF Previous, Loaded, Empty, FileIds, SavedInv, KeptInv, Anchored
        <3>5. Anchored(s)
            BY <2>2, <3>1, <3>3, <3>4 DEF Anchored
        <3> QED BY <1>1, <2>1, <3>2, <3>3, <3>5
    <2>8. KeptInv'
        BY <1>4, <2>1, <2>5, <2>7 DEF KeptInv, Anchored, Ids
    <2> QED BY <2>4, <2>6, <2>8 DEF SavedInv
<1> QED BY <1>3, <1>5, <1>6

LEMMA SavedStep == ASSUME Marks, Foreign = {} PROVE SavedInv /\ [Next]_vars => SavedInv'
<1> SUFFICES ASSUME SavedInv, [Next]_vars
             PROVE  SavedInv'
    OBVIOUS
<1>1. CASE \E x \in Command : BeginMigration(x) \/ Migrate(x) \/ Load(x) \/ Edit(x) \/ Refuse(x)
    <2>1. PICK x \in Command :
            BeginMigration(x) \/ Migrate(x) \/ Load(x) \/ Edit(x) \/ Refuse(x)
        BY <1>1
    <2>2. Migrate(x) => cmd'[x] = "started" \/ UNCHANGED <<file, overlap>>
        BY DEF Migrate, SavedInv, CopyInv
    <2> QED BY <2>1, <2>2, CommandReads, CommandWrites
<1>2. CASE ServiceBeginsMigration \/ ServiceStarts \/ ServiceEnds
    BY <1>2, ServiceSaves
<1>3. CASE \E c \in Word, t \in Transport : Connect(c, t)
    BY <1>3, ConnectSaves
<1>4. CASE UNCHANGED vars
    BY <1>4 DEF vars, commandVars, serviceVars, historyVars, SavedInv, CopyInv, KnownInv,
                KeptInv, SeenIds, FileIds, Connected, Anchored, Ids, IsStore, FromLegacy
<1> QED BY <1>1, <1>2, <1>3, <1>4 DEF Next

\* When every transport can be saved, whatever the service or a command said
\* is saved or removed is so, until somebody writes over what it has not read.
THEOREM AnsweredStandsAlways ==
    ASSUME Marks, Foreign = {}
    PROVE  Spec => []AnsweredStands
<1>1. Spec => []SavedInv
    BY SavedInit, SavedStep, PTL DEF Spec
<1>2. SavedInv => AnsweredStands
    BY DEF SavedInv, KeptInv, AnsweredStands
<1> QED BY <1>1, <1>2, PTL

\* Under the same conditions a default that stays keeps the printer that it
\* found alone: it is an id, and the printer with the id is in the file before
\* and after.
THEOREM DefaultStillFindsAlways ==
    ASSUME Marks, Foreign = {}
    PROVE  Spec => DefaultStillFinds
<1>1. Spec => []SavedInv
    BY SavedInit, SavedStep, PTL DEF Spec
<1>2. SavedInv /\ SavedInv' /\ [Next]_vars =>
        [(/\ {file, file'} \cap {Missing, Unreadable} = {} /\ ~overlap'
          /\ file.default # Nothing /\ file'.default = file.default)
         => \A p \in file.printers : Find(file, file.default) = {p}
                => \E q \in Find(file', file.default) : q.id = p.id]_vars
    <2> SUFFICES ASSUME SavedInv, SavedInv', [Next]_vars,
                        {file, file'} \cap {Missing, Unreadable} = {}, ~overlap',
                        file.default # Nothing, file'.default = file.default,
                        NEW p \in file.printers, Find(file, file.default) = {p}
                 PROVE  \E q \in Find(file', file.default) : q.id = p.id
        OBVIOUS
    <2>1. ~overlap
        BY DEF Next, vars, commandVars, serviceVars, historyVars, BeginMigration, Migrate, Load,
               Edit, Refuse, ServiceBeginsMigration, ServiceStarts, ServiceEnds, Connect
    <2>2. file.default \in Ids(file)
        BY <2>1 DEF SavedInv, KeptInv, Anchored
    <2>3. file.default \in Ids(file')
        BY DEF SavedInv, KeptInv, Anchored, Ids
    <2>4. p.id = file.default
        BY <2>2 DEF Ids, Find, Names
    <2> QED BY <2>3, <2>4 DEF Ids, Find, Names
<1> QED BY <1>1, <1>2, PTL DEF Spec, DefaultStillFinds
-----------------------------------------------------------------------------
(* Types.                                                                  *)

\* Every printer of a store can be printed through some endpoint.
Stored(s) == s \in Store /\ \A p \in s.printers : p.endpoints # << >>

StoredInv ==
    /\ PrinterTypeOK
    /\ file \notin {Missing, Unreadable} => Stored(file)
    /\ \A x \in Command : Stored(copy[x])
    /\ service = "migrating" => legacy # Missing

\* Endpoints are sequences of a bounded length.
LEMMA EndpointsAre ==
    \A e : e \in Endpoints <=> e \in Seq(Endpoint) /\ Len(e) \in 0..MaxEndpoints
<1>1. ASSUME NEW e \in Endpoints
      PROVE  e \in Seq(Endpoint) /\ Len(e) \in 0..MaxEndpoints
    <2>1. PICK m \in 0..MaxEndpoints : e \in [1..m -> Endpoint]
        BY DEF Endpoints, BoundedSeq, SeqOf
    <2>2. m \in Nat
        BY StoreAssumption
    <2> QED BY <2>1, <2>2
<1>2. ASSUME NEW e \in Seq(Endpoint), Len(e) \in 0..MaxEndpoints
      PROVE  e \in Endpoints
    <2>1. e \in [1..Len(e) -> Endpoint]
        OBVIOUS
    <2> QED BY <1>2, <2>1 DEF Endpoints, BoundedSeq, SeqOf
<1> QED BY <1>1, <1>2

LEMMA ShortEndpoints ==
    \A a, b \in Endpoint :
        <<a>> \in Endpoints /\ <<a>> # << >> /\ <<a, b>> \in Endpoints
<1>1. 1 \in 0..MaxEndpoints /\ 2 \in 0..MaxEndpoints
    BY StoreAssumption
<1>2. \A a, b \in Endpoint : /\ <<a>> \in [1..1 -> Endpoint] /\ <<a>> # << >>
                             /\ <<a, b>> \in [1..2 -> Endpoint]
    OBVIOUS
<1> QED BY <1>1, <1>2 DEF Endpoints, BoundedSeq, SeqOf

\* Marking changes no endpoint's transport, nor their number.
LEMMA MarkedTyped ==
    ASSUME NEW ends \in Endpoints, NEW marked
    PROVE  Marked(ends, marked) \in Endpoints /\ Len(Marked(ends, marked)) = Len(ends)
<1>1. ends \in Seq(Endpoint) /\ Len(ends) \in 0..MaxEndpoints
    BY EndpointsAre
<1>2. Marked(ends, marked) \in [1..Len(ends) -> Endpoint]
    <2>1. ASSUME NEW i \in DOMAIN ends
          PROVE  [transport |-> ends[i].transport, preferred |-> i \in marked] \in Endpoint
        <3>1. ends[i] \in Endpoint
            BY <1>1
        <3>2. ends[i].transport \in Transport
            BY <3>1 DEF Endpoint
        <3>3. (i \in marked) \in BOOLEAN
            OBVIOUS
        <3> QED BY <3>2, <3>3, Zenon DEF Endpoint
    <2>2. DOMAIN ends = 1..Len(ends)
        BY <1>1
    <2> QED BY <2>1, <2>2, Zenon DEF Marked
<1>3. Marked(ends, marked) \in Seq(Endpoint) /\ Len(Marked(ends, marked)) = Len(ends)
    BY <1>1, <1>2
<1> QED BY <1>1, <1>3, EndpointsAre

\* What the commands make of a printer's endpoints are endpoints.
LEMMA EndpointEditsTyped ==
    ASSUME NEW ends \in Endpoints,
           NEW e \in EndpointAdded(ends) \cup EndpointRemoved(ends) \cup EndpointPreferred(ends)
    PROVE  e \in Endpoints
<1>0. ends \in Seq(Endpoint) /\ Len(ends) \in 0..MaxEndpoints /\ MaxEndpoints \in Nat
    BY EndpointsAre, StoreAssumption
<1>1. CASE e \in EndpointAdded(ends)
    <2>1. PICK t \in Transport :
            \/ e = Append(ends, [transport |-> t, preferred |-> FALSE])
            \/ e = Append(Marked(ends, {}), [transport |-> t, preferred |-> TRUE])
        BY <1>1, Zenon DEF EndpointAdded
    <2>2. PICK base \in {ends, Marked(ends, {})}, new \in Endpoint : e = Append(base, new)
        <3>1. \A k \in BOOLEAN : [transport |-> t, preferred |-> k] \in Endpoint
            BY DEF Endpoint
        <3> QED BY <2>1, <3>1, Zenon
    <2>4. base \in Seq(Endpoint) /\ Len(base) = Len(ends)
        BY <1>0, MarkedTyped, EndpointsAre
    <2>3. Len(ends) < MaxEndpoints
        BY <1>1, Zenon DEF EndpointAdded
    <2>5. e \in Seq(Endpoint) /\ Len(e) = Len(ends) + 1
        BY <2>2, <2>4
    <2> QED BY <1>0, <2>3, <2>5, EndpointsAre
<1>2. CASE e \in EndpointRemoved(ends)
    <2>1. PICK i \in DOMAIN ends :
            e = IF ends[i].preferred THEN [RemoveAt(ends, i) EXCEPT ![1].preferred = TRUE]
                                     ELSE RemoveAt(ends, i)
        BY <1>2 DEF EndpointRemoved
    <2> DEFINE rest == RemoveAt(ends, i)
               front == SubSeq(ends, 1, i - 1)
               back == SubSeq(ends, i + 1, Len(ends))
    <2>2. i \in 1..Len(ends) /\ Len(ends) > 1
        <3>1. Len(ends) > 1
            BY <1>2, Zenon DEF EndpointRemoved
        <3>2. DOMAIN ends = 1..Len(ends)
            BY <1>0
        <3>3. i \in 1..Len(ends)
            BY <3>2
        <3> HIDE DEF rest, front, back
        <3> QED BY <1>0, <3>1, <3>3
    <2>3. front \in Seq(Endpoint) /\ Len(front) = i - 1
        BY <1>0, <2>2
    <2>4. back \in Seq(Endpoint) /\ Len(back) = Len(ends) - i
        BY <1>0, <2>2
    <2>5. rest = front \o back
        BY DEF RemoveAt
    <2> HIDE DEF rest, front, back
    <2>6. rest \in Seq(Endpoint) /\ Len(rest) = Len(ends) - 1
        BY <1>0, <2>2, <2>3, <2>4, <2>5
    <2>7. rest[1] \in Endpoint
        BY <1>0, <2>2, <2>6
    <2>8. [rest EXCEPT ![1].preferred = TRUE] \in [1..Len(rest) -> Endpoint]
        <3>1. [rest[1] EXCEPT !.preferred = TRUE] \in Endpoint
            BY <2>7 DEF Endpoint
        <3>2. rest \in [1..Len(rest) -> Endpoint]
            BY <2>6
        <3>3. \A a \in Endpoint : [rest EXCEPT ![1] = a] \in [1..Len(rest) -> Endpoint]
            BY <3>2
        <3>4. [rest EXCEPT ![1].preferred = TRUE]
                = [rest EXCEPT ![1] = [rest[1] EXCEPT !.preferred = TRUE]]
            BY <3>2
        <3> QED BY <3>1, <3>3, <3>4
    <2>9. /\ [rest EXCEPT ![1].preferred = TRUE] \in Seq(Endpoint)
          /\ Len([rest EXCEPT ![1].preferred = TRUE]) = Len(rest)
        BY <1>0, <2>6, <2>8
    <2>10. e \in {rest, [rest EXCEPT ![1].preferred = TRUE]}
        BY <2>1 DEF rest
    <2>11. e \in Seq(Endpoint) /\ Len(e) = Len(ends) - 1
        BY <2>6, <2>9, <2>10
    <2> QED BY <1>0, <2>2, <2>11, EndpointsAre
<1>3. CASE e \in EndpointPreferred(ends)
    <2>1. PICK marked : e = Marked(ends, marked)
        BY <1>3 DEF EndpointPreferred
    <2> QED BY <2>1, MarkedTyped
<1> QED BY <1>1, <1>2, <1>3

\* An edit makes a store of a store.
LEMMA EditTyped ==
    ASSUME NEW s \in Store, NEW x \in Command, NEW t \in Edits(s, x)
    PROVE  t \in Store
<1>0. s.printers \subseteq Printer /\ s.default \in Id \cup {Nothing}
    BY DEF Store
<1>1. CASE t \in Added(s, x)
    <2>1. PICK n \in Unused(s), e \in NewEndpoints :
            t = WithPrinters(s, s.printers \cup {[id |-> x, name |-> n, endpoints |-> e]})
        BY <1>1 DEF Added
    <2>2. ASSUME NEW v \in Transport
          PROVE  <<[transport |-> v, preferred |-> TRUE]>> \in Endpoints
        <3>1. [transport |-> v, preferred |-> TRUE] \in Endpoint
            BY DEF Endpoint
        <3> QED BY <3>1, ShortEndpoints
    <2>3. ASSUME NEW v \in Transport, NEW w \in Transport, NEW chosen \in Transport
          PROVE  <<[transport |-> v, preferred |-> Uri[v] = Uri[chosen]],
                   [transport |-> w, preferred |-> Uri[w] = Uri[chosen]]>> \in Endpoints
        <3>1. (Uri[v] = Uri[chosen]) \in BOOLEAN /\ (Uri[w] = Uri[chosen]) \in BOOLEAN
            OBVIOUS
        <3>2. /\ [transport |-> v, preferred |-> Uri[v] = Uri[chosen]] \in Endpoint
              /\ [transport |-> w, preferred |-> Uri[w] = Uri[chosen]] \in Endpoint
            BY <3>1, Zenon DEF Endpoint
        <3> QED BY <3>2, ShortEndpoints, Zenon
    <2>5. e \in Endpoints
        BY <2>2, <2>3 DEF NewEndpoints
    <2>4. [id |-> x, name |-> n, endpoints |-> e] \in Printer
        BY <2>5 DEF Printer, Id, Unused
    <2> QED BY <1>0, <2>1, <2>4 DEF WithPrinters, Store
<1>2. ASSUME NEW p \in s.printers, NEW name \in Id, NEW ends \in Endpoints,
             t = Replaced(s, p, name, ends)
      PROVE  t \in Store
    <2>1. [id |-> p.id, name |-> name, endpoints |-> ends] \in Printer
        BY <1>0 DEF Printer
    <2> QED BY <1>0, <1>2, <2>1 DEF Replaced, WithPrinters, Store
<1>3. CASE t \in Renamed(s)
    <2>1. PICK p \in s.printers, n \in Unused(s) : t = Replaced(s, p, n, p.endpoints)
        BY <1>3 DEF Renamed
    <2>2. n \in Id /\ p.endpoints \in Endpoints
        BY <1>0 DEF Unused, Id, Printer
    <2> QED BY <1>2, <2>1, <2>2
<1>4. CASE t \in EndpointsEdited(s)
    <2>1. PICK p \in s.printers :
            t \in {Replaced(s, p, p.name, ends) :
                   ends \in EndpointAdded(p.endpoints) \cup EndpointRemoved(p.endpoints)
                            \cup EndpointPreferred(p.endpoints)}
        BY <1>4 DEF EndpointsEdited
    <2>2. PICK ends \in EndpointAdded(p.endpoints) \cup EndpointRemoved(p.endpoints)
                        \cup EndpointPreferred(p.endpoints) :
            t = Replaced(s, p, p.name, ends)
        BY <2>1
    <2>3. p.endpoints \in Endpoints /\ p.name \in Id
        BY <1>0 DEF Printer
    <2>4. ends \in Endpoints
        BY <2>3, EndpointEditsTyped
    <2> QED BY <1>2, <2>2, <2>3, <2>4
<1>5. CASE t \in Removed(s) \cup Defaulted(s)
    <2>1. Ids(s) \subseteq Id
        BY <1>0 DEF Ids, Printer
    <2>2. \E d \in Id \cup {Nothing}, ps \in SUBSET s.printers :
            t = [default |-> d, printers |-> ps]
        <3>1. CASE t \in Removed(s)
            BY <1>0, <3>1 DEF Removed
        <3>2. CASE t \in Defaulted(s)
            BY <2>1, <3>2 DEF Defaulted
        <3> QED BY <1>5, <3>1, <3>2
    <2> QED BY <1>0, <2>2 DEF Store
<1> QED BY <1>1, <1>3, <1>4, <1>5 DEF Edits

\* What the service writes is a store.
LEMMA WrittenTyped ==
    ASSUME Previous \in Store, NEW map, DOMAIN map \subseteq Id,
           \A c \in DOMAIN map : map[c] \in Transport, NEW s \in Written(map)
    PROVE  s \in Store
<1> DEFINE kept == {c \in DOMAIN map : map[c] \notin Foreign}
           made(f) == {ConnectionPrinter(c, map[c], f[c]) : c \in kept}
<1>1. PICK f \in [kept -> Previous.printers \cup {NoPrinter}] :
        s = [default |-> KeptDefault(made(f)), printers |-> made(f)]
    BY DEF Written
<1>2. Previous.printers \subseteq Printer /\ Previous.default \in Id \cup {Nothing}
    BY DEF Store
<1>3. \A t \in Transport : <<[transport |-> t, preferred |-> TRUE]>> \in Endpoints
    <2>1. \A t \in Transport : [transport |-> t, preferred |-> TRUE] \in Endpoint
        BY DEF Endpoint
    <2> QED BY <2>1, ShortEndpoints
<1>4. ASSUME NEW c \in kept
      PROVE  ConnectionPrinter(c, map[c], f[c]) \in Printer
    <2>1. c \in Id /\ map[c] \in Transport
        OBVIOUS
    <2>2. CASE f[c] = NoPrinter
        BY <1>3, <2>1, <2>2 DEF ConnectionPrinter, Printer
    <2>3. CASE f[c] # NoPrinter
        <3>1. f[c] \in Printer
            BY <1>1, <1>2, <2>3
        <3> QED BY <2>1, <2>3, <3>1 DEF ConnectionPrinter, Printer
    <2> QED BY <2>2, <2>3
<1>5. made(f) \in SUBSET Printer
    BY <1>4
<1>6. KeptDefault(made(f)) \in Id \cup {Nothing}
    BY <1>2 DEF KeptDefault
<1> QED BY <1>1, <1>5, <1>6 DEF Store

\* A list of an earlier version becomes a store.
LEMMA LegacyTyped ==
    ASSUME legacy \in LegacyFiles, legacy # Missing
    PROVE  Stored(FromLegacy(legacy))
<1>1. \A t \in Transport : /\ <<[transport |-> t, preferred |-> TRUE]>> \in Endpoints
                           /\ <<[transport |-> t, preferred |-> TRUE]>> # << >>
    <2>1. \A t \in Transport : [transport |-> t, preferred |-> TRUE] \in Endpoint
        BY DEF Endpoint
    <2> QED BY <2>1, ShortEndpoints
<1>2. \A c \in legacy : c.id \in Id /\ c.transport \in Transport
    BY StoreAssumption DEF Id
<1>3. \A p \in FromLegacy(legacy).printers : p \in Printer /\ p.endpoints # << >>
    BY <1>1, <1>2 DEF FromLegacy, Printer
<1>4. FromLegacy(legacy) \in Store
    BY <1>3 DEF FromLegacy, Store
<1> QED BY <1>3, <1>4 DEF Stored

LEMMA EmptyTyped == Stored(Empty)
BY DEF Stored, Store, Empty

\* A printer with an endpoint is printed through one of the transports.
LEMMA TargetTyped ==
    ASSUME NEW p \in Printer, p.endpoints # << >>
    PROVE  Target(p) \in Transport
<1>1. p.endpoints \in Seq(Endpoint)
    BY EndpointsAre DEF Printer
<1>2. 1 \in DOMAIN p.endpoints
    BY <1>1
<1>3. \A i \in DOMAIN p.endpoints : p.endpoints[i].transport \in Transport
    <2>1. \A i \in DOMAIN p.endpoints : p.endpoints[i] \in Endpoint
        BY <1>1
    <2> QED BY <2>1 DEF Endpoint
<1>4. Preferred(p.endpoints) \subseteq DOMAIN p.endpoints
    BY DEF Preferred
<1>5. CASE Preferred(p.endpoints) = {}
    BY <1>2, <1>3, <1>5 DEF Target
<1>6. CASE Preferred(p.endpoints) # {}
    <2>1. (CHOOSE i \in Preferred(p.endpoints) : TRUE) \in DOMAIN p.endpoints
        BY <1>4, <1>6
    <2> QED BY <1>3, <1>6, <2>1 DEF Target
<1> QED BY <1>5, <1>6

\* A fresh map of connections leads to transports.
LEMMA FromFileTyped ==
    ASSUME NEW f, f \notin {Missing, Unreadable} => Stored(f)
    PROVE  /\ DOMAIN FromFile(f) \subseteq Id
           /\ FromFile(f) \in [DOMAIN FromFile(f) -> Transport]
<1>1. CASE f = Unreadable
    BY <1>1 DEF FromFile
<1>2. CASE f # Unreadable
    <2> DEFINE s == Loaded(f)
    <2>1. Stored(s)
        BY <1>2, EmptyTyped DEF Loaded
    <2>2. FromFile(f) = [c \in Ids(s) |-> Target(CHOOSE p \in s.printers : p.id = c)]
        BY <1>2 DEF FromFile
    <2> HIDE DEF s
    <2>3. Ids(s) \subseteq Id
        BY <2>1 DEF Stored, Store, Printer, Ids
    <2>4. \A c \in Ids(s) : Target(CHOOSE p \in s.printers : p.id = c) \in Transport
        <3>1. ASSUME NEW c \in Ids(s)
              PROVE  Target(CHOOSE p \in s.printers : p.id = c) \in Transport
            <4>1. (CHOOSE p \in s.printers : p.id = c) \in s.printers
                BY DEF Ids
            <4>2. PICK q \in s.printers : q = (CHOOSE p \in s.printers : p.id = c)
                BY <4>1
            <4>3. q \in Printer /\ q.endpoints # << >>
                BY <2>1 DEF Stored, Store
            <4> QED BY <4>2, <4>3, TargetTyped
        <3> QED BY <3>1
    <2> QED BY <2>2, <2>3, <2>4
<1> QED BY <1>1, <1>2

LEMMA StoredInit == Init => StoredInv
<1> SUFFICES ASSUME Init
             PROVE  StoredInv
    OBVIOUS
<1>1. file \in {Missing, Unreadable, Empty} /\ Stored(Empty) /\ Empty \in Store
    BY StoreAssumption, EmptyTyped DEF Init, Stored
<1>2. MaxRestarts \in Nat
    BY StoreAssumption
<1>3. Connected = {} /\ connections \in [Connected -> Transport]
    BY DEF Init, Connected
<1>4. /\ copy \in [Command -> Store] /\ \A x \in Command : copy[x] = Empty
      /\ cmd \in [Command -> {"idle", "migrating", "started", "loaded", "done", "refused"}]
    BY <1>1 DEF Init
<1>5. restarts \in 0..MaxRestarts
    BY <1>2 DEF Init
<1>6. /\ file \in Store \cup {Missing, Unreadable} /\ seen = file
      /\ file \notin {Missing, Unreadable} => Stored(file)
    BY <1>1 DEF Init
<1>7. PrinterTypeOK
    BY <1>3, <1>4, <1>5, <1>6 DEF Init, PrinterTypeOK
<1>8. \A x \in Command : Stored(copy[x])
    BY <1>1, <1>4
<1>9. service # "migrating"
    BY DEF Init
<1> QED BY <1>6, <1>7, <1>8, <1>9 DEF StoredInv

\* The steps of a command keep the types.
LEMMA CommandTypes ==
    ASSUME StoredInv, NEW x \in Command,
           BeginMigration(x) \/ Migrate(x) \/ Load(x) \/ Edit(x) \/ Refuse(x)
    PROVE  StoredInv'
<1> USE DEF StoredInv
<1>1. /\ legacy' = legacy /\ service' = service /\ connections' = connections
      /\ restarts' = restarts /\ seen' = seen
    BY DEF BeginMigration, Migrate, Load, Edit, Refuse, serviceVars, historyVars
<1>2. cmd' \in [Command -> {"idle", "migrating", "started", "loaded", "done", "refused"}]
    <2>1. \E g \in {"migrating", "started", "loaded", "done", "refused"} :
            cmd' = [cmd EXCEPT ![x] = g]
        BY DEF BeginMigration, Migrate, Load, Edit, Refuse
    <2> QED BY <2>1 DEF PrinterTypeOK
<1>3. /\ Stored(Empty) /\ (MigrationDue => Stored(FromLegacy(legacy)))
      /\ file # Unreadable => Stored(Loaded(file))
    BY EmptyTyped, LegacyTyped DEF MigrationDue, PrinterTypeOK, Loaded
<1>4. \/ copy' = copy
      \/ \E s : Stored(s) /\ copy' = [copy EXCEPT ![x] = s]
    BY <1>3 DEF BeginMigration, Migrate, Load, Edit, Refuse
<1>5. copy' \in [Command -> Store] /\ \A y \in Command : Stored(copy'[y])
    BY <1>4 DEF PrinterTypeOK, Stored
<1>6. CASE Edit(x)
    <2>1. PICK s \in Edits(copy[x], x) :
            /\ Valid(s) /\ file' = s
            /\ answered' = (answered \cup (Ids(s) \ Ids(copy[x]))) \ (Ids(copy[x]) \ Ids(s))
            /\ gone' = (gone \cup (Ids(copy[x]) \ Ids(s))) \ (Ids(s) \ Ids(copy[x]))
        BY <1>6 DEF Edit
    <2>2. copy[x] \in Store
        BY DEF PrinterTypeOK
    <2>3. Stored(s) /\ s \in Store
        BY <2>1, <2>2, EditTyped DEF Stored, Valid
    <2>4. Ids(s) \subseteq Id /\ Ids(copy[x]) \subseteq Id
        BY <2>2, <2>3 DEF Store, Printer, Ids
    <2>5. overlap' \in BOOLEAN
        BY <1>6 DEF Edit, PrinterTypeOK
    <2>6. answered' \subseteq Id /\ gone' \subseteq Id
        BY <2>1, <2>4 DEF PrinterTypeOK
    <2> QED BY <1>1, <1>2, <1>5, <2>1, <2>3, <2>5, <2>6 DEF PrinterTypeOK, Connected, Stored
<1>7. CASE BeginMigration(x) \/ Migrate(x) \/ Load(x) \/ Refuse(x)
    <2>1. /\ answered' = answered /\ gone' = gone
          /\ overlap' \in BOOLEAN
        BY <1>7 DEF BeginMigration, Migrate, Load, Refuse, historyVars, PrinterTypeOK
    <2>2. file' = file \/ file' = copy[x]
        BY <1>7 DEF BeginMigration, Migrate, Load, Refuse
    <2>3. /\ file' \in Store \cup {Missing, Unreadable}
          /\ file' \notin {Missing, Unreadable} => Stored(file')
        BY <2>2 DEF PrinterTypeOK
    <2> QED BY <1>1, <1>2, <1>5, <2>1, <2>3 DEF PrinterTypeOK, Connected, Stored
<1> QED BY <1>6, <1>7

\* The steps of the service keep the types.
LEMMA ServiceTypes ==
    ASSUME StoredInv,
           \/ ServiceBeginsMigration \/ ServiceStarts \/ ServiceEnds
           \/ \E c \in Word, t \in Transport : Connect(c, t)
    PROVE  StoredInv'
<1> USE DEF StoredInv
<1>1. cmd' = cmd /\ copy' = copy /\ legacy' = legacy
    BY DEF ServiceBeginsMigration, ServiceStarts, ServiceEnds, Connect, commandVars
<1>2. CASE ServiceBeginsMigration
    <2>1. /\ UNCHANGED <<file, connections, restarts, answered, gone, seen, overlap>>
          /\ service' = "migrating" /\ legacy # Missing
        BY <1>2 DEF ServiceBeginsMigration, MigrationDue, historyVars
    <2> QED BY <1>1, <2>1 DEF PrinterTypeOK, Connected, Stored
<1>3. CASE ServiceStarts
    <2>1. /\ service' = "up" /\ connections' = FromFile(file') /\ seen' = file'
          /\ file' = file \/ (service = "migrating" /\ file' = FromLegacy(legacy))
          /\ UNCHANGED <<restarts, answered, gone>>
        BY <1>3 DEF ServiceStarts
    <2>2. overlap' \in BOOLEAN
        BY <1>3 DEF ServiceStarts, PrinterTypeOK
    <2>3. Stored(FromLegacy(legacy)) \/ file' = file
        BY <2>1, LegacyTyped DEF PrinterTypeOK
    <2>4. /\ file' \in Store \cup {Missing, Unreadable}
          /\ file' \notin {Missing, Unreadable} => Stored(file')
        BY <2>1, <2>3 DEF PrinterTypeOK, Stored
    <2>5. /\ DOMAIN FromFile(file') \subseteq Id
          /\ FromFile(file') \in [DOMAIN FromFile(file') -> Transport]
        BY <2>4, FromFileTyped
    <2> QED BY <1>1, <2>1, <2>2, <2>4, <2>5 DEF PrinterTypeOK, Connected, Stored
<1>4. CASE ServiceEnds
    <2>1. /\ UNCHANGED <<file, answered, gone, seen, overlap>>
          /\ service' = "down" /\ connections' = << >>
          /\ restarts < MaxRestarts /\ restarts' = restarts + 1
        BY <1>4 DEF ServiceEnds, historyVars
    <2>2. restarts' \in 0..MaxRestarts
        BY <2>1, StoreAssumption DEF PrinterTypeOK
    <2>3. (Connected)' = {} /\ connections' \in [(Connected)' -> Transport]
        BY <2>1 DEF Connected
    <2> QED BY <1>1, <2>1, <2>2, <2>3 DEF PrinterTypeOK, Stored
<1>5. CASE \E c \in Word, t \in Transport : Connect(c, t)
    <2>1. PICK c \in Word, t \in Transport : Connect(c, t)
        BY <1>5
    <2> DEFINE map == [k \in Connected \cup {c} |-> IF k = c THEN t ELSE connections[k]]
    <2>2. /\ connections' = map /\ service' = service /\ service = "up"
          /\ restarts' = restarts /\ gone' = gone \ {c}
          /\ \/ UNCHANGED <<file, answered, overlap, seen>>
             \/ \E s \in Written(map) : /\ Valid(s) /\ file' = s /\ seen' = s
                                        /\ answered' = answered \cup {c}
                                        /\ overlap' = (overlap \/ file # seen)
        BY <2>1 DEF Connect
    <2>3. /\ DOMAIN map = Connected \cup {c} /\ c \in Id
          /\ \A k \in DOMAIN map : map[k] \in Transport
        BY DEF PrinterTypeOK, Id
    <2>4. map \in [DOMAIN map -> Transport] /\ DOMAIN map \subseteq Id
        BY <2>3 DEF PrinterTypeOK
    <2>5. Previous \in Store
        BY EmptyTyped DEF Previous, Loaded, PrinterTypeOK, Stored
    <2> HIDE DEF map
    <2>6. \A s \in Written(map) : s \in Store
        BY <2>3, <2>4, <2>5, WrittenTyped
    <2>7. /\ file' \in Store \cup {Missing, Unreadable} /\ seen' \in Store \cup {Missing, Unreadable}
          /\ file' \notin {Missing, Unreadable} => Stored(file')
          /\ overlap' \in BOOLEAN /\ answered' \subseteq Id
        <3>1. CASE UNCHANGED <<file, answered, overlap, seen>>
            BY <3>1 DEF PrinterTypeOK
        <3>2. CASE ~UNCHANGED <<file, answered, overlap, seen>>
            <4>1. PICK s \in Written(map) : /\ Valid(s) /\ file' = s /\ seen' = s
                                            /\ answered' = answered \cup {c}
                                            /\ overlap' = (overlap \/ file # seen)
                BY <2>2, <3>2
            <4> QED BY <2>3, <2>6, <4>1 DEF PrinterTypeOK, Stored, Valid
        <3> QED BY <3>1, <3>2
    <2>8. (Connected)' = DOMAIN map /\ gone' \subseteq Id
        BY <2>2 DEF Connected, PrinterTypeOK
    <2> QED BY <1>1, <2>2, <2>4, <2>7, <2>8 DEF PrinterTypeOK, Stored
<1> QED BY <1>2, <1>3, <1>4, <1>5

\* Every copy of the store keeps its type, and every printer of it an endpoint:
\* the service finds a transport for each whenever it starts.
THEOREM PrinterTypeCorrect == Spec => []PrinterTypeOK
<1>1. StoredInv /\ [Next]_vars => StoredInv'
    <2> SUFFICES ASSUME StoredInv, [Next]_vars
                 PROVE  StoredInv'
        OBVIOUS
    <2>1. CASE \E x \in Command : BeginMigration(x) \/ Migrate(x) \/ Load(x) \/ Edit(x) \/ Refuse(x)
        BY <2>1, CommandTypes
    <2>2. CASE \/ ServiceBeginsMigration \/ ServiceStarts \/ ServiceEnds
               \/ \E c \in Word, t \in Transport : Connect(c, t)
        BY <2>2, ServiceTypes
    <2>3. CASE UNCHANGED vars
        BY <2>3 DEF vars, commandVars, serviceVars, historyVars, StoredInv, PrinterTypeOK,
                    Connected, Stored
    <2> QED BY <2>1, <2>2, <2>3 DEF Next
<1>2. StoredInv => PrinterTypeOK
    BY DEF StoredInv
<1> QED BY <1>1, <1>2, StoredInit, PTL DEF Spec
=============================================================================
