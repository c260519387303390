------------------------------ MODULE Settings ------------------------------
(***************************************************************************)
(* The persistent settings (Settings.cpp) and the commands that change     *)
(* them (ProcessSettings.cpp).  A setting has three copies of its value:   *)
(* the one in force (_currentValue), what the code believes the flash      *)
(* holds (_storedValue) and what the flash holds (NVS).  Only the first    *)
(* and the last matter to the operator; the middle one decides whether a   *)
(* write is made.  Both the main task ($ lines) and the input task (web    *)
(* and [ESP] commands) run these handlers, with no lock between them.      *)
(*                                                                         *)
(* The kinds differ only in how they treat the middle copy:                *)
(*   int     setStringValue works on its own converted value;              *)
(*   plain   axis mask, enum, flag, address: it works on _currentValue;    *)
(*   float   as plain, and load never sets _storedValue: it is whatever    *)
(*           the heap held when the setting was made;                      *)
(*   string  as plain, and the copy follows an erase made by a set.        *)
(*                                                                         *)
(* Authentication is compiled out (Config.h:127), and no setting is made   *)
(* with currentIsNvm: both are left out.                                   *)
(***************************************************************************)
EXTENDS Integers, TLC

CONSTANTS
    Names,       \* one setting of each kind that is looked at, named for it
    Hooked,      \* the settings whose checker re-reads them into a driver
    Values,      \* the values in range; the default is one of them
    Default,
    Tasks,       \* the tasks that run setting commands
    Given,       \* the commands given: "set", "restore", "erase", "offset"
    MaxCommands, \* bound: commands given in a behaviour
    MaxFails,    \* bound: NVS writes that fail
    MaxRestarts  \* bound: power cycles

ASSUME NamesAssumption ==
    /\ Names \subseteq {"int", "plain", "float", "string"}
    /\ Hooked \subseteq Names
    /\ Values \subseteq Nat /\ Default \in Values
    /\ {MaxCommands, MaxFails, MaxRestarts} \subseteq Nat

None   == -1            \* no entry in the NVS; the out-of-range mark of _storedValue
Zero   == 0             \* the coordinates G10 never touched
Offset == 1
Junk   == 2             \* coordinates read from memory nobody wrote

VARIABLES
    current,     \* _currentValue: what get() returns
    stored,      \* _storedValue
    nvs,         \* the entry of the setting in flash, None when absent
    applied,     \* what the driver read when a hook or the start last ran
    coord,       \* Coordinates::_currentValue of a work coordinate system
    coordNvs,    \* its blob in flash
    task,        \* where each task is in a command
    machine,     \* sys.state
    commands, fails, restarts,
    said,        \* history: the value of the last command answered ok
    refused,     \* history: the value of the last set answered NvsSetFailed
    mixed        \* history: two tasks were in commands on the setting at once

copies  == <<current, stored, nvs>>
coords  == <<coord, coordNvs>>
history == <<said, refused, mixed>>
counts  == <<commands, fails, restarts>>
vars    == <<copies, applied, coords, task, machine, counts, history>>

\* The two tasks run the same handlers.
TaskSymmetry == Permutations(Tasks)

Idle == [step |-> "idle"]
At(step, n, v) == [step |-> step, name |-> n, value |-> v]
Restoring(left) == [step |-> "restore", left |-> left]

\* The task is inside a command that will still touch the setting.
On(t, n) ==
    \/ task[t].step \in {"assign", "write", "copy", "hook"} /\ task[t].name = n
    \/ task[t].step = "restore" /\ n \in task[t].left
Busy(n) == \E t \in Tasks : On(t, n)

\* Setting::check and idleOrAlarm: only at rest or in alarm.
Allowed == machine \in {"Idle", "Alarm"}

\* Mutant: the error of the NVS is not looked at.
BadLoaded(n) == nvs[n]

\* load(): the entry, or the default; _storedValue is the entry, or a mark.
Loaded(n) == IF nvs[n] = None THEN Default ELSE nvs[n]
StoredMarks(n) ==
    CASE n = "float" -> Values \cup {None}
      [] n = "string" -> {Loaded(n)}
      [] OTHER -> {nvs[n]}

\* Coordinates::load: the length it passes is never initialised, so a short
\* one leaves the coordinates as the heap had them, and load says it worked.
CoordLoads == IF coordNvs = None THEN {Zero} ELSE {coordNvs, Junk}

Marks == [Names -> Values \cup {None}]

Init ==
    /\ nvs = [n \in Names |-> None]
    /\ current = [n \in Names |-> Default]
    /\ stored \in {f \in Marks : \A n \in Names : f[n] \in StoredMarks(n)}
    /\ applied = [n \in Hooked |-> Default]
    /\ coord = Zero /\ coordNvs = Zero
    /\ task = [t \in Tasks |-> Idle]
    /\ machine = "Idle"
    /\ commands = 0 /\ fails = 0 /\ restarts = 0
    /\ said = current
    /\ refused = [n \in Names |-> None]
    /\ mixed = {}

-----------------------------------------------------------------------------
(* Setting a value: setStringValue *)

Asks(t, command) ==
    /\ command \in Given
    /\ task[t] = Idle /\ Allowed /\ commands < MaxCommands
    /\ commands' = commands + 1
    /\ UNCHANGED restarts

\* check(s) and the range test passed; a refused set changes nothing.
Begin(t, n, v) ==
    /\ Asks(t, "set")
    /\ task' = [task EXCEPT ![t] = At("assign", n, v)]
    /\ mixed' = IF Busy(n) THEN mixed \cup {n} ELSE mixed
    /\ UNCHANGED <<copies, applied, coords, machine, fails, said, refused>>

Assign(t) ==
    /\ task[t].step = "assign"
    /\ current' = [current EXCEPT ![task[t].name] = task[t].value]
    /\ task' = [task EXCEPT ![t].step = "write"]
    /\ UNCHANGED <<stored, nvs, applied, coords, machine, counts, history>>

\* What the set compares and writes: int keeps its own value, the others
\* read the value in force again.
Written(t) ==
    IF task[t].name = "int" THEN task[t].value ELSE current[task[t].name]

\* _storedValue says the flash has it already.
Skip(t) ==
    /\ task[t].step = "write"
    /\ stored[task[t].name] = Written(t)
    /\ task' = [task EXCEPT ![t].step = "hook"]
    /\ UNCHANGED <<copies, applied, coords, machine, counts, history>>

\* The default is stored as no entry; only a string's copy follows.
EraseCopy(n) == IF n = "string" THEN [stored EXCEPT ![n] = Default] ELSE stored

WriteDefault(t) ==
    /\ task[t].step = "write"
    /\ LET n == task[t].name IN
        /\ stored[n] # Written(t) /\ Written(t) = Default
        /\ nvs' = [nvs EXCEPT ![n] = None]
        /\ stored' = EraseCopy(n)
    /\ task' = [task EXCEPT ![t].step = "hook"]
    /\ UNCHANGED <<current, applied, coords, machine, counts, history>>

MustWrite(t) ==
    /\ task[t].step = "write"
    /\ stored[task[t].name] # Written(t) /\ Written(t) # Default

Write(t) ==
    /\ MustWrite(t)
    /\ nvs' = [nvs EXCEPT ![task[t].name] = Written(t)]
    /\ task' = [task EXCEPT ![t].step = "copy"]
    /\ UNCHANGED <<current, stored, applied, coords, machine, counts, history>>

\* Mutant: the copy is brought up to date before the write is known to work.
BadWriteFails(t) ==
    /\ MustWrite(t) /\ fails < MaxFails
    /\ fails' = fails + 1
    /\ stored' = [stored EXCEPT ![task[t].name] = Written(t)]
    /\ task' = [task EXCEPT ![t] = Idle]
    /\ refused' = [refused EXCEPT ![task[t].name] = task[t].value]
    /\ UNCHANGED <<current, nvs, applied, coords, machine, commands, restarts, said, mixed>>

\* NvsSetFailed: the value stays in force, the flash keeps the old one.
WriteFails(t) ==
    /\ MustWrite(t) /\ fails < MaxFails
    /\ fails' = fails + 1
    /\ task' = [task EXCEPT ![t] = Idle]
    /\ refused' = [refused EXCEPT ![task[t].name] = task[t].value]
    /\ UNCHANGED <<copies, applied, coords, machine, commands, restarts, said, mixed>>

Copy(t) ==
    /\ task[t].step = "copy"
    /\ stored' = [stored EXCEPT ![task[t].name] = Written(t)]
    /\ task' = [task EXCEPT ![t].step = "hook"]
    /\ UNCHANGED <<current, nvs, applied, coords, machine, counts, history>>

\* check(NULL): the driver re-reads its settings, if the machine is still at
\* rest; the command is answered ok either way.
Hook(t) ==
    /\ task[t].step = "hook"
    /\ LET n == task[t].name IN
        /\ applied' = IF n \in Hooked /\ Allowed THEN [m \in Hooked |-> current[m]] ELSE applied
        /\ said' = [said EXCEPT ![n] = task[t].value]
        /\ refused' = [refused EXCEPT ![n] = None]
    /\ task' = [task EXCEPT ![t] = Idle]
    /\ UNCHANGED <<copies, coords, machine, counts, mixed>>

-----------------------------------------------------------------------------
(* $RST, $NVX, work coordinates *)

\* $RST=$, $RST=@ and $RST=*: setDefault on one setting after another.
BeginRestore(t, names) ==
    /\ Asks(t, "restore")
    /\ task' = [task EXCEPT ![t] = Restoring(names)]
    /\ mixed' = mixed \cup {n \in names : Busy(n)}
    /\ UNCHANGED <<copies, applied, coords, machine, fails, said, refused>>

\* Mutant: a value equal to the copy of the flash is not reset.
BadSetDefault(t, n) ==
    /\ task[t].step = "restore" /\ n \in task[t].left
    /\ current' = IF stored[n] # current[n] THEN [current EXCEPT ![n] = Default] ELSE current
    /\ nvs' = [nvs EXCEPT ![n] = IF stored[n] # Default THEN None ELSE @]
    /\ task' = [task EXCEPT ![t].left = @ \ {n}]
    /\ said' = [said EXCEPT ![n] = Default]
    /\ refused' = [refused EXCEPT ![n] = None]
    /\ UNCHANGED <<stored, applied, coords, machine, counts, mixed>>

\* setDefault: the entry is erased unless the copy says it is the default;
\* the copy keeps the old value, and no hook runs.
SetDefault(t, n) ==
    /\ task[t].step = "restore" /\ n \in task[t].left
    /\ current' = [current EXCEPT ![n] = Default]
    /\ nvs' = [nvs EXCEPT ![n] = IF stored[n] # Default THEN None ELSE @]
    /\ task' = [task EXCEPT ![t].left = @ \ {n}]
    /\ said' = [said EXCEPT ![n] = Default]
    /\ refused' = [refused EXCEPT ![n] = None]
    /\ UNCHANGED <<stored, applied, coords, machine, counts, mixed>>

EndRestore(t) ==
    /\ task[t] = Restoring({})
    /\ task' = [task EXCEPT ![t] = Idle]
    /\ UNCHANGED <<copies, applied, coords, machine, counts, history>>

\* $NVX: the flash is erased; every copy in memory stays.
EraseNVS(t) ==
    /\ Asks(t, "erase")
    /\ nvs' = [n \in Names |-> None] /\ coordNvs' = None
    /\ UNCHANGED <<current, stored, applied, coord, task, machine, fails, history>>

\* Coordinates::set (G10, G28.1, G30.1; zeros from $RST=#): the answer of
\* the NVS is not looked at.
SetCoordinates(t, c) ==
    /\ Asks(t, "offset")
    /\ coord' = c
    /\ \/ coordNvs' = c /\ fails' = fails
       \/ fails < MaxFails /\ coordNvs' = coordNvs /\ fails' = fails + 1
    /\ UNCHANGED <<copies, applied, task, machine, history>>

-----------------------------------------------------------------------------
(* The machine, and power *)

\* The rest of the firmware starts and ends motion, and raises alarms.
Machine(m) ==
    /\ machine' = m /\ m # machine
    /\ UNCHANGED <<copies, applied, coords, task, counts, history>>

\* settings_init, after a power cycle at any point of a command.
Restart ==
    /\ restarts < MaxRestarts
    /\ restarts' = restarts + 1
    /\ current' = [n \in Names |-> Loaded(n)]
    /\ stored' \in {f \in Marks : \A n \in Names : f[n] \in StoredMarks(n)}
    /\ applied' = [n \in Hooked |-> Loaded(n)]
    /\ coord' \in CoordLoads
    /\ coordNvs' = IF coordNvs = None THEN Zero ELSE coordNvs
    /\ task' = [t \in Tasks |-> Idle]
    /\ machine' \in {"Idle", "Alarm"}
    /\ said' = current'
    /\ refused' = [n \in Names |-> None]
    /\ mixed' = {}
    /\ UNCHANGED <<nvs, commands, fails>>

Set(t) ==
    \/ \E n \in Names, v \in Values : Begin(t, n, v)
    \/ Assign(t) \/ Skip(t) \/ WriteDefault(t) \/ Write(t) \/ WriteFails(t) \/ Copy(t) \/ Hook(t)

Others(t) ==
    \/ BeginRestore(t, Names)
    \/ \E n \in Names : SetDefault(t, n)
    \/ EndRestore(t)
    \/ EraseNVS(t)
    \/ \E c \in {Zero, Offset} : SetCoordinates(t, c)

Next ==
    \/ \E t \in Tasks : Set(t) \/ Others(t)
    \/ \E m \in {"Idle", "Cycle", "Alarm"} : Machine(m)
    \/ Restart

Spec == Init /\ [][Next]_vars

-----------------------------------------------------------------------------
(* Properties *)

Steps ==
    {Idle} \cup {At(s, n, v) : s \in {"assign", "write", "copy", "hook"}, n \in Names, v \in Values}
           \cup {Restoring(left) : left \in SUBSET Names}

\* The copies hold values in range, and only the flash and its copy may have none.
TypeOK ==
    /\ current \in [Names -> Values] /\ said \in [Names -> Values]
    /\ stored \in Marks /\ nvs \in Marks /\ refused \in Marks
    /\ applied \in [Hooked -> Values]
    /\ coord \in {Zero, Offset, Junk} /\ coordNvs \in {Zero, Offset, None}
    /\ task \in [Tasks -> Steps]
    /\ machine \in {"Idle", "Cycle", "Alarm"}
    /\ commands \in 0..MaxCommands /\ fails \in 0..MaxFails /\ restarts \in 0..MaxRestarts
    /\ mixed \subseteq Names

Settled(n) == ~Busy(n) /\ n \notin mixed

\* Settings.cpp:114-146 and its likes, over failing writes, restores, erases
\* and restarts: an old value never comes back.  When nobody is changing a
\* setting, the flash holds the value last answered ok or nothing at all, so a
\* restart loads that value or the default.  (A float setting does not have
\* this: its copy of the flash is not initialised.)
NoOldValueOf(n) == Settled(n) => nvs[n] \in {said[n], None}
NoOldValue == \A n \in Names \ {"float"} : NoOldValueOf(n)

\* The same of a float, which the code does not keep: a default that equals
\* what _storedValue happens to hold is not written, and the old value is
\* loaded again (Settings.cpp:292-309, 328-330).
NoOldFloat == NoOldValueOf("float")

\* Settings.cpp:114-146, 103-112: the value in force is the one last answered
\* ok, or the one a failing NVS write refused but left in force.
InForce ==
    \A n \in Names : Settled(n) =>
        current[n] = IF refused[n] = None THEN said[n] ELSE refused[n]

\* ProcessSettings.cpp:443-446 speaks of "a persistent value": what was
\* answered ok is what a restart loads.  The code does not keep it: a value set
\* again after a restore or an erase is not written, for the copy still has it.
Persistent ==
    \A n \in Names \ {"float"} : Settled(n) => Loaded(n) = said[n]

\* Settings.cpp:734-739: the coordinates in use are the ones that were set.
\* The code does not keep it: the length is not initialised.
CoordinatesKnown == coord # Junk

\* The driver uses the settings in force.  The code does not keep it: a
\* restore, a failing write or a motion started meanwhile skips the hook.
DriverFollows == \A n \in Hooked : Settled(n) => applied[n] = current[n]

\* The value in force reaches the flash, whoever sets it.  The code does not
\* keep it when two tasks set the setting at once.
TasksAgree == \A n \in Names : ~Busy(n) /\ refused[n] = None => nvs[n] \in {current[n], None}

=============================================================================
