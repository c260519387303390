--------------------------- MODULE Settings_proofs ---------------------------
(***************************************************************************)
(* Proofs about Settings, for every set of values and of tasks and any     *)
(* number of commands, failing writes and power cycles.                    *)
(***************************************************************************)
EXTENDS Settings, TLAPS

\* A task is at one of these steps of a set of this setting.
Doing(t, n, steps) == task[t].step \in steps /\ task[t].name = n

\* The value in force is the one last answered ok, or the one a failing write left.
LastWord(n) == IF refused[n] = None THEN said[n] ELSE refused[n]

\* A setting that never had two tasks at once has at most one now.
OneTask(n) == \A t, u \in Tasks : On(t, n) /\ On(u, n) => t = u

\* The value in force follows the command from its assignment on.
ForceFollows(n) ==
  /\ \A t \in Tasks : Doing(t, n, {"write", "copy", "hook"}) => current[n] = task[t].value
  /\ (\A t \in Tasks : ~Doing(t, n, {"write", "copy", "hook"})) => current[n] = LastWord(n)

\* The flash holds the value of the command from its write on, the value last
\* answered ok otherwise, and what _storedValue says it holds but for the time
\* between a write and its copy; or nothing at all.
FlashFollows(n) ==
  /\ \A t \in Tasks : Doing(t, n, {"copy", "hook"}) => nvs[n] \in {task[t].value, None}
  /\ (\A t \in Tasks : ~Doing(t, n, {"copy", "hook"})) => nvs[n] \in {said[n], None}
  /\ (\A t \in Tasks : ~Doing(t, n, {"copy"})) => nvs[n] \in {stored[n], None}

SettingsInv ==
  \A n \in Names \ mixed :
    /\ OneTask(n)
    /\ ForceFollows(n)
    /\ n # "float" => FlashFollows(n)

-----------------------------------------------------------------------------
\* The constants have the types their assumption gives them.
LEMMA ConstantTypes ==
  /\ Values \subseteq Nat /\ Default \in Values /\ Hooked \subseteq Names
  /\ MaxCommands \in Nat /\ MaxFails \in Nat /\ MaxRestarts \in Nat
BY NamesAssumption DEF NamesAssumption

\* A task at a step of a set has a record of a set, of this setting and value.
LEMMA SetShape ==
  ASSUME TypeOK, NEW t \in Tasks, task[t].step \in {"assign", "write", "copy", "hook"}
  PROVE  \E n \in Names, v \in Values : task[t] = At(task[t].step, n, v)
<1>1. task[t] \in Steps
  BY DEF TypeOK
<1>2. task[t] # Idle
  BY DEF Idle
<1>3. \A left : task[t] # Restoring(left)
  BY DEF Restoring
<1> QED BY <1>1, <1>2, <1>3 DEF Steps, At

\* A task goes from one step of a set to the next, with the same setting and value.
Moves(t, from, to) ==
  \E n \in Names, v \in Values :
    task[t] = At(from, n, v) /\ task' = [task EXCEPT ![t] = At(to, n, v)]

\* What the steps of a set do to the task that makes them.
LEMMA SetMoves ==
  ASSUME TypeOK, NEW t \in Tasks
  PROVE  /\ Assign(t) => Moves(t, "assign", "write")
         /\ Skip(t) \/ WriteDefault(t) => Moves(t, "write", "hook")
         /\ Write(t) => Moves(t, "write", "copy")
         /\ Copy(t) => Moves(t, "copy", "hook")
<1> DEFINE Goes(from, to) == task[t].step = from /\ task' = [task EXCEPT ![t].step = to]
<1>1. ASSUME NEW from \in {"assign", "write", "copy"}, NEW to \in {"write", "copy", "hook"},
             Goes(from, to)
      PROVE  Moves(t, from, to)
  <2>1. PICK n \in Names, v \in Values : task[t] = At(from, n, v)
    BY <1>1, SetShape
  <2>2. [task[t] EXCEPT !.step = to] = At(to, n, v)
    BY <2>1 DEF At
  <2>3. task' = [task EXCEPT ![t] = At(to, n, v)]
    BY <1>1, <2>2
  <2> QED BY <2>1, <2>3 DEF Moves
<1>2. Assign(t) => Goes("assign", "write")
  BY DEF Assign
<1>3. Skip(t) \/ WriteDefault(t) => Goes("write", "hook")
  BY DEF Skip, WriteDefault
<1>4. Write(t) => Goes("write", "copy")
  BY DEF Write, MustWrite
<1>5. Copy(t) => Goes("copy", "hook")
  BY DEF Copy
<1> HIDE DEF Goes
<1> QED BY <1>1, <1>2, <1>3, <1>4, <1>5

\* What is left of the record of a restore after one setting.
LEMMA NextLeft ==
  ASSUME NEW left, NEW n
  PROVE  [Restoring(left) EXCEPT !.left = @ \ {n}] = Restoring(left \ {n})
BY DEF Restoring

\* A restoring task has a record of the settings that are left.
LEMMA RestoreShape ==
  ASSUME TypeOK, NEW t \in Tasks, task[t].step = "restore"
  PROVE  \E left \in SUBSET Names : task[t] = Restoring(left)
<1>1. task[t] \in Steps
  BY DEF TypeOK
<1>2. task[t] # Idle
  BY DEF Idle
<1>3. \A n, v : \A s \in {"assign", "write", "copy", "hook"} : task[t] # At(s, n, v)
  BY DEF At
<1> QED BY <1>1, <1>2, <1>3 DEF Steps

\* The mark of each kind is one of the values or none.
LEMMA MarkTypes ==
  ASSUME TypeOK
  PROVE  \A n \in Names : Loaded(n) \in Values
BY ConstantTypes DEF TypeOK, Loaded, Marks

\* The initial state has its types.
LEMMA InitType == Init => TypeOK
<1> SUFFICES ASSUME Init PROVE TypeOK
  OBVIOUS
<1>1. task \in [Tasks -> Steps]
  BY DEF Init, Steps
<1>2. stored \in Marks /\ nvs \in Marks /\ refused \in Marks
  BY DEF Init, Marks
<1>3. current \in [Names -> Values] /\ said \in [Names -> Values] /\ applied \in [Hooked -> Values]
  BY ConstantTypes DEF Init
<1> QED BY <1>1, <1>2, <1>3, ConstantTypes DEF Init, TypeOK

\* Every step keeps the types.
LEMMA TypeStep == TypeOK /\ [Next]_vars => TypeOK'
<1> SUFFICES ASSUME TypeOK, [Next]_vars PROVE TypeOK'
  OBVIOUS
<1> USE ConstantTypes
<1>s. ASSUME NEW t \in Tasks, NEW k \in Steps, task' = [task EXCEPT ![t] = k]
      PROVE  task' \in [Tasks -> Steps]
  BY <1>s DEF TypeOK
<1>1. ASSUME NEW t \in Tasks, NEW n \in Names, NEW v \in Values, Begin(t, n, v) PROVE TypeOK'
  <2>1. At("assign", n, v) \in Steps
    BY DEF Steps
  <2>2. task' \in [Tasks -> Steps]
    BY <1>1, <1>s, <2>1 DEF Begin
  <2> QED BY <1>1, <2>2 DEF Begin, Asks, TypeOK, copies, coords
<1>m. ASSUME NEW t \in Tasks, NEW from, NEW to \in {"write", "copy", "hook"}, Moves(t, from, to)
      PROVE  task' \in [Tasks -> Steps]
  <2>1. PICK n \in Names, v \in Values : task' = [task EXCEPT ![t] = At(to, n, v)]
    BY <1>m DEF Moves
  <2>2. At(to, n, v) \in Steps
    BY DEF Steps
  <2> QED BY <1>s, <2>1, <2>2
<1>2. ASSUME NEW t \in Tasks, Assign(t) PROVE TypeOK'
  <2>1. Moves(t, "assign", "write")
    BY <1>2, SetMoves
  <2>2. current' \in [Names -> Values]
    BY <1>2, <2>1 DEF Assign, Moves, At, TypeOK
  <2> QED BY <1>2, <1>m, <2>1, <2>2 DEF Assign, TypeOK, coords, counts, history
<1>3. ASSUME NEW t \in Tasks, Skip(t) \/ WriteDefault(t) \/ Copy(t) PROVE TypeOK'
  <2>1. Moves(t, "write", "hook") \/ Moves(t, "copy", "hook")
    BY <1>3, SetMoves
  <2>2. PICK s \in {"write", "copy"}, n \in Names, v \in Values : task[t] = At(s, n, v)
    BY <2>1 DEF Moves
  <2>3. Written(t) \in Values
    BY <2>2 DEF Written, TypeOK, At
  <2>4. stored' \in Marks /\ nvs' \in Marks
    BY <1>3, <2>2, <2>3 DEF Skip, WriteDefault, Copy, EraseCopy, TypeOK, Marks, copies, At
  <2>5. task' \in [Tasks -> Steps]
    BY <1>m, <2>1
  <2> QED BY <1>3, <2>4, <2>5 DEF Skip, WriteDefault, Copy, TypeOK, copies, coords, counts, history
<1>4. ASSUME NEW t \in Tasks, Write(t) PROVE TypeOK'
  <2>1. Moves(t, "write", "copy")
    BY <1>4, SetMoves
  <2>2. nvs' \in Marks
    BY <1>4, <2>1 DEF Write, Moves, Written, TypeOK, Marks, At
  <2> QED BY <1>4, <1>m, <2>1, <2>2 DEF Write, TypeOK, coords, counts, history
<1>5. ASSUME NEW t \in Tasks, WriteFails(t) \/ Hook(t) PROVE TypeOK'
  <2>1. PICK s \in {"write", "hook"}, n \in Names, v \in Values : task[t] = At(s, n, v)
    <3>1. task[t].step \in {"write", "hook"}
      BY <1>5 DEF WriteFails, MustWrite, Hook
    <3> QED BY <3>1, SetShape
  <2>2. task' \in [Tasks -> Steps]
    BY <1>5, <1>s DEF Steps, WriteFails, Hook
  <2>3. refused' \in Marks /\ said' \in [Names -> Values]
    BY <1>5, <2>1 DEF WriteFails, Hook, TypeOK, Marks, At
  <2>4. applied' \in [Hooked -> Values]
    BY <1>5 DEF WriteFails, Hook, TypeOK
  <2>5. fails' \in 0..MaxFails
    BY <1>5 DEF WriteFails, Hook, TypeOK, counts
  <2> QED BY <1>5, <2>2, <2>3, <2>4, <2>5 DEF WriteFails, Hook, TypeOK, copies, coords, counts
<1>6. ASSUME NEW t \in Tasks, BeginRestore(t, Names) PROVE TypeOK'
  <2>1. task' \in [Tasks -> Steps]
    <3>1. Restoring(Names) \in Steps
      BY DEF Steps
    <3> QED BY <1>6, <1>s, <3>1 DEF BeginRestore
  <2> QED BY <1>6, <2>1 DEF BeginRestore, Asks, TypeOK, copies, coords
<1>7. ASSUME NEW t \in Tasks, NEW n \in Names, SetDefault(t, n) PROVE TypeOK'
  <2>1. PICK left \in SUBSET Names : task[t] = Restoring(left)
    BY <1>7, RestoreShape DEF SetDefault
  <2>2. Restoring(left \ {n}) \in Steps /\ task' = [task EXCEPT ![t] = Restoring(left \ {n})]
    <3>1. Restoring(left \ {n}) \in Steps
      BY DEF Steps
    <3>2. task' = [task EXCEPT ![t] = Restoring(left \ {n})]
      BY <1>7, <2>1, NextLeft DEF SetDefault
    <3> QED BY <3>1, <3>2
  <2>3. task' \in [Tasks -> Steps]
    BY <2>2, <1>s
  <2>4. nvs' \in Marks /\ refused' \in Marks
    BY <1>7 DEF SetDefault, TypeOK, Marks
  <2>5. current' \in [Names -> Values] /\ said' \in [Names -> Values]
    BY <1>7 DEF SetDefault, TypeOK
  <2> QED BY <1>7, <2>3, <2>4, <2>5 DEF SetDefault, TypeOK, coords, counts
<1>8. ASSUME NEW t \in Tasks, EndRestore(t) PROVE TypeOK'
  <2>1. task' \in [Tasks -> Steps]
    <3>1. Idle \in Steps
      BY DEF Steps
    <3> QED BY <1>8, <1>s, <3>1 DEF EndRestore
  <2> QED BY <1>8, <2>1 DEF EndRestore, TypeOK, copies, coords, counts, history
<1>9. ASSUME NEW t \in Tasks, EraseNVS(t) PROVE TypeOK'
  BY <1>9 DEF EraseNVS, Asks, TypeOK, Marks, history
<1>10. ASSUME NEW t \in Tasks, NEW c \in {Zero, Offset}, SetCoordinates(t, c) PROVE TypeOK'
  BY <1>10 DEF SetCoordinates, Asks, TypeOK, copies, history
<1>11. ASSUME NEW m \in {"Idle", "Cycle", "Alarm"}, Machine(m) PROVE TypeOK'
  BY <1>11 DEF Machine, TypeOK, copies, coords, counts, history
<1>12. CASE Restart
  <2>1. current' \in [Names -> Values] /\ applied' \in [Hooked -> Values] /\ said' = current'
    BY <1>12, MarkTypes DEF Restart
  <2>2. refused' \in Marks /\ stored' \in Marks /\ nvs' \in Marks
    BY <1>12 DEF Restart, Marks, TypeOK
  <2>3. task' \in [Tasks -> Steps]
    BY <1>12 DEF Restart, Steps
  <2>4. coord' \in {Zero, Offset, Junk} /\ coordNvs' \in {Zero, Offset, None}
    BY <1>12 DEF Restart, CoordLoads, TypeOK
  <2> QED BY <1>12, <2>1, <2>2, <2>3, <2>4 DEF Restart, TypeOK
<1>13. CASE UNCHANGED vars
  BY <1>13 DEF vars, TypeOK, copies, coords, counts, history
<1> QED BY <1>1, <1>2, <1>3, <1>4, <1>5, <1>6, <1>7, <1>8, <1>9, <1>10, <1>11, <1>12, <1>13
        DEF Next, Set, Others

-----------------------------------------------------------------------------
\* The initial state has the invariant: nobody is in a command, and the copies
\* were just loaded.
LEMMA InitSettings == Init => SettingsInv
<1> SUFFICES ASSUME Init, NEW n \in Names
             PROVE  OneTask(n) /\ ForceFollows(n) /\ (n # "float" => FlashFollows(n))
  BY DEF SettingsInv
<1>1. \A t \in Tasks : task[t].step = "idle"
  BY DEF Init, Idle
<1>2. OneTask(n)
  BY <1>1 DEF OneTask, On
<1>3. ForceFollows(n)
  BY <1>1 DEF Init, ForceFollows, LastWord, Doing
<1>4. FlashFollows(n)
  BY <1>1 DEF Init, FlashFollows, Doing
<1> QED BY <1>2, <1>3, <1>4

\* A setting keeps the invariant in a step that changes none of its copies and
\* leaves every task as it was, or in no set of it before and after.
LEMMA OthersKeep ==
  ASSUME NEW m \in Names,
         current'[m] = current[m], stored'[m] = stored[m], nvs'[m] = nvs[m],
         said'[m] = said[m], refused'[m] = refused[m],
         \A u \in Tasks :
           \/ task'[u] = task[u]
           \/ /\ ~Doing(u, m, {"write", "copy", "hook"})
              /\ ~Doing(u, m, {"write", "copy", "hook"})'
              /\ On(u, m)' => On(u, m)
  PROVE  /\ OneTask(m) => OneTask(m)'
         /\ ForceFollows(m) => ForceFollows(m)'
         /\ FlashFollows(m) => FlashFollows(m)'
<1>1. \A u \in Tasks :
        \/ task'[u] = task[u]
        \/ \A S \in SUBSET {"write", "copy", "hook"} : ~Doing(u, m, S) /\ ~Doing(u, m, S)'
  BY DEF Doing
<1>2. \A u \in Tasks : On(u, m)' => On(u, m)
  BY DEF On
<1>3. OneTask(m) => OneTask(m)'
  BY <1>2 DEF OneTask
<1>4. ForceFollows(m) => ForceFollows(m)'
  BY <1>1 DEF ForceFollows, LastWord, Doing
<1>5. FlashFollows(m) => FlashFollows(m)'
  BY <1>1 DEF FlashFollows, Doing
<1> QED BY <1>3, <1>4, <1>5

\* The task of a set is the only one on the setting while the setting is not mixed.
LEMMA Alone ==
  ASSUME SettingsInv, TypeOK, NEW t \in Tasks, NEW n \in Names \ mixed, NEW v,
         NEW s \in {"assign", "write", "copy", "hook"}, task[t] = At(s, n, v)
  PROVE  /\ \A u \in Tasks \ {t} : ~On(u, n)
         /\ \A u \in Tasks \ {t} : \A S \in SUBSET {"write", "copy", "hook"} : ~Doing(u, n, S)
         /\ \A S \in SUBSET {"write", "copy", "hook"} : Doing(t, n, S) <=> s \in S
         /\ s \in {"write", "copy", "hook"} => current[n] = v
<1>1. OneTask(n) /\ ForceFollows(n)
  BY DEF SettingsInv
<1>2. On(t, n)
  BY DEF On, At
<1>3. \A u \in Tasks \ {t} : ~On(u, n)
  BY <1>1, <1>2 DEF OneTask
<1>4. \A S \in SUBSET {"write", "copy", "hook"} : Doing(t, n, S) <=> s \in S
  BY DEF Doing, At
<1>5. \A u \in Tasks \ {t} : \A S \in SUBSET {"write", "copy", "hook"} : ~Doing(u, n, S)
  BY <1>3 DEF Doing, On
<1>6. s \in {"write", "copy", "hook"} => current[n] = v
  BY <1>1, <1>4 DEF ForceFollows, At
<1> QED BY <1>3, <1>4, <1>5, <1>6

\* A step of a set of one setting and value.
SetStep(t, from, to, n, v) ==
  /\ from \in {"assign", "write", "copy"} /\ to \in {"write", "copy", "hook"}
  /\ to = "write" => from = "assign"
  /\ n \in Names /\ v \in Values
  /\ task[t] = At(from, n, v) /\ task' = [task EXCEPT ![t] = At(to, n, v)]
  /\ UNCHANGED history
  /\ \A m \in Names \ {n} :
       current'[m] = current[m] /\ stored'[m] = stored[m] /\ nvs'[m] = nvs[m]
  /\ n \notin mixed => current'[n] = v
  /\ n \notin mixed /\ n # "float" =>
       /\ to = "write" => nvs'[n] = nvs[n]
       /\ to # "write" => nvs'[n] \in {v, None}
       /\ to # "copy" => nvs'[n] \in {stored'[n], None}

\* Such a step keeps the invariant.
LEMMA SetKeeps ==
  ASSUME TypeOK, SettingsInv, NEW t \in Tasks, NEW from, NEW to, NEW n, NEW v,
         SetStep(t, from, to, n, v)
  PROVE  SettingsInv'
<1> USE DEF SetStep
<1> SUFFICES ASSUME NEW m \in Names \ mixed
             PROVE  (OneTask(m) /\ ForceFollows(m) /\ (m # "float" => FlashFollows(m)))'
  BY DEF SettingsInv, history
<1>1. CASE m # n
  <2>1. m \in Names \ {n} /\ said'[m] = said[m] /\ refused'[m] = refused[m]
    BY <1>1 DEF history
  <2>2. /\ OneTask(m) => OneTask(m)'
        /\ ForceFollows(m) => ForceFollows(m)'
        /\ FlashFollows(m) => FlashFollows(m)'
    <3>1. current'[m] = current[m] /\ stored'[m] = stored[m] /\ nvs'[m] = nvs[m]
      BY <2>1
    <3>2. ~On(t, m)' /\ ~Doing(t, m, {"write", "copy", "hook"})
                     /\ ~Doing(t, m, {"write", "copy", "hook"})'
      BY <2>1 DEF TypeOK, On, Doing, At
    <3>3. \A u \in Tasks \ {t} : task'[u] = task[u]
      BY DEF TypeOK
    <3> QED BY <2>1, <3>1, <3>2, <3>3, OthersKeep
  <2> QED BY <2>2 DEF SettingsInv
<1>2. CASE m = n
  <2>1. /\ \A u \in Tasks \ {t} : ~On(u, n) /\ task'[u] = task[u]
        /\ \A u \in Tasks \ {t} : \A S \in SUBSET {"write", "copy", "hook"} : ~Doing(u, n, S)
        /\ \A S \in SUBSET {"write", "copy", "hook"} : Doing(t, n, S) <=> from \in S
    BY <1>2, Alone DEF TypeOK
  <2>2. \A u \in Tasks \ {t} : ~On(u, n)'
    BY <2>1 DEF On
  <2>3. \A u \in Tasks \ {t} : \A S \in SUBSET {"write", "copy", "hook"} : ~Doing(u, n, S)'
    BY <2>1 DEF Doing
  <2>4. task'[t] = At(to, n, v)
    BY DEF TypeOK
  <2>5. \A S \in SUBSET {"write", "copy", "hook"} : Doing(t, n, S)' <=> to \in S
    BY <2>4 DEF Doing, At
  <2>6. OneTask(n)'
    BY <2>2 DEF OneTask
  <2>7. task'[t].value = v
    BY <2>4 DEF At
  <2>8. ForceFollows(n)'
    BY <1>2, <2>3, <2>5, <2>7 DEF ForceFollows
  <2>9. ASSUME n # "float" PROVE FlashFollows(n)'
    <3>1. FlashFollows(n)
      BY <1>2, <2>9 DEF SettingsInv
    <3>2. CASE to = "write"
      <4>1. nvs[n] \in {said[n], None} /\ nvs[n] \in {stored[n], None}
        <5>1. \A u \in Tasks : ~Doing(u, n, {"copy", "hook"}) /\ ~Doing(u, n, {"copy"})
          BY <2>1, <3>2
        <5> QED BY <3>1, <5>1 DEF FlashFollows
      <4>2. nvs'[n] \in {said'[n], None} /\ nvs'[n] \in {stored'[n], None}
        BY <1>2, <2>9, <3>2, <4>1 DEF history
      <4>3. \A u \in Tasks : ~Doing(u, n, {"copy", "hook"})'
        BY <2>3, <2>5, <3>2
      <4> QED BY <4>2, <4>3 DEF FlashFollows
    <3>3. CASE to \in {"copy", "hook"}
      BY <1>2, <2>3, <2>5, <2>7, <2>9, <3>3 DEF FlashFollows
    <3> QED BY <3>2, <3>3
  <2> QED BY <1>2, <2>6, <2>8, <2>9
<1> QED BY <1>1, <1>2

\* Assigning, comparing, writing and copying keep the invariant: the copy that
\* decides whether to write never claims a value the flash does not hold.
LEMMA ValueStep ==
  ASSUME TypeOK, SettingsInv, NEW t \in Tasks,
         Assign(t) \/ Skip(t) \/ WriteDefault(t) \/ Write(t) \/ Copy(t)
  PROVE  SettingsInv'
<1>t. task \in [Tasks -> Steps] /\ current \in [Names -> Values]
      /\ stored \in [Names -> Values \cup {None}] /\ nvs \in [Names -> Values \cup {None}]
  BY DEF TypeOK, Marks
<1>1. CASE Assign(t)
  <2>1. PICK n \in Names, v \in Values :
          task[t] = At("assign", n, v) /\ task' = [task EXCEPT ![t] = At("write", n, v)]
    BY <1>1, SetMoves DEF Moves
  <2>2. current' = [current EXCEPT ![n] = v] /\ UNCHANGED <<stored, nvs>> /\ UNCHANGED history
    BY <1>1, <2>1 DEF Assign, At
  <2>3. n \notin mixed /\ n # "float" => nvs'[n] \in {stored'[n], None}
    <3>1. SUFFICES ASSUME n \notin mixed, n # "float" PROVE nvs[n] \in {stored[n], None}
      BY <2>2
    <3>2. \A u \in Tasks : ~Doing(u, n, {"copy"})
      BY <2>1, <3>1, Alone
    <3> QED BY <3>1, <3>2 DEF SettingsInv, FlashFollows
  <2>4. SetStep(t, "assign", "write", n, v)
    BY <1>t, <2>1, <2>2, <2>3 DEF SetStep
  <2> QED BY <2>4, SetKeeps
<1>2. CASE Skip(t) \/ WriteDefault(t) \/ Write(t)
  <2>0. PICK to \in {"hook", "copy"} : Moves(t, "write", to) /\ (to = "copy" <=> Write(t))
    <3>1. ~(Write(t) /\ (Skip(t) \/ WriteDefault(t)))
      BY DEF Write, MustWrite, Skip, WriteDefault
    <3> QED BY <1>2, <3>1, SetMoves
  <2>1. PICK n \in Names, v \in Values :
          task[t] = At("write", n, v) /\ task' = [task EXCEPT ![t] = At(to, n, v)]
    BY <2>0 DEF Moves
  <2>2. task[t].name = n /\ task[t].value = v
    BY <2>1 DEF At
  <2>3. UNCHANGED current /\ UNCHANGED history
    BY <1>2 DEF Skip, WriteDefault, Write, copies
  <2>4. \A m \in Names \ {n} : stored'[m] = stored[m] /\ nvs'[m] = nvs[m]
    BY <1>t, <1>2, <2>2 DEF Skip, WriteDefault, Write, EraseCopy, copies
  <2>5. n \notin mixed => current[n] = v /\ Written(t) = v
    BY <2>1, <2>2, Alone DEF Written
  <2>6. ASSUME n \notin mixed, n # "float"
        PROVE  nvs'[n] \in {v, None} /\ (to # "copy" => nvs'[n] \in {stored'[n], None})
    <3>1. nvs[n] \in {stored[n], None}
      <4>1. \A u \in Tasks : ~Doing(u, n, {"copy"})
        BY <2>1, <2>6, Alone
      <4> QED BY <2>6, <4>1 DEF SettingsInv, FlashFollows
    <3>2. CASE Skip(t)
      BY <2>2, <2>5, <2>6, <3>1, <3>2 DEF Skip, copies
    <3>3. CASE WriteDefault(t)
      BY <1>t, <2>2, <3>3 DEF WriteDefault
    <3>4. CASE Write(t)
      BY <1>t, <2>0, <2>2, <2>5, <2>6, <3>4 DEF Write
    <3> QED BY <1>2, <3>2, <3>3, <3>4
  <2>7. SetStep(t, "write", to, n, v)
    BY <2>0, <2>1, <2>3, <2>4, <2>5, <2>6 DEF SetStep
  <2> QED BY <2>7, SetKeeps
<1>3. CASE Copy(t)
  <2>1. PICK n \in Names, v \in Values :
          task[t] = At("copy", n, v) /\ task' = [task EXCEPT ![t] = At("hook", n, v)]
    BY <1>3, SetMoves DEF Moves
  <2>2. /\ stored' = [stored EXCEPT ![n] = Written(t)]
        /\ UNCHANGED <<current, nvs>> /\ UNCHANGED history
    BY <1>3, <2>1 DEF Copy, At
  <2>3. n \notin mixed => current[n] = v /\ Written(t) = v
    <3>1. task[t].name = n /\ task[t].value = v
      BY <2>1 DEF At
    <3> QED BY <2>1, <3>1, Alone DEF Written
  <2>4. n \notin mixed /\ n # "float" => nvs[n] \in {v, None}
    <3>1. SUFFICES ASSUME n \notin mixed, n # "float" PROVE nvs[n] \in {v, None}
      OBVIOUS
    <3>2. Doing(t, n, {"copy", "hook"}) /\ task[t].value = v
      BY <2>1 DEF Doing, At
    <3> QED BY <3>1, <3>2 DEF SettingsInv, FlashFollows
  <2>5. SetStep(t, "copy", "hook", n, v)
    BY <1>t, <2>1, <2>2, <2>3, <2>4 DEF SetStep
  <2> QED BY <2>5, SetKeeps
<1> QED BY <1>1, <1>2, <1>3

\* A set ends with the value in force, or with the value the NVS refused left in
\* force and the flash as it was.
LEMMA EndStep ==
  ASSUME TypeOK, SettingsInv, NEW t \in Tasks, WriteFails(t) \/ Hook(t)
  PROVE  SettingsInv'
<1>1. PICK s \in {"write", "hook"}, n \in Names, v \in Values : task[t] = At(s, n, v)
  <2>1. task[t].step \in {"write", "hook"}
    BY DEF WriteFails, MustWrite, Hook
  <2> QED BY <2>1, SetShape
<1>2. task' = [task EXCEPT ![t] = Idle] /\ UNCHANGED copies /\ UNCHANGED mixed
  BY DEF WriteFails, Hook
<1>t. task \in [Tasks -> Steps] /\ said \in [Names -> Values]
      /\ refused \in [Names -> Values \cup {None}]
  BY DEF TypeOK, Marks
<1>3. \A u \in Tasks \ {t} : task'[u] = task[u]
  BY <1>2, <1>t
<1>4. \A m \in Names : \A S \in SUBSET {"write", "copy", "hook"} : ~On(t, m)' /\ ~Doing(t, m, S)'
  BY <1>2, <1>t DEF On, Doing, Idle
<1> SUFFICES ASSUME NEW m \in Names \ mixed
             PROVE  (OneTask(m) /\ ForceFollows(m) /\ (m # "float" => FlashFollows(m)))'
  BY <1>2 DEF SettingsInv
<1>5. CASE m # n
  <2>1. said'[m] = said[m] /\ refused'[m] = refused[m]
    <3>1. task[t].name = n
      BY <1>1 DEF At
    <3> QED BY <1>t, <1>5, <3>1 DEF WriteFails, Hook
  <2>2. ~Doing(t, m, {"write", "copy", "hook"})
    BY <1>1, <1>5 DEF Doing, At
  <2> QED BY <1>2, <1>3, <1>4, <2>1, <2>2, OthersKeep DEF SettingsInv, copies
<1>6. CASE m = n
  <2>1. \A u \in Tasks : \A S \in SUBSET {"write", "copy", "hook"} : ~Doing(u, n, S)'
    BY <1>1, <1>3, <1>4, <1>6, Alone DEF Doing
  <2>2. \A u \in Tasks : ~On(u, n)'
    <3>1. \A u \in Tasks \ {t} : ~On(u, n)
      BY <1>1, <1>6, Alone
    <3> QED BY <1>3, <1>4, <3>1 DEF On
  <2>3. /\ said'[n] = IF s = "hook" THEN v ELSE said[n]
        /\ refused'[n] = IF s = "hook" THEN None ELSE v
    BY <1>1, <1>t DEF WriteFails, MustWrite, Hook, At
  <2>4. current[n] = v /\ v # None
    BY <1>1, <1>6, Alone, ConstantTypes DEF None
  <2>5. ForceFollows(n)'
    BY <1>2, <2>1, <2>3, <2>4 DEF ForceFollows, LastWord, copies
  <2>6. ASSUME n # "float" PROVE FlashFollows(n)'
    <3>1. FlashFollows(n)
      BY <1>6, <2>6 DEF SettingsInv
    <3>2. nvs[n] \in {stored[n], None}
      <4>1. \A u \in Tasks : ~Doing(u, n, {"copy"})
        BY <1>1, <1>6, Alone
      <4> QED BY <3>1, <4>1 DEF FlashFollows
    <3>3. s = "hook" => nvs[n] \in {v, None}
      <4>1. s = "hook" => Doing(t, n, {"copy", "hook"}) /\ task[t].value = v
        BY <1>1 DEF Doing, At
      <4> QED BY <3>1, <4>1 DEF FlashFollows
    <3>4. s = "write" => nvs[n] \in {said[n], None}
      <4>1. s = "write" => \A u \in Tasks : ~Doing(u, n, {"copy", "hook"})
        BY <1>1, <1>6, Alone
      <4> QED BY <3>1, <4>1 DEF FlashFollows
    <3> QED BY <1>2, <2>1, <2>3, <3>2, <3>3, <3>4 DEF FlashFollows, copies
  <2> QED BY <1>6, <2>2, <2>5, <2>6 DEF OneTask
<1> QED BY <1>5, <1>6

\* A command that starts on a setting somebody else is on mixes it; the others are
\* as they were.
LEMMA BeginStep ==
  ASSUME TypeOK, SettingsInv, NEW t \in Tasks,
         BeginRestore(t, Names) \/ \E n \in Names, v \in Values : Begin(t, n, v)
  PROVE  SettingsInv'
<1>1. task[t] = Idle /\ UNCHANGED <<copies, said, refused>> /\ mixed \subseteq mixed'
  BY DEF BeginRestore, Begin, Asks
<1>2. \A u \in Tasks \ {t} : task'[u] = task[u]
  BY DEF BeginRestore, Begin, TypeOK
<1>3. \A m \in Names : \A S \in SUBSET {"write", "copy", "hook"} : ~On(t, m) /\ ~Doing(t, m, S)
  BY <1>1 DEF On, Doing, Idle
<1>4. \A m \in Names : \A S \in SUBSET {"write", "copy", "hook"} : ~Doing(t, m, S)'
  BY DEF BeginRestore, Begin, TypeOK, Doing, At, Restoring
<1>5. \A m \in Names \ mixed' : On(t, m)' => \A u \in Tasks : ~On(u, m)
  <2>1. ASSUME NEW n \in Names, NEW v \in Values, Begin(t, n, v), NEW m \in Names \ mixed', On(t, m)'
        PROVE  \A u \in Tasks : ~On(u, m)
    <3>1. m = n
      BY <2>1 DEF Begin, TypeOK, On, At
    <3> QED BY <2>1, <3>1 DEF Begin, Busy
  <2>2. ASSUME BeginRestore(t, Names), NEW m \in Names \ mixed'
        PROVE  \A u \in Tasks : ~On(u, m)
    BY <2>2 DEF BeginRestore, Busy
  <2> QED BY <2>1, <2>2
<1> SUFFICES ASSUME NEW m \in Names \ mixed'
             PROVE  (OneTask(m) /\ ForceFollows(m) /\ (m # "float" => FlashFollows(m)))'
  BY DEF SettingsInv
<1>6. OneTask(m) /\ ForceFollows(m) /\ (m # "float" => FlashFollows(m))
  BY <1>1 DEF SettingsInv
<1>7. \A u \in Tasks \ {t} : On(u, m)' <=> On(u, m)
  BY <1>2 DEF On
<1>8. OneTask(m)'
  BY <1>5, <1>6, <1>7 DEF OneTask
<1>9. \A u \in Tasks : \A S \in SUBSET {"write", "copy", "hook"} :
        /\ Doing(u, m, S)' <=> Doing(u, m, S)
        /\ Doing(u, m, S) => task'[u].value = task[u].value
  BY <1>2, <1>3, <1>4 DEF Doing
<1>10. ForceFollows(m)'
  BY <1>1, <1>6, <1>9 DEF ForceFollows, LastWord, copies
<1>11. m # "float" => FlashFollows(m)'
  BY <1>1, <1>6, <1>9 DEF FlashFollows, copies
<1> QED BY <1>8, <1>10, <1>11

\* A restore leaves each setting with the default in force, and its entry erased
\* but where the copy says the flash holds the default.
LEMMA RestoreStep ==
  ASSUME TypeOK, SettingsInv, NEW t \in Tasks,
         EndRestore(t) \/ \E n \in Names : SetDefault(t, n)
  PROVE  SettingsInv'
<1>t. /\ task \in [Tasks -> Steps] /\ Default # None
      /\ current \in [Names -> Values] /\ said \in [Names -> Values]
      /\ nvs \in [Names -> Values \cup {None}] /\ refused \in [Names -> Values \cup {None}]
  BY ConstantTypes DEF TypeOK, Marks, None
<1>1. CASE EndRestore(t)
  <2>1. \A m \in Names : ~On(t, m)' /\ ~Doing(t, m, {"write", "copy", "hook"})
                           /\ ~Doing(t, m, {"write", "copy", "hook"})'
    BY <1>t, <1>1 DEF EndRestore, On, Doing, Idle, Restoring
  <2>2. \A u \in Tasks \ {t} : task'[u] = task[u]
    BY <1>t, <1>1 DEF EndRestore
  <2>3. UNCHANGED copies /\ UNCHANGED history
    BY <1>1 DEF EndRestore
  <2> SUFFICES ASSUME NEW m \in Names \ mixed
               PROVE  (OneTask(m) /\ ForceFollows(m) /\ (m # "float" => FlashFollows(m)))'
    BY <2>3 DEF SettingsInv, history
  <2>4. /\ OneTask(m) => OneTask(m)'
        /\ ForceFollows(m) => ForceFollows(m)'
        /\ FlashFollows(m) => FlashFollows(m)'
    BY <2>1, <2>2, <2>3, OthersKeep DEF copies, history
  <2> QED BY <2>4 DEF SettingsInv
<1>2. ASSUME NEW n \in Names, SetDefault(t, n) PROVE SettingsInv'
  <2>1. PICK left \in SUBSET Names : task[t] = Restoring(left)
    BY <1>2, RestoreShape DEF SetDefault
  <2>2. n \in left
    BY <1>2, <2>1 DEF SetDefault, Restoring
  <2>3. task'[t] = Restoring(left \ {n})
    <3>1. task'[t] = [task[t] EXCEPT !.left = @ \ {n}]
      BY <1>t, <1>2 DEF SetDefault
    <3> QED BY <2>1, <3>1, NextLeft
  <2>4. \A u \in Tasks \ {t} : task'[u] = task[u]
    BY <1>t, <1>2 DEF SetDefault
  <2>5. UNCHANGED stored /\ UNCHANGED mixed
    BY <1>2 DEF SetDefault
  <2>6. \A m \in Names : \A S \in SUBSET {"write", "copy", "hook"} :
          ~Doing(t, m, S) /\ ~Doing(t, m, S)' /\ (On(t, m)' => On(t, m))
    BY <2>1, <2>3 DEF Doing, On, Restoring
  <2> SUFFICES ASSUME NEW m \in Names \ mixed
               PROVE  (OneTask(m) /\ ForceFollows(m) /\ (m # "float" => FlashFollows(m)))'
    BY <2>5 DEF SettingsInv
  <2>7. OneTask(m) /\ ForceFollows(m) /\ (m # "float" => FlashFollows(m))
    BY DEF SettingsInv
  <2>8. CASE m # n
    <3>1. /\ current'[m] = current[m] /\ stored'[m] = stored[m] /\ nvs'[m] = nvs[m]
          /\ said'[m] = said[m] /\ refused'[m] = refused[m]
      BY <1>t, <1>2, <2>8 DEF SetDefault
    <3> QED BY <2>4, <2>6, <2>7, <3>1, OthersKeep
  <2>9. CASE m = n
    <3>1. On(t, n)
      BY <2>1, <2>2 DEF On, Restoring
    <3>2. \A u \in Tasks \ {t} : ~On(u, n)
      BY <2>7, <2>9, <3>1 DEF OneTask
    <3>3. \A u \in Tasks : \A S \in SUBSET {"write", "copy", "hook"} : ~Doing(u, n, S) /\ ~Doing(u, n, S)'
      BY <2>4, <2>6, <3>2 DEF Doing, On
    <3>4. \A u \in Tasks \ {t} : ~On(u, n)'
      BY <2>4, <3>2 DEF On
    <3>5. OneTask(n)'
      BY <3>4 DEF OneTask
    <3>6. current'[n] = Default /\ said'[n] = Default /\ refused'[n] = None
      BY <1>t, <1>2 DEF SetDefault
    <3>7. ForceFollows(n)'
      BY <3>3, <3>6 DEF ForceFollows, LastWord
    <3>8. nvs'[n] = IF stored[n] # Default THEN None ELSE nvs[n]
      BY <1>t, <1>2 DEF SetDefault
    <3>9. ASSUME n # "float" PROVE FlashFollows(n)'
      <4>1. nvs[n] \in {stored[n], None}
        BY <2>7, <2>9, <3>3, <3>9 DEF FlashFollows
      <4>2. nvs'[n] \in {said'[n], None} /\ nvs'[n] \in {stored'[n], None}
        BY <2>5, <3>6, <3>8, <4>1
      <4> QED BY <3>3, <4>2 DEF FlashFollows
    <3> QED BY <2>9, <3>5, <3>7, <3>9
  <2> QED BY <2>8, <2>9
<1> QED BY <1>1, <1>2

\* A step of a task keeps the invariant.
LEMMA TaskStep ==
  ASSUME TypeOK, SettingsInv, NEW t \in Tasks, Set(t) \/ Others(t)
  PROVE  SettingsInv'
<1>1. ASSUME EraseNVS(t) PROVE SettingsInv'
  <2>1. UNCHANGED <<current, stored, task>> /\ UNCHANGED history
    BY <1>1 DEF EraseNVS
  <2>2. \A m \in Names : nvs'[m] = None
    BY <1>1 DEF EraseNVS
  <2> QED BY <2>1, <2>2
          DEF SettingsInv, OneTask, ForceFollows, FlashFollows, LastWord, Doing, On, history
<1>2. ASSUME NEW c \in {Zero, Offset}, SetCoordinates(t, c) PROVE SettingsInv'
  <2>1. UNCHANGED copies /\ UNCHANGED task /\ UNCHANGED history
    BY <1>2 DEF SetCoordinates
  <2> QED BY <2>1
          DEF SettingsInv, OneTask, ForceFollows, FlashFollows, LastWord, Doing, On, history, copies
<1> QED BY <1>1, <1>2, ValueStep, EndStep, BeginStep, RestoreStep DEF Set, Others

\* A power cycle loads the copies from the flash, and nobody is in a command.
LEMMA RestartStep ==
  ASSUME TypeOK, Restart
  PROVE  SettingsInv'
<1>1. \A u \in Tasks : task'[u].step = "idle"
  BY DEF Restart, Idle
<1>2. /\ \A n \in Names : current'[n] = Loaded(n) /\ said'[n] = Loaded(n)
                                /\ refused'[n] = None /\ nvs'[n] = nvs[n]
      /\ \A n \in Names : stored'[n] \in StoredMarks(n)
  BY DEF Restart
<1> SUFFICES ASSUME NEW n \in Names
             PROVE  (OneTask(n) /\ ForceFollows(n) /\ (n # "float" => FlashFollows(n)))'
  BY DEF SettingsInv
<1>3. OneTask(n)'
  BY <1>1 DEF OneTask, On
<1>4. ForceFollows(n)'
  BY <1>1, <1>2 DEF ForceFollows, LastWord, Doing
<1>5. ASSUME n # "float" PROVE FlashFollows(n)'
  <2>1. nvs'[n] \in {said'[n], None}
    BY <1>2 DEF Loaded
  <2>2. nvs'[n] \in {stored'[n], None}
    BY <1>2, <1>5 DEF Loaded, StoredMarks
  <2> QED BY <1>1, <2>1, <2>2 DEF FlashFollows, Doing
<1> QED BY <1>3, <1>4, <1>5

\* Every step keeps the invariant.
LEMMA SettingsStep == TypeOK /\ SettingsInv /\ [Next]_vars => SettingsInv'
<1> SUFFICES ASSUME TypeOK, SettingsInv, [Next]_vars PROVE SettingsInv'
  OBVIOUS
<1>1. ASSUME NEW m \in {"Idle", "Cycle", "Alarm"}, Machine(m) PROVE SettingsInv'
  <2>1. UNCHANGED copies /\ UNCHANGED task /\ UNCHANGED history
    BY <1>1 DEF Machine
  <2> QED BY <2>1
          DEF SettingsInv, OneTask, ForceFollows, FlashFollows, LastWord, Doing, On, history, copies
<1>2. CASE UNCHANGED vars
  <2>1. UNCHANGED copies /\ UNCHANGED task /\ UNCHANGED history
    BY <1>2 DEF vars
  <2> QED BY <2>1
          DEF SettingsInv, OneTask, ForceFollows, FlashFollows, LastWord, Doing, On, history, copies
<1> QED BY <1>1, <1>2, TaskStep, RestartStep DEF Next

\* While nobody is in a command on a setting, no task is at a step of one.
LEMMA SettledQuiet ==
  ASSUME NEW n, Settled(n)
  PROVE  /\ n \notin mixed
         /\ \A t \in Tasks : \A S \in SUBSET {"write", "copy", "hook"} : ~Doing(t, n, S)
BY DEF Settled, Busy, On, Doing

-----------------------------------------------------------------------------
\* Settings.cpp, ProcessSettings.cpp: the copies of every setting hold values in
\* range or the mark of no entry, and every task is at a step of a command.
THEOREM TypeCorrect == Spec => []TypeOK
<1> QED BY InitType, TypeStep, PTL DEF Spec

\* The flash and the value in force follow every command on a setting that no two
\* tasks changed at once.
THEOREM CopiesFollow == Spec => []SettingsInv
<1> QED BY InitSettings, SettingsStep, TypeCorrect, PTL DEF Spec

\* Settings.cpp:114-146 and its likes: over failing writes, restores, erases and power
\* cycles, an old value never comes back: the flash holds the value last answered
\* ok, or nothing.
THEOREM OldValueGone == Spec => []NoOldValue
<1>1. SettingsInv => NoOldValue
  <2> SUFFICES ASSUME SettingsInv, NEW n \in Names \ {"float"}, Settled(n)
               PROVE  nvs[n] \in {said[n], None}
    BY DEF NoOldValue, NoOldValueOf
  <2> QED BY SettledQuiet DEF SettingsInv, FlashFollows
<1> QED BY <1>1, CopiesFollow, PTL

\* Settings.cpp:114-146, 103-112: the value in force is the one last answered ok,
\* or the one a failing write of the NVS left in force.
THEOREM AnsweredInForce == Spec => []InForce
<1>1. SettingsInv => InForce
  <2> SUFFICES ASSUME SettingsInv, NEW n \in Names, Settled(n)
               PROVE  current[n] = LastWord(n)
    BY DEF InForce, LastWord
  <2> QED BY SettledQuiet DEF SettingsInv, ForceFollows
<1> QED BY <1>1, CopiesFollow, PTL

=============================================================================
