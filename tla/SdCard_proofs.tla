---------------------------- MODULE SdCard_proofs ----------------------------
(***************************************************************************)
(* Where the lines come from.  Proofs about SdCard, for files of any       *)
(* length and any number of lines, web requests, parts of an upload and    *)
(* resets; and about Clients, for any number of clients, rings and lines   *)
(* of any size and any number of characters and resets.                    *)
(***************************************************************************)
EXTENDS SdCard, Clients, SequenceTheorems, TLAPS

\* Where a task can be, and what it is doing there: only the main task has the
\* loop and shows a file, only the web server lists, sends and uploads.
MainPlaces == {"loop", "lines", "refresh", "probe", "reading", "showing", "exec", "answer", "feed"}
WebPlaces == {"idle", "refresh", "probe", "reading", "exec", "answer", "feed", "parsing",
              "sending", "uploading", "page"}
MainWork == {"none", "job", "line"} \cup Commands
WebWork == {"none"} \cup Requests
OnCard == Commands \cup (Requests \ {"uploadFs", "uploadFw"})

MainTask == [at : MainPlaces, doing : MainWork, out : Outcomes]
WebTask == [at : WebPlaces, doing : WebWork, out : Outcomes]

TaskTypes ==
  /\ task \in [Tasks -> MainTask \cup WebTask]
  /\ task["main"] \in MainTask /\ task["web"] \in WebTask
  /\ \A t \in Tasks : task[t].at \in {"refresh", "probe"} => task[t].doing \in OnCard

FileTypes ==
  /\ file \in [open : BOOLEAN, left : Nat, no : Nat]
  /\ file.no + file.left <= MaxFile

CardTypes ==
  /\ wifi \in BOOLEAN /\ ready \in BOOLEAN /\ reset \in BOOLEAN
  /\ cut \in BOOLEAN /\ disturbed \in BOOLEAN
  /\ sd \in States

UploadTypes ==
  upload \in [status : {"none", "ongoing", "successful", "failed"}, open : BOOLEAN,
              sent : Nat, written : Nat]

Types == TaskTypes /\ FileTypes /\ CardTypes /\ UploadTypes

\* The card is said to print exactly while a job is open, unless another has set it.
Undisturbed == ~disturbed => (file.open <=> sd = "Printing")

\* Without web requests the main task has the card for itself but for a reset: what
\* it probes for is not open, and what it reads is open or thrown away.
MainAlone ==
  ~wifi =>
    /\ task["web"].at = "idle"
    /\ ~disturbed /\ ~cut
    /\ task["main"].at = "probe" => ~file.open
    /\ task["main"].at = "reading" /\ ~file.open => reset

\* Until a part fails, every part of an upload was written.
PartsWritten == upload.status \in {"ongoing", "successful"} => upload.written = upload.sent

CardInv == Undisturbed /\ MainAlone

-----------------------------------------------------------------------------
\* The bounds are numbers.
LEMMA Bounds == MaxFile \in Nat /\ MaxLines \in Nat /\ MaxRequests \in Nat /\ MaxParts \in Nat
BY SdCardAssumption DEF SdCardAssumption

\* The initial state has its types.
LEMMA InitTypes == Init => Types
<1> SUFFICES ASSUME Init PROVE Types
  OBVIOUS
<1>1. TaskTypes
  BY DEF Init, Tasks, Rest, TaskTypes, MainTask, WebTask, MainPlaces, WebPlaces, MainWork, WebWork,
         Outcomes, Commands, Requests
<1>2. FileTypes
  BY Bounds DEF Init, NoFile, FileTypes
<1>3. CardTypes
  BY DEF Init, CardTypes, States
<1>4. UploadTypes
  BY DEF Init, NoUpload, UploadTypes
<1> QED BY <1>1, <1>2, <1>3, <1>4 DEF Types

\* Closing the file keeps its bounds and leaves the card idle or as it was.
LEMMA CloseTypes ==
  ASSUME FileTypes, sd \in States, ready \in BOOLEAN, CloseFile
  PROVE  FileTypes' /\ sd' \in States /\ ready' \in BOOLEAN
<1>1. CASE file.open
  <2>1. file' = [open |-> FALSE, left |-> file.left, no |-> 0] /\ sd' = "Idle" /\ ready' = FALSE
    BY <1>1 DEF CloseFile, NoFile
  <2>2. file.left \in Nat /\ file.no \in Nat /\ file.no + file.left <= MaxFile
    BY DEF FileTypes
  <2>3. file' \in [open : BOOLEAN, left : Nat, no : Nat] /\ file'.no = 0 /\ file'.left = file.left
    BY <2>1, <2>2
  <2>4. FileTypes'
    BY <2>2, <2>3, Bounds DEF FileTypes
  <2> QED BY <2>1, <2>4 DEF States
<1>2. CASE ~file.open
  BY <1>2 DEF CloseFile, FileTypes
<1> QED BY <1>1, <1>2

\* A task that only goes on to another of its places keeps its types.
LEMMA GotoTypes ==
  ASSUME TaskTypes, NEW t \in Tasks, NEW p, Goto(t, p),
         t = "main" => p \in MainPlaces, t = "web" => p \in WebPlaces,
         p \in {"refresh", "probe"} => task[t].doing \in OnCard
  PROVE  TaskTypes'
BY DEF Goto, TaskTypes, Tasks, MainTask, WebTask

\* A task that takes up something else keeps its types.
LEMMA TurnTypes ==
  ASSUME TaskTypes, NEW t \in Tasks, NEW r, task' = [task EXCEPT ![t] = r],
         t = "main" => r \in MainTask, t = "web" => r \in WebTask,
         r.at \in {"refresh", "probe"} => r.doing \in OnCard
  PROVE  TaskTypes'
BY DEF TaskTypes, Tasks

\* The record a task has at the end of a line.
LEMMA AnswerRecords ==
  /\ \A o \in Outcomes : [at |-> "answer", doing |-> "line", out |-> o] \in MainTask
  /\ Rest \in WebTask
BY DEF MainTask, WebTask, MainPlaces, WebPlaces, MainWork, WebWork, Outcomes, Rest

\* After an answer every task is at a place of its own.
LEMMA AnsweredTypes ==
  ASSUME TaskTypes, NEW t \in Tasks, Answered(t)
  PROVE  TaskTypes'
<1>1. CASE t = "web"
  <2>1. task' = [task EXCEPT ![t] = Rest] /\ Rest.at = "idle"
    BY <1>1 DEF Answered, Rest
  <2> QED BY <1>1, <2>1, AnswerRecords, TurnTypes
<1>2. CASE t = "main" /\ Doing(t, {"run"})
  <2> DEFINE r == [at |-> "answer", doing |-> "line", out |-> "ok"]
  <2>1. task' = [task EXCEPT ![t] = r] /\ r.at = "answer"
    BY <1>2 DEF Answered
  <2>2. r \in MainTask
    BY AnswerRecords DEF Outcomes
  <2> HIDE DEF r
  <2> QED BY <1>2, <2>1, <2>2, TurnTypes
<1>3. CASE t = "main" /\ ~Doing(t, {"run"})
  <2>1. Goto(t, "lines")
    BY <1>3 DEF Answered, Goto
  <2> QED BY <1>3, <2>1, GotoTypes DEF MainPlaces
<1> QED BY <1>1, <1>2, <1>3 DEF Tasks

\* The steps of the input task that are not about the card keep the types.
LEMMA InputTypes ==
  ASSUME Types, Arrive \/ Reset \/ \E d \in Requests : Request(d)
  PROVE  Types'
<1> USE DEF Types
<1>1. CASE Arrive
  BY <1>1 DEF Arrive, TaskTypes, FileTypes, CardTypes, UploadTypes
<1>2. CASE Reset
  <2>1. TaskTypes' /\ UploadTypes'
    BY <1>2 DEF Reset, TaskTypes, UploadTypes
  <2>2. FileTypes' /\ sd' \in States /\ ready' \in BOOLEAN
    BY <1>2, CloseTypes DEF Reset, CardTypes, FileTypes
  <2> QED BY <1>2, <2>1, <2>2 DEF Reset, CardTypes
<1>3. ASSUME NEW d \in Requests, Request(d) PROVE Types'
  <2>1. PICK p \in {"uploading", "refresh"} :
          /\ task' = [task EXCEPT !["web"] = [at |-> p, doing |-> d, out |-> "ok"]]
          /\ p = "refresh" => d \notin {"uploadFs", "uploadFw"}
    BY <1>3 DEF Request
  <2>2. [at |-> p, doing |-> d, out |-> "ok"] \in WebTask
    BY DEF WebTask, WebPlaces, WebWork, Outcomes
  <2>3. TaskTypes'
    BY <2>1, <2>2, TurnTypes DEF Tasks, OnCard
  <2>4. UploadTypes'
    <3>1. NoUpload \in [status : {"none", "ongoing", "successful", "failed"}, open : BOOLEAN,
                         sent : Nat, written : Nat]
      BY DEF NoUpload
    <3>2. CASE d \in {"uploadFs", "uploadFw"}
      <4>1. PICK s \in {"ongoing", "failed"} :
              upload' = [NoUpload EXCEPT !.status = s, !.open = s = "ongoing"]
        BY <1>3, <3>2 DEF Request
      <4> QED BY <3>1, <4>1 DEF UploadTypes
    <3>3. CASE d = "uploadSd"
      BY <1>3, <3>1, <3>3 DEF Request, UploadTypes
    <3>4. CASE d \notin {"uploadFs", "uploadFw", "uploadSd"}
      BY <1>3, <3>4 DEF Request, UploadTypes
    <3> QED BY <3>2, <3>3, <3>4
  <2> QED BY <1>3, <2>3, <2>4 DEF Request, FileTypes, CardTypes
<1> QED BY <1>1, <1>2, <1>3

\* The steps on sd_state keep the types.
LEMMA ProbeTypes ==
  ASSUME Types, NEW t \in Tasks, Card(t)
  PROVE  Types'
<1> USE DEF Types
<1>1. CASE Refresh(t)
  <2>1. TaskTypes'
    BY <1>1, GotoTypes DEF Refresh, At, Tasks, MainPlaces, WebPlaces, TaskTypes
  <2> QED BY <1>1, <2>1 DEF Refresh, CardTypes, FileTypes, UploadTypes, States
<1>2. CASE Open(t)
  <2>1. TaskTypes'
    <3>1. Doing(t, {"run"}) => Goto(t, "reading")
      BY <1>2 DEF Open
    <3>2. ~Doing(t, {"run"}) => Goto(t, "showing") /\ t = "main"
      BY <1>2 DEF Open, Doing, TaskTypes, WebTask, WebWork, Requests, Tasks
    <3> QED BY <3>1, <3>2, GotoTypes DEF Tasks, MainPlaces, WebPlaces
  <2>2. FileTypes'
    BY <1>2, Bounds DEF Open, FileTypes
  <2>3. disturbed' \in BOOLEAN
    BY <1>2 DEF Open, FileTypes
  <2> QED BY <1>2, <2>1, <2>2, <2>3 DEF Open, CardTypes, UploadTypes, States
<1>3. CASE Take(t)
  <2>0. task[t].doing \in {"list", "delete", "listing", "download", "uploadSd"}
    BY <1>3 DEF Take, At, Doing, TaskTypes, OnCard, Commands, Requests
  <2>1. CASE task[t].doing \in {"list", "delete"}
    <3>1. SetByOther("Idle") /\ UNCHANGED upload /\ \E o \in {"ok", "error"} : Answering(t, o)
      BY <1>3, <2>1 DEF Take, Doing
    <3>2. PICK o \in Outcomes : Answering(t, o)
      BY <3>1 DEF Outcomes
    <3>3. TaskTypes'
      <4> DEFINE r == [at |-> "answer", doing |-> "line", out |-> o]
      <4>1. task' = [task EXCEPT ![t] = r] /\ r.at = "answer" /\ r \in MainTask
        BY <3>2, AnswerRecords DEF Answering
      <4>2. t = "main"
        BY <2>1 DEF TaskTypes, WebTask, WebWork, Requests, Tasks
      <4> HIDE DEF r
      <4> QED BY <4>1, <4>2, TurnTypes
    <3> QED BY <1>3, <3>1, <3>3 DEF Take, SetByOther, CardTypes, FileTypes, UploadTypes, States
  <2>2. CASE task[t].doing \in {"listing", "download", "uploadSd"}
    <3>1. t = "web"
      BY <2>2 DEF TaskTypes, MainTask, MainWork, Commands, Tasks
    <3>2. PICK s \in {"Parsing", "Uploading"}, p \in {"parsing", "sending", "uploading"} :
            SetByOther(s) /\ Goto(t, p)
      BY <1>3, <2>2 DEF Take, Doing
    <3>3. TaskTypes'
      BY <3>1, <3>2, GotoTypes DEF WebPlaces
    <3>4. UploadTypes'
      BY <1>3, <2>2 DEF Take, Doing, UploadTypes
    <3> QED BY <1>3, <3>2, <3>3, <3>4 DEF Take, SetByOther, CardTypes, FileTypes, States
  <2> QED BY <2>0, <2>1, <2>2
<1>4. CASE Refused(t)
  <2>1. TaskTypes'
    <3>1. CASE t = "main"
      <4> DEFINE r == [at |-> "answer", doing |-> "line", out |-> "error"]
      <4>1. task' = [task EXCEPT ![t] = r] /\ r.at = "answer" /\ r \in MainTask
        BY <1>4, <3>1, AnswerRecords DEF Refused, Answering, Outcomes
      <4> HIDE DEF r
      <4> QED BY <3>1, <4>1, TurnTypes
    <3>2. CASE t = "web"
      <4>1. PICK p \in {"uploading", "sending", "idle"} : Goto(t, p)
        BY <1>4, <3>2 DEF Refused
      <4> QED BY <3>2, <4>1, GotoTypes DEF WebPlaces
    <3> QED BY <3>1, <3>2 DEF Tasks
  <2>2. sd' \in States /\ disturbed' \in BOOLEAN
    BY <1>4 DEF Refused, CardTypes, States, FileTypes
  <2>3. UploadTypes'
    BY <1>4 DEF Refused, UploadTypes
  <2> QED BY <1>4, <2>1, <2>2, <2>3 DEF Refused, CardTypes, FileTypes
<1> QED BY <1>1, <1>2, <1>3, <1>4 DEF Card

\* The steps of an upload, of a page and a restart keep the types.
LEMMA WebTypes ==
  ASSUME Types, GiveBack \/ Part \/ UploadEnds \/ UploadAborted \/ Page \/ Restart
  PROVE  Types'
<1> USE DEF Types
<1>s. ASSUME NEW s \in {"Idle"}, SetByOther(s) PROVE sd' \in States /\ disturbed' \in BOOLEAN
  BY <1>s DEF SetByOther, States, CardTypes, FileTypes
<1>1. CASE GiveBack
  <2>1. TaskTypes'
    BY <1>1, GotoTypes DEF GiveBack, WebPlaces, Tasks
  <2> QED BY <1>1, <1>s, <2>1 DEF GiveBack, CardTypes, FileTypes, UploadTypes
<1>2. CASE Part
  <2>1. UploadTypes'
    <3>1. upload.sent \in Nat /\ upload.written \in Nat
      BY DEF UploadTypes
    <3>2. CASE upload' = [upload EXCEPT !.sent = @ + 1, !.written = @ + 1]
      <4>1. upload' = [status |-> upload.status, open |-> upload.open, sent |-> upload.sent + 1,
                       written |-> upload.written + 1]
        BY <3>2 DEF UploadTypes
      <4> QED BY <3>1, <4>1 DEF UploadTypes
    <3>3. CASE upload' = [upload EXCEPT !.status = "failed", !.open = FALSE, !.sent = @ + 1]
      <4>1. upload' = [status |-> "failed", open |-> FALSE, sent |-> upload.sent + 1,
                       written |-> upload.written]
        BY <3>3 DEF UploadTypes
      <4> QED BY <3>1, <4>1 DEF UploadTypes
    <3> QED BY <1>2, <3>2, <3>3 DEF Part
  <2>2. sd' \in States /\ disturbed' \in BOOLEAN
    BY <1>2, <1>s DEF Part, CardTypes
  <2> QED BY <1>2, <2>1, <2>2 DEF Part, TaskTypes, CardTypes, FileTypes
<1>3. CASE UploadEnds \/ UploadAborted
  <2>1. PICK p \in {"page", "idle"} : Goto("web", p)
    BY <1>3 DEF UploadEnds, UploadAborted
  <2>2. TaskTypes'
    BY <2>1, GotoTypes DEF WebPlaces, Tasks
  <2>3. UploadTypes'
    BY <1>3 DEF UploadEnds, UploadAborted, Failed, UploadTypes
  <2>4. sd' \in States /\ disturbed' \in BOOLEAN
    BY <1>3, <1>s DEF UploadEnds, UploadAborted, Failed, CardTypes
  <2> QED BY <1>3, <2>2, <2>3, <2>4 DEF UploadEnds, UploadAborted, CardTypes, FileTypes
<1>4. CASE Page
  <2> DEFINE r == IF Doing("web", {"uploadSd"}) THEN [at |-> "refresh", doing |-> "listing", out |-> "ok"]
                  ELSE Rest
  <2>1. task' = [task EXCEPT !["web"] = r]
    BY <1>4 DEF Page
  <2>2. r \in WebTask /\ (r.at \in {"refresh", "probe"} => r.doing \in OnCard)
    BY DEF WebTask, WebPlaces, WebWork, Requests, Outcomes, OnCard, Rest
  <2> HIDE DEF r
  <2>3. TaskTypes'
    BY <2>1, <2>2, TurnTypes DEF Tasks
  <2>4. UploadTypes'
    BY <1>4 DEF Page, UploadTypes, NoUpload
  <2> QED BY <1>4, <2>3, <2>4 DEF Page, CardTypes, FileTypes
<1>5. CASE Restart
  <2>1. TaskTypes'
    BY <1>5 DEF Restart, Tasks, Rest, TaskTypes, MainTask, WebTask, MainPlaces, WebPlaces, MainWork,
                WebWork, Outcomes, Commands, Requests
  <2>2. FileTypes'
    BY <1>5, Bounds DEF Restart, NoFile, FileTypes
  <2>3. UploadTypes'
    BY <1>5 DEF Restart, UploadTypes, NoUpload
  <2> QED BY <1>5, <2>1, <2>2, <2>3 DEF Restart, CardTypes, States
<1> QED BY <1>1, <1>2, <1>3, <1>4, <1>5

\* The steps of a job keep the types.
LEMMA JobTypes ==
  ASSUME Types, NEW t \in Tasks, Job(t)
  PROVE  Types'
<1> USE DEF Types
<1>1. CASE ReadLine(t)
  <2>1. TaskTypes'
    BY <1>1, GotoTypes DEF ReadLine, MainPlaces, WebPlaces
  <2>2. FileTypes'
    <3>1. CASE file.open /\ file.left > 0 /\ file' = [file EXCEPT !.left = @ - 1, !.no = @ + 1]
      <4>1. file.left \in Nat /\ file.no \in Nat /\ file.no + file.left <= MaxFile
        BY DEF FileTypes
      <4>2. file'.left = file.left - 1 /\ file'.no = file.no + 1
        BY <3>1 DEF FileTypes
      <4>3. file' \in [open : BOOLEAN, left : Nat, no : Nat]
        <5>1. file' = [open |-> file.open, left |-> file.left - 1, no |-> file.no + 1]
          BY <3>1 DEF FileTypes
        <5>2. file.left - 1 \in Nat /\ file.no + 1 \in Nat /\ file.open \in BOOLEAN
          BY <3>1, <4>1 DEF FileTypes
        <5> QED BY <5>1, <5>2
      <4> QED BY <4>1, <4>2, <4>3, Bounds DEF FileTypes
    <3>2. CASE UNCHANGED file
      BY <3>2 DEF FileTypes
    <3> QED BY <1>1, <3>1, <3>2 DEF ReadLine
  <2>3. cut' \in BOOLEAN
    BY <1>1 DEF ReadLine, CardTypes
  <2> QED BY <1>1, <2>1, <2>2, <2>3 DEF ReadLine, CardTypes, UploadTypes
<1>2. CASE LastLine(t)
  <2>1. TaskTypes'
    <3>1. CASE Doing(t, {"job"})
      <4>1. t = "main"
        BY <3>1 DEF Doing, TaskTypes, WebTask, WebWork, Requests, Tasks
      <4>2. Goto(t, "lines")
        BY <1>2, <3>1 DEF LastLine
      <4> QED BY <4>1, <4>2, GotoTypes DEF MainPlaces
    <3>2. CASE ~Doing(t, {"job"}) /\ t = "main"
      <4> DEFINE r == [at |-> "answer", doing |-> "line", out |-> "ok"]
      <4>1. task' = [task EXCEPT ![t] = r] /\ r.at = "answer" /\ r \in MainTask
        BY <1>2, <3>2, AnswerRecords DEF LastLine, Answering, Outcomes
      <4> HIDE DEF r
      <4> QED BY <3>2, <4>1, TurnTypes
    <3>3. CASE ~Doing(t, {"job"}) /\ t = "web"
      <4>1. Goto(t, "idle")
        BY <1>2, <3>3 DEF LastLine
      <4> QED BY <3>3, <4>1, GotoTypes DEF WebPlaces
    <3> QED BY <3>1, <3>2, <3>3 DEF Tasks
  <2>2. FileTypes' /\ sd' \in States /\ ready' \in BOOLEAN
    BY <1>2, CloseTypes DEF LastLine, CardTypes
  <2> QED BY <1>2, <2>1, <2>2 DEF LastLine, CardTypes, UploadTypes
<1>3. CASE Executed(t)
  <2>1. PICK o \in Outcomes : task' = [task EXCEPT ![t].at = "answer", ![t].out = o]
    BY <1>3 DEF Executed
  <2> DEFINE r == [task[t] EXCEPT !.at = "answer", !.out = o]
  <2>2. task' = [task EXCEPT ![t] = r]
    BY <2>1 DEF TaskTypes
  <2>3. /\ t = "main" => r \in MainTask
        /\ t = "web" => r \in WebTask
        /\ r.at = "answer"
    BY DEF TaskTypes, MainTask, WebTask, MainPlaces, WebPlaces
  <2> HIDE DEF r
  <2>4. TaskTypes'
    BY <2>2, <2>3, TurnTypes
  <2> QED BY <1>3, <2>4 DEF Executed, CardTypes, FileTypes, UploadTypes
<1>4. CASE Answer(t)
  <2>1. TaskTypes'
    BY <1>4, GotoTypes, AnsweredTypes DEF Answer, MainPlaces, WebPlaces
  <2>2. FileTypes' /\ sd' \in States /\ ready' \in BOOLEAN
    BY <1>4, CloseTypes DEF Answer, CardTypes, FileTypes
  <2> QED BY <1>4, <2>1, <2>2 DEF Answer, CardTypes, UploadTypes
<1>5. CASE Feed(t)
  BY <1>5, AnsweredTypes DEF Feed, CardTypes, FileTypes, UploadTypes
<1> QED BY <1>1, <1>2, <1>3, <1>4, <1>5 DEF Job

\* The steps of the main loop keep the types.
LEMMA MainTypes ==
  ASSUME Types, Loop \/ Line \/ EndOfRound \/ Abort \/ Show
  PROVE  Types'
<1> USE DEF Types
<1>1. CASE Loop
  <2> DEFINE r == [task["main"] EXCEPT !.doing = "job",
                                       !.at = IF ready /\ file.open THEN "reading" ELSE "lines"]
  <2>1. task' = [task EXCEPT !["main"] = r]
    BY <1>1 DEF Loop, TaskTypes
  <2>2. r \in MainTask /\ r.at \in {"reading", "lines"}
    BY DEF TaskTypes, MainTask, MainPlaces, MainWork
  <2> HIDE DEF r
  <2>3. TaskTypes'
    BY <2>1, <2>2, TurnTypes DEF Tasks
  <2> QED BY <1>1, <2>3 DEF Loop, CardTypes, FileTypes, UploadTypes
<1>2. CASE Line
  <2>1. PICK d \in Commands \cup {"line"} :
          task' = [task EXCEPT !["main"] = [at |-> IF d = "line" THEN "exec" ELSE "refresh",
                                            doing |-> d, out |-> "ok"]]
    BY <1>2 DEF Line
  <2> DEFINE r == [at |-> IF d = "line" THEN "exec" ELSE "refresh", doing |-> d, out |-> "ok"]
  <2>2. r \in MainTask /\ (r.at \in {"refresh", "probe"} => r.doing \in OnCard)
    BY DEF MainTask, MainPlaces, MainWork, Outcomes, OnCard
  <2>3. task' = [task EXCEPT !["main"] = r]
    BY <2>1
  <2> HIDE DEF r
  <2>4. TaskTypes'
    BY <2>2, <2>3, TurnTypes DEF Tasks
  <2> QED BY <1>2, <2>4 DEF Line, CardTypes, FileTypes, UploadTypes
<1>3. CASE EndOfRound \/ Abort
  <2>1. TaskTypes'
    BY <1>3, GotoTypes DEF EndOfRound, Abort, Tasks, MainPlaces
  <2> QED BY <1>3, <2>1 DEF EndOfRound, Abort, CardTypes, FileTypes, UploadTypes
<1>4. CASE Show
  <2> DEFINE r == [at |-> "answer", doing |-> "line", out |-> "ok"]
  <2>1. task' = [task EXCEPT !["main"] = r] /\ r.at = "answer" /\ r \in MainTask
    BY <1>4, AnswerRecords DEF Show, Answering, Outcomes
  <2> HIDE DEF r
  <2>2. TaskTypes'
    BY <2>1, TurnTypes DEF Tasks
  <2>3. FileTypes' /\ sd' \in States /\ ready' \in BOOLEAN
    BY <1>4, CloseTypes DEF Show, CardTypes
  <2> QED BY <1>4, <2>2, <2>3 DEF Show, CardTypes, UploadTypes
<1> QED BY <1>1, <1>2, <1>3, <1>4

\* Every step keeps the types.
LEMMA TypesStep == Types /\ [Next]_vars => Types'
<1> SUFFICES ASSUME Types, [Next]_vars PROVE Types'
  OBVIOUS
<1>1. CASE UNCHANGED vars
  BY <1>1 DEF vars, Types, TaskTypes, FileTypes, CardTypes, UploadTypes
<1> QED BY <1>1, InputTypes, ProbeTypes, WebTypes, JobTypes, MainTypes
        DEF Next, MainStep, WebStep, Tasks

-----------------------------------------------------------------------------
\* closeFile() closes the open file and makes the card idle, or does nothing.
LEMMA Closed ==
  ASSUME CloseFile, file \in [open : BOOLEAN, left : Nat, no : Nat]
  PROVE  /\ ~file'.open
         /\ file.open => sd' = "Idle"
         /\ ~file.open => sd' = sd
<1>1. CASE file.open
  BY <1>1 DEF CloseFile, NoFile
<1>2. CASE ~file.open
  BY <1>2 DEF CloseFile
<1> QED BY <1>1, <1>2

\* Whoever sets the card without opening a job leaves a trace if a job is open.
LEMMA SetTraced ==
  ASSUME Undisturbed, NEW s, s # "Printing", SetByOther(s), UNCHANGED file
  PROVE  Undisturbed'
BY DEF SetByOther, Undisturbed

\* The state of the card follows the file in every step of the main loop and of the
\* input task that is not about the card.
LEMMA UndisturbedLoop ==
  ASSUME Types, Undisturbed, Loop \/ Line \/ EndOfRound \/ Abort \/ Show \/ Arrive \/ Reset
                             \/ (\E d \in Requests : Request(d))
  PROVE  Undisturbed'
<1> USE DEF Types, FileTypes
<1>1. CASE Show
  BY <1>1, Closed DEF Show, Undisturbed
<1>2. CASE Reset
  <2>1. CASE sd = "Printing"
    BY <1>2, <2>1, Closed DEF Reset, Undisturbed
  <2>2. CASE sd # "Printing"
    BY <1>2, <2>2 DEF Reset, Undisturbed
  <2> QED BY <2>1, <2>2
<1>3. CASE Loop \/ Line \/ EndOfRound \/ Abort \/ Arrive \/ \E d \in Requests : Request(d)
  BY <1>3 DEF Loop, Line, EndOfRound, Abort, Arrive, Request, Undisturbed
<1> QED BY <1>1, <1>2, <1>3

\* It does in what get_sd_state decides.
LEMMA UndisturbedCard ==
  ASSUME Types, Undisturbed, NEW t \in Tasks, Card(t)
  PROVE  Undisturbed'
<1>1. CASE Refresh(t)
  BY <1>1 DEF Refresh, Undisturbed, Busy
<1>2. CASE Open(t)
  BY <1>2 DEF Open, Undisturbed
<1>3. CASE Take(t)
  <2>1. task[t].doing \in {"list", "delete", "listing", "download", "uploadSd"}
    BY <1>3 DEF Take, At, Doing, Types, TaskTypes, OnCard, Commands, Requests
  <2>2. PICK s \in {"Idle", "Parsing", "Uploading"} : SetByOther(s)
    BY <1>3, <2>1 DEF Take, Doing
  <2> QED BY <1>3, <2>2, SetTraced DEF Take
<1>4. CASE Refused(t)
  <2>1. disturbed' = (disturbed \/ (file.open /\ sd' # sd)) /\ file' = file
    BY <1>4 DEF Refused
  <2>2. sd' = sd \/ sd' # "Printing"
    BY <1>4 DEF Refused
  <2> QED BY <2>1, <2>2 DEF Undisturbed
<1> QED BY <1>1, <1>2, <1>3, <1>4 DEF Card

\* It does in the lines of a job.
LEMMA UndisturbedJob ==
  ASSUME Types, Undisturbed, NEW t \in Tasks, Job(t)
  PROVE  Undisturbed'
<1> USE DEF Types, FileTypes
<1>1. CASE ReadLine(t)
  <2>1. file'.open = file.open /\ UNCHANGED <<sd, disturbed>>
    BY <1>1 DEF ReadLine
  <2> QED BY <2>1 DEF Undisturbed
<1>2. CASE LastLine(t)
  BY <1>2, Closed DEF LastLine, Undisturbed
<1>3. CASE Answer(t)
  <2>1. CloseFile \/ UNCHANGED <<sd, file>>
    BY <1>3 DEF Answer
  <2>2. disturbed' = disturbed
    BY <1>3 DEF Answer
  <2> QED BY <2>1, <2>2, Closed DEF Undisturbed
<1>4. CASE Executed(t) \/ Feed(t)
  BY <1>4 DEF Executed, Feed, Undisturbed
<1> QED BY <1>1, <1>2, <1>3, <1>4 DEF Job

\* It does in an upload and in a restart.
LEMMA UndisturbedWeb ==
  ASSUME Types, Undisturbed, GiveBack \/ Part \/ UploadEnds \/ UploadAborted \/ Page \/ Restart
  PROVE  Undisturbed'
<1>1. CASE SetByOther("Idle") /\ UNCHANGED file
  BY <1>1, SetTraced
<1>2. CASE Restart
  BY <1>2 DEF Restart, NoFile, Undisturbed
<1>3. CASE UNCHANGED <<sd, file, disturbed>>
  BY <1>3 DEF Undisturbed
<1> QED BY <1>1, <1>2, <1>3 DEF GiveBack, Part, UploadEnds, UploadAborted, Failed, Page

\* Without web requests the steps of the main task and of a reset keep the card its
\* own: what it found free is free until it takes it.
LEMMA MainAloneStep ==
  ASSUME Types, Undisturbed, MainAlone, [Next]_vars
  PROVE  MainAlone'
<1> USE DEF Types, FileTypes
<1> SUFFICES ASSUME ~wifi', MainAlone PROVE
      /\ task'["web"].at = "idle"
      /\ ~disturbed' /\ ~cut'
      /\ task'["main"].at = "probe" => ~file'.open
      /\ task'["main"].at = "reading" /\ ~file'.open => reset'
  BY DEF MainAlone
<1>0. ~wifi
  BY DEF Next, MainStep, WebStep, Card, Job, vars, Arrive, Reset, Request, Loop, Line, EndOfRound, Abort,
         Show, Refresh, Open, Take, Refused, ReadLine, LastLine, Executed, Answer, Feed, GiveBack, Part,
         UploadEnds, UploadAborted, Page, Restart
<1>a. /\ task["web"].at = "idle" /\ ~disturbed /\ ~cut
      /\ task["main"].at = "probe" => ~file.open
      /\ task["main"].at = "reading" /\ ~file.open => reset
      /\ file.open <=> sd = "Printing"
      /\ task \in [Tasks -> MainTask \cup WebTask] /\ "main" \in Tasks /\ "web" \in Tasks
  BY <1>0 DEF MainAlone, Undisturbed, TaskTypes, Tasks
<1>b. ~WebStep /\ ~(\E d \in Requests : Request(d))
  BY <1>0, <1>a DEF WebStep, Card, Job, Request, Refresh, Open, Take, Refused, ReadLine, LastLine,
              Executed, Answer, Feed, GiveBack, Part, UploadEnds, UploadAborted, Page, Restart, At
<1>c. ASSUME NEW p, Goto("main", p) PROVE task'["web"] = task["web"] /\ task'["main"].at = p
  BY <1>a, <1>c DEF Goto, TaskTypes, MainTask
<1>d. ASSUME NEW r, task' = [task EXCEPT !["main"] = r]
      PROVE  task'["web"] = task["web"] /\ task'["main"] = r
  BY <1>a, <1>d
<1>1. CASE Arrive \/ UNCHANGED vars
  BY <1>1, <1>a DEF Arrive, vars
<1>2. CASE Reset
  BY <1>2, <1>a, Closed DEF Reset
<1>3. CASE Loop
  BY <1>3, <1>a DEF Loop, TaskTypes, MainTask
<1>4. CASE Line
  <2>1. PICK d \in Commands \cup {"line"} :
          task' = [task EXCEPT !["main"] = [at |-> IF d = "line" THEN "exec" ELSE "refresh",
                                            doing |-> d, out |-> "ok"]]
    BY <1>4 DEF Line
  <2> QED BY <1>4, <1>a, <2>1 DEF Line
<1>5. CASE EndOfRound \/ Abort
  BY <1>5, <1>a, <1>c DEF EndOfRound, Abort
<1>6. CASE Show
  BY <1>6, <1>a, Closed DEF Show, Answering
<1>7. CASE Refresh("main")
  BY <1>7, <1>a, <1>c DEF Refresh, Busy
<1>8. CASE Open("main")
  <2>1. task'["web"] = task["web"] /\ task'["main"].at # "probe"
    BY <1>8, <1>c DEF Open
  <2> QED BY <1>8, <1>a, <2>1 DEF Open, At
<1>9. CASE Take("main")
  <2>1. task["main"].doing \in {"list", "delete"}
    BY <1>9 DEF Take, At, Doing, TaskTypes, Tasks, MainTask, MainWork, OnCard, Commands, Requests
  <2>2. SetByOther("Idle") /\ \E o \in {"ok", "error"} : Answering("main", o)
    BY <1>9, <2>1 DEF Take, Doing
  <2>3. task'["web"] = task["web"] /\ task'["main"].at = "answer"
    BY <2>2, <1>a DEF Answering
  <2> QED BY <1>9, <1>a, <2>2, <2>3 DEF Take, At, SetByOther
<1>10. CASE Refused("main")
  <2>1. task["main"].doing \notin {"uploadSd", "download"}
    BY DEF TaskTypes, MainTask, MainWork, Commands, Tasks
  <2>2. Answering("main", "error") /\ UNCHANGED <<file, cut>>
    BY <1>10 DEF Refused
  <2>3. task'["web"] = task["web"] /\ task'["main"].at = "answer"
    BY <2>2, <1>a DEF Answering
  <2>4. ~disturbed'
    BY <1>10, <1>a, <2>1 DEF Refused, At, Doing
  <2> QED BY <1>a, <2>2, <2>3, <2>4
<1>11. CASE ReadLine("main")
  <2>1. task'["web"] = task["web"] /\ task'["main"].at = "exec"
    BY <1>11, <1>c DEF ReadLine
  <2> QED BY <1>11, <1>a, <2>1 DEF ReadLine, At
<1>12. CASE LastLine("main")
  <2>1. task'["web"] = task["web"] /\ task'["main"].at \in {"lines", "answer"}
    BY <1>12, <1>a, <1>c DEF LastLine, Answering
  <2> QED BY <1>12, <1>a, <2>1 DEF LastLine
<1>13. CASE Executed("main")
  <2>1. task'["web"] = task["web"] /\ task'["main"].at = "answer"
    BY <1>13, <1>a DEF Executed, TaskTypes, MainTask
  <2> QED BY <1>13, <1>a, <2>1 DEF Executed
<1>e. ASSUME Answered("main")
      PROVE  task'["web"] = task["web"] /\ task'["main"].at \in {"answer", "lines"}
  BY <1>a, <1>e DEF Answered, TaskTypes, MainTask
<1>14. CASE Answer("main")
  <2>1. task'["web"] = task["web"] /\ task'["main"].at \in {"answer", "lines", "feed"}
    BY <1>14, <1>c, <1>e DEF Answer
  <2> QED BY <1>14, <1>a, <2>1 DEF Answer
<1>15. CASE Feed("main")
  BY <1>15, <1>a, <1>e DEF Feed
<1> QED BY <1>b, <1>1, <1>2, <1>3, <1>4, <1>5, <1>6, <1>7, <1>8, <1>9, <1>10, <1>11, <1>12, <1>13,
           <1>14, <1>15 DEF Next, MainStep, Card, Job

\* The parts of an upload that has not failed are all written.
LEMMA PartsStep == Types /\ PartsWritten /\ [Next]_vars => PartsWritten'
<1> SUFFICES ASSUME Types, PartsWritten, [Next]_vars PROVE PartsWritten'
  OBVIOUS
<1>t. upload \in [status : {"none", "ongoing", "successful", "failed"}, open : BOOLEAN,
                  sent : Nat, written : Nat]
  BY DEF Types, UploadTypes
<1>1. CASE UNCHANGED upload
  BY <1>1 DEF PartsWritten
<1>2. ASSUME NEW d \in Requests, Request(d) PROVE PartsWritten'
  <2>1. CASE d \in {"uploadFs", "uploadFw", "uploadSd"}
    <3>1. upload'.sent = 0 /\ upload'.written = 0
      BY <1>2, <2>1 DEF Request, NoUpload
    <3> QED BY <3>1 DEF PartsWritten
  <2>2. CASE d \notin {"uploadFs", "uploadFw", "uploadSd"}
    BY <1>1, <1>2, <2>2 DEF Request
  <2> QED BY <2>1, <2>2
<1>3. ASSUME NEW t \in Tasks, Take(t) \/ Refused(t) PROVE PartsWritten'
  <2>1. /\ upload'.sent = upload.sent /\ upload'.written = upload.written
        /\ upload'.status \in {upload.status, "failed"}
    <3>1. ASSUME Take(t) PROVE task[t].doing \in {"list", "delete", "listing", "download", "uploadSd"}
      BY <3>1 DEF Take, At, Doing, Types, TaskTypes, OnCard, Commands, Requests
    <3>2. CASE Take(t)
      BY <1>t, <3>1, <3>2 DEF Take, Doing
    <3>3. CASE Refused(t)
      BY <1>t, <3>3 DEF Refused
    <3> QED BY <1>3, <3>2, <3>3
  <2> QED BY <2>1 DEF PartsWritten
<1>4. CASE Part
  <2>1. CASE Accepts /\ upload' = [upload EXCEPT !.sent = @ + 1, !.written = @ + 1]
    BY <1>t, <2>1 DEF Accepts, PartsWritten
  <2>2. CASE upload'.status = "failed"
    BY <2>2 DEF PartsWritten
  <2> QED BY <1>t, <1>4, <2>1, <2>2 DEF Part
<1>5. CASE UploadEnds \/ UploadAborted
  BY <1>t, <1>5 DEF UploadEnds, UploadAborted, Failed, PartsWritten
<1>6. CASE Page \/ Restart
  BY <1>6 DEF Page, Restart, NoUpload, PartsWritten
<1>7. CASE UNCHANGED vars \/ Arrive \/ Reset \/ GiveBack \/ Loop \/ Line \/ EndOfRound \/ Abort \/ Show
  BY <1>1, <1>7 DEF vars, Arrive, Reset, GiveBack, Loop, Line, EndOfRound, Abort, Show
<1>8. ASSUME NEW t \in Tasks, Refresh(t) \/ Open(t) \/ Job(t) PROVE PartsWritten'
  BY <1>1, <1>8 DEF Job, Refresh, Open, ReadLine, LastLine, Executed, Answer, Feed
<1>9. ASSUME NEW t \in Tasks, Card(t) PROVE PartsWritten'
  BY <1>3, <1>8, <1>9 DEF Card
<1> QED BY <1>2, <1>4, <1>5, <1>6, <1>7, <1>8, <1>9 DEF Next, MainStep, WebStep, Tasks

-----------------------------------------------------------------------------
\* SDCard.cpp, WebServer.cpp, Report.cpp: every task is at one of its places, and a
\* file is read within its lines.
THEOREM TypeCorrect == Spec => []TypeOK
<1>1. Types => TypeOK
  <2> SUFFICES ASSUME Types PROVE TypeOK
    OBVIOUS
  <2>1. file.left \in 0 .. MaxFile /\ file.no + file.left \in 0 .. MaxFile
    BY Bounds DEF Types, FileTypes
  <2>2. /\ task.main.doing \in {"none", "job", "line"} \cup Commands
        /\ task.web.doing \in {"none"} \cup Requests
    BY DEF Types, TaskTypes, MainTask, WebTask, MainWork, WebWork
  <2> QED BY <2>1, <2>2 DEF Types, CardTypes, UploadTypes, TypeOK
<1> QED BY <1>1, InitTypes, TypesStep, PTL DEF Spec

\* The types that the proofs of the others rest on.
LEMMA AllTypes == Spec => []Types
<1> QED BY InitTypes, TypesStep, PTL DEF Spec

\* The two parts of the invariant of the card hold together in every state.
LEMMA CardHeld == Spec => []CardInv
<1>1. Init => CardInv
  BY DEF Init, NoFile, Rest, CardInv, Undisturbed, MainAlone
<1>2. Types /\ CardInv /\ [Next]_vars => CardInv'
  <2> SUFFICES ASSUME Types, CardInv, [Next]_vars PROVE CardInv'
    OBVIOUS
  <2>a. Undisturbed /\ MainAlone
    BY DEF CardInv
  <2>1. MainAlone'
    BY <2>a, MainAloneStep
  <2>2. CASE UNCHANGED vars
    BY <2>2, <2>a, <2>1 DEF vars, CardInv, Undisturbed
  <2>3. ASSUME NEW t \in Tasks, Card(t) \/ Job(t) PROVE Undisturbed'
    BY <2>3, <2>a, UndisturbedCard, UndisturbedJob
  <2>4. CASE Next
    <3>1. Undisturbed'
      BY <2>a, <2>3, <2>4, UndisturbedLoop, UndisturbedWeb DEF Next, MainStep, WebStep, Tasks
    <3> QED BY <3>1, <2>1 DEF CardInv
  <2> QED BY <2>2, <2>4
<1> QED BY <1>1, <1>2, AllTypes, PTL DEF Spec

\* SDCard.cpp:66-88, 132-165, WebServer.cpp:1400-1545: sd_state says that a job prints
\* exactly while one is open, unless a web request has set it; in a build without the
\* web server nobody ever does.
THEOREM CardTold == Spec => []JobKnown
<1>1. CardInv => JobKnown
  BY DEF CardInv, Undisturbed, MainAlone, JobKnown
<1> QED BY <1>1, CardHeld, PTL

\* SDCard.cpp:97-119: without web requests, a line whose file was closed under the
\* reader is only ever executed with a reset pending.
THEOREM LinesWhole == Spec => []NothingCut
<1>1. CardInv => NothingCut
  BY DEF CardInv, MainAlone, NothingCut
<1> QED BY <1>1, CardHeld, PTL

\* WebServer.cpp:1008-1024, 1139-1156, 1500-1520: an upload is called successful only if each of its parts was written.
THEOREM UploadsWhole == Spec => []UploadWhole
<1>1. Init => PartsWritten
  BY DEF Init, NoUpload, PartsWritten
<1>2. PartsWritten => UploadWhole
  BY DEF PartsWritten, UploadWhole
<1> QED BY <1>1, <1>2, PartsStep, AllTypes, PTL DEF Spec

-----------------------------------------------------------------------------
(***************************************************************************)
(* The clients.                                                            *)
(***************************************************************************)
\* What a character, a line that was typed, and the ring of a client can be.
Chars == [kind : Kinds \cup {"none"}, num : Nat]
LineSaid == [text : Seq(Nat), whole : BOOLEAN, long : BOOLEAN]
Rings == [buf : [0 .. RXBUFFERSIZE - 1 -> Chars], pos : 0 .. RXBUFFERSIZE - 1,
          size : 0 .. RXBUFFERSIZE]

ClientTasks ==
  /\ input \in [at : {"poll", "test", "locked"}, client : Clients, ch : Chars, size : Nat]
  /\ main \in [at : {"scan", "eol", "round", "begin", "beginPos", "lines"},
               client : Clients, twice : BOOLEAN]
  /\ printing \in BOOLEAN /\ rtReset \in BOOLEAN
  /\ left \in [chars : Nat, resets : Nat]

ClientBuffers ==
  /\ ring \in [Clients -> Rings]
  /\ line \in [Clients -> Seq(Nat)] /\ \A c \in Clients : Len(line[c]) < LINE_BUFFER_SIZE

ClientHistory ==
  /\ typed \in [Clients -> Seq(Nat)] /\ torn \in [Clients -> BOOLEAN]
  /\ want \in [Clients -> Seq(LineSaid)]
  /\ raced \in BOOLEAN /\ ran \in [text : Seq(Nat), want : LineSaid]

ClientTypes == ClientTasks /\ ClientBuffers /\ ClientHistory

\* A character added to a line, or taken back from it, leaves a line of numbers.
LEMMA EditedType ==
  ASSUME NEW text \in Seq(Nat), NEW ch \in Chars
  PROVE  /\ Edited(text, ch) \in Seq(Nat)
         /\ Len(Edited(text, ch)) <= Len(text) + 1
         /\ ch.kind = "back" => Len(Edited(text, ch)) <= Len(text)
<1>1. CASE ch.kind = "back" /\ text # <<>>
  <2>1. Edited(text, ch) = SubSeq(text, 1, Len(text) - 1)
    BY <1>1 DEF Edited, Front
  <2>2. Len(text) \in Nat \ {0}
    BY <1>1
  <2>3. /\ SubSeq(text, 1, Len(text) - 1) \in Seq(Nat)
        /\ Len(SubSeq(text, 1, Len(text) - 1)) = Len(text) - 1
    <3>1. \A i \in 1 .. Len(text) - 1 : text[i] \in Nat
      BY <2>2
    <3>2. Len(text) - 1 \in Nat /\ 1 \in Int
      BY <2>2
    <3> DEFINE n == Len(text) - 1
    <3>3. n \in Nat /\ \A i \in 1 .. n : text[i] \in Nat
      BY <3>1, <3>2
    <3> HIDE DEF n
    <3>4. SubSeq(text, 1, n) \in Seq(Nat) /\ Len(SubSeq(text, 1, n)) = IF 1 <= n THEN n - 1 + 1 ELSE 0
      BY <3>3, <3>2, SubSeqProperties
    <3>5. SubSeq(text, 1, n) \in Seq(Nat) /\ Len(SubSeq(text, 1, n)) = n
      BY <3>3, <3>4
    <3> QED BY <3>5 DEF n
  <2> QED BY <2>1, <2>2, <2>3
<1>2. CASE ch.kind = "back" /\ text = <<>>
  BY <1>2 DEF Edited
<1>3. CASE ch.kind # "back"
  BY <1>3 DEF Edited, Chars
<1> QED BY <1>1, <1>2, <1>3

\* The sizes are numbers, and client 0 is one of the clients.
LEMMA ClientSizes ==
  /\ RXBUFFERSIZE \in Nat \ {0} /\ LINE_BUFFER_SIZE \in Nat /\ LINE_BUFFER_SIZE > 1
  /\ CLIENT_COUNT \in Nat /\ Serial \in Clients /\ 0 \in Clients
BY ClientsAssumption DEF ClientsAssumption, Clients

\* The initial state has its types.
LEMMA ClientsInitTypes == ClientsInit => ClientTypes
<1> SUFFICES ASSUME ClientsInit PROVE ClientTypes
  OBVIOUS
<1>1. None \in Chars /\ Empty \in LineSaid
  BY DEF None, Chars, Empty, LineSaid
<1>2. ClientBuffers
  BY <1>1, ClientSizes DEF ClientsInit, ClientBuffers, Rings
<1>3. ClientTasks
  BY <1>1, ClientSizes, ClientsAssumption DEF ClientsAssumption, ClientsInit, ClientTasks
<1>4. ClientHistory
  <2>1. <<>> \in Seq(Nat) /\ <<>> \in Seq(LineSaid)
    OBVIOUS
  <2>2. ran \in [text : Seq(Nat), want : LineSaid]
    BY <1>1, <2>1 DEF ClientsInit
  <2>3. /\ typed \in [Clients -> Seq(Nat)] /\ torn \in [Clients -> BOOLEAN]
        /\ want \in [Clients -> Seq(LineSaid)] /\ raced \in BOOLEAN
    BY <2>1 DEF ClientsInit
  <2> QED BY <2>2, <2>3 DEF ClientHistory
<1> QED BY <1>2, <1>3, <1>4 DEF ClientTypes

\* The history of what was typed keeps its types with each character.
LEMMA TypedTypes ==
  ASSUME ClientTypes, NEW c \in Clients, NEW ch \in Chars, NEW lost \in BOOLEAN, Typed(c, ch, lost)
  PROVE  /\ typed' \in [Clients -> Seq(Nat)] /\ torn' \in [Clients -> BOOLEAN]
         /\ want' \in [Clients -> Seq(LineSaid)]
<1>1. ClientHistory
  BY DEF ClientTypes
<1>2. CASE ch.kind = "eol"
  <2>1. [text |-> typed[c], whole |-> ~torn[c], long |-> FALSE] \in LineSaid
    BY <1>1 DEF ClientHistory, LineSaid
  <2>2. Append(want[c], [text |-> typed[c], whole |-> ~torn[c], long |-> FALSE]) \in Seq(LineSaid)
    BY <1>1, <2>1 DEF ClientHistory
  <2>3. typed' \in [Clients -> Seq(Nat)]
    <3>1. typed' = [typed EXCEPT ![c] = <<>>] /\ <<>> \in Seq(Nat)
      BY <1>2 DEF Typed
    <3> QED BY <1>1, <3>1 DEF ClientHistory
  <2>4. torn' \in [Clients -> BOOLEAN]
    BY <1>1, <1>2 DEF Typed, ClientHistory
  <2>5. want' \in [Clients -> Seq(LineSaid)]
    <3>1. \/ want' = want
          \/ want' = [want EXCEPT ![c] = Append(want[c],
                         [text |-> typed[c], whole |-> ~torn[c], long |-> FALSE])]
      BY <1>1, <1>2 DEF Typed, ClientHistory
    <3> QED BY <1>1, <2>2, <3>1 DEF ClientHistory
  <2> QED BY <2>3, <2>4, <2>5
<1>3. CASE ch.kind # "eol"
  <2>1. Edited(typed[c], ch) \in Seq(Nat)
    BY <1>1, EditedType DEF ClientHistory
  <2> QED BY <1>1, <1>3, <2>1 DEF Typed, ClientHistory
<1> QED BY <1>2, <1>3

\* The task that polls the clients keeps the types.
LEMMA InputKeepsTypes ==
  ASSUME ClientTypes,
         \/ \E c \in Clients, kind \in Kinds : Fetch(c, kind)
         \/ FetchReset \/ InputStep
  PROVE  ClientTypes'
<1>1. ClientTasks /\ ClientBuffers /\ ClientHistory
  BY DEF ClientTypes
<1>2. ASSUME NEW c \in Clients, NEW kind \in Kinds, Fetch(c, kind)
      PROVE ClientTypes'
  <2>1. left.chars - 1 \in Nat /\ left.chars \in Nat
    BY <1>1, <1>2 DEF Fetch, ClientTasks
  <2>2. left' \in [chars : Nat, resets : Nat]
    BY <1>1, <1>2, <2>1 DEF Fetch, ClientTasks
  <2>3. input' \in [at : {"poll", "test", "locked"}, client : Clients, ch : Chars, size : Nat]
    BY <1>1, <1>2, <2>1 DEF Fetch, ClientTasks, Chars
  <2> QED BY <1>1, <1>2, <2>2, <2>3
          DEF Fetch, ClientTypes, ClientTasks, ClientBuffers, ClientHistory, history
<1>3. CASE FetchReset
  <2>1. left.resets - 1 \in Nat
    BY <1>1, <1>3 DEF FetchReset, ClientTasks
  <2>2. left' \in [chars : Nat, resets : Nat]
    BY <1>1, <1>3, <2>1 DEF FetchReset, ClientTasks
  <2> QED BY <1>1, <1>3, <2>2
          DEF FetchReset, ClientTypes, ClientTasks, ClientBuffers, ClientHistory, history
<1>4. CASE Lock
  <2>1. ring[input.client].size \in Nat
    BY <1>1, ClientSizes DEF ClientBuffers, ClientTasks, Rings
  <2> QED BY <1>1, <1>4, <2>1
          DEF Lock, ClientTypes, ClientTasks, ClientBuffers, ClientHistory, history
<1>5. CASE Refuse \/ Drop
  <2>1. ClientHistory'
    BY <1>1, <1>5, TypedTypes DEF Refuse, Drop, ClientHistory, ClientTasks
  <2> QED BY <1>1, <1>5, <2>1 DEF Refuse, Drop, ClientTypes, ClientTasks, ClientBuffers
<1>6. CASE Store
  <2>1. raced' \in BOOLEAN /\ ran' = ran
    BY <1>1, <1>6 DEF Store, ClientHistory
  <2>2. ClientHistory'
    BY <1>1, <1>6, <2>1, TypedTypes DEF Store, ClientHistory, ClientTasks
  <2>3. ring' \in [Clients -> Rings]
    <3>1. PICK c \in Clients : c = input.client
      BY <1>1 DEF ClientTasks
    <3>2. input.size + 1 \in 0 .. RXBUFFERSIZE
      BY <1>1, <1>6, ClientSizes DEF Store, ClientTasks
    <3>3. ring' = [ring EXCEPT ![c].buf[Place(ring[c].pos, input.size)] = input.ch,
                               ![c].size = input.size + 1]
      BY <1>6, <3>1 DEF Store
    <3>4. input.ch \in Chars /\ ring[c] \in Rings
      BY <1>1 DEF ClientTasks, ClientBuffers
    <3> QED BY <1>1, <3>2, <3>3, <3>4 DEF ClientBuffers, Rings
  <2> QED BY <1>1, <1>6, <2>2, <2>3 DEF Store, ClientTypes, ClientTasks, ClientBuffers
<1> QED BY <1>2, <1>3, <1>4, <1>5, <1>6 DEF InputStep

\* The client the main task serves is one of the clients.
LEMMA TaskClient ==
  ASSUME ClientTasks
  PROVE  main.client \in Clients
BY DEF ClientTasks

\* So does the main task when it reads a character.
LEMMA ReadKeepsTypes ==
  ASSUME ClientTypes, Read
  PROVE  ClientTypes'
<1>1. ClientTasks /\ ClientBuffers /\ ClientHistory
  BY DEF ClientTypes
<1> DEFINE c == main.client
           ch == ring[c].buf[ring[c].pos]
           overflow == ch.kind # "back" /\ Full(c)
<1>2. c \in Clients /\ ring[c] \in Rings /\ ch \in Chars /\ ring[c].size > 0
  <2>1. c \in Clients
    BY <1>1, TaskClient
  <2>2. ring[c] \in Rings /\ ring[c].size > 0
    BY <1>1, <2>1 DEF ClientBuffers, Read
  <2>3. \A r \in Rings : r.buf[r.pos] \in Chars
    BY DEF Rings
  <2> QED BY <2>1, <2>2, <2>3
<1>3. ring' \in [Clients -> Rings]
  <2>1. ring' = [ring EXCEPT ![c].pos = IF @ + 1 > RXBUFFERSIZE - 1 THEN 0 ELSE @ + 1,
                             ![c].size = @ - 1]
    BY DEF Read
  <2>2. \A r \in Rings : r.size > 0 =>
           /\ r.size - 1 \in 0 .. RXBUFFERSIZE
           /\ (IF r.pos + 1 > RXBUFFERSIZE - 1 THEN 0 ELSE r.pos + 1) \in 0 .. RXBUFFERSIZE - 1
    <3> SUFFICES ASSUME NEW r \in Rings, r.size > 0
                 PROVE  /\ r.size - 1 \in 0 .. RXBUFFERSIZE
                        /\ (IF r.pos + 1 > RXBUFFERSIZE - 1 THEN 0 ELSE r.pos + 1)
                             \in 0 .. RXBUFFERSIZE - 1
      OBVIOUS
    <3>1. r.size \in 0 .. RXBUFFERSIZE /\ r.pos \in 0 .. RXBUFFERSIZE - 1
      BY DEF Rings
    <3> QED BY <3>1, ClientSizes
  <2> HIDE DEF c
  <2> DEFINE pos == IF ring[c].pos + 1 > RXBUFFERSIZE - 1 THEN 0 ELSE ring[c].pos + 1
             size == ring[c].size - 1
             next == [ring[c] EXCEPT !.pos = pos, !.size = size]
  <2>3. pos \in 0 .. RXBUFFERSIZE - 1 /\ size \in 0 .. RXBUFFERSIZE
    BY <1>2, <2>2
  <2>4. ring' = [ring EXCEPT ![c] = next]
    BY <2>1
  <2> HIDE DEF pos, size
  <2>5. next \in Rings
    BY <1>2, <2>3 DEF Rings
  <2> HIDE DEF next
  <2> QED BY <1>1, <2>4, <2>5 DEF ClientBuffers
<1>4. line' \in [Clients -> Seq(Nat)] /\ \A d \in Clients : Len(line'[d]) < LINE_BUFFER_SIZE
  <2>1. line' = [line EXCEPT ![c] = IF overflow THEN <<>>
                                    ELSE IF ch.kind = "eol" THEN @ ELSE Edited(@, ch)]
    BY DEF Read
  <2>2. line[c] \in Seq(Nat) /\ Len(line[c]) < LINE_BUFFER_SIZE
    BY <1>1, <1>2 DEF ClientBuffers
  <2>3. ~overflow => Edited(line[c], ch) \in Seq(Nat) /\ Len(Edited(line[c], ch)) < LINE_BUFFER_SIZE
    <3> SUFFICES ASSUME ~overflow
                 PROVE  Edited(line[c], ch) \in Seq(Nat)
                        /\ Len(Edited(line[c], ch)) < LINE_BUFFER_SIZE
      OBVIOUS
    <3>1. ch.kind = "back" \/ Len(line[c]) # LINE_BUFFER_SIZE - 1
      BY DEF Full
    <3>2. /\ Edited(line[c], ch) \in Seq(Nat)
          /\ Len(Edited(line[c], ch)) <= Len(line[c]) + 1
          /\ ch.kind = "back" => Len(Edited(line[c], ch)) <= Len(line[c])
      <4> HIDE DEF overflow, ch, c
      <4> QED BY <1>2, <2>2, EditedType
    <3>3. Len(line[c]) \in Nat /\ Len(Edited(line[c], ch)) \in Nat
      BY <2>2, <3>2
    <3> HIDE DEF overflow, ch, c
    <3> QED BY <2>2, <3>1, <3>2, <3>3, ClientSizes
  <2> HIDE DEF overflow, ch, c
  <2>4. Len(<<>>) < LINE_BUFFER_SIZE
    BY ClientSizes
  <2> DEFINE next == IF overflow THEN <<>> ELSE IF ch.kind = "eol" THEN line[c] ELSE Edited(line[c], ch)
  <2>5. next \in Seq(Nat) /\ Len(next) < LINE_BUFFER_SIZE
    BY <2>2, <2>3, <2>4
  <2>6. line' = [line EXCEPT ![c] = next]
    BY <2>1, Zenon
  <2> HIDE DEF next
  <2>7. line \in [Clients -> Seq(Nat)] /\ \A d \in Clients : Len(line[d]) < LINE_BUFFER_SIZE
    BY <1>1 DEF ClientBuffers
  <2> QED BY <1>2, <2>5, <2>6, <2>7
<1>5. /\ want' \in [Clients -> Seq(LineSaid)] /\ torn' \in [Clients -> BOOLEAN]
      /\ UNCHANGED <<typed, raced, ran>>
  <2>1. /\ \/ want' = [want EXCEPT ![c] = IF @ = <<>> THEN @ ELSE Tail(@)] /\ torn' = torn
           \/ torn' = [torn EXCEPT ![c] = TRUE] /\ want' = want
           \/ want[c] # <<>> /\ want' = [want EXCEPT ![c][1].long = TRUE] /\ torn' = torn
           \/ torn' = torn /\ want' = want
        /\ UNCHANGED <<typed, raced, ran>>
    BY DEF Read
  <2> HIDE DEF c
  <2>2. want[c] \in Seq(LineSaid)
    BY <1>1, <1>2 DEF ClientHistory
  <2>3. want[c] # <<>> => Tail(want[c]) \in Seq(LineSaid)
    BY <2>2
  <2>4. want[c] # <<>> => [want[c] EXCEPT ![1].long = TRUE] \in Seq(LineSaid)
    <3>1. ASSUME want[c] # <<>> PROVE [want[c] EXCEPT ![1].long = TRUE] \in Seq(LineSaid)
      <4>1. want[c][1] \in LineSaid /\ 1 \in DOMAIN want[c]
        BY <2>2, <3>1
      <4>2. [want[c][1] EXCEPT !.long = TRUE] \in LineSaid
        BY <4>1 DEF LineSaid
      <4> QED BY <2>2, <4>1, <4>2, ExceptSeq
    <3> QED BY <3>1
  <2> QED BY <1>1, <1>2, <2>1, <2>2, <2>3, <2>4 DEF ClientHistory
<1>6. ClientTasks'
  BY <1>1 DEF Read, ClientTasks, MainTo
<1> QED BY <1>3, <1>4, <1>5, <1>6, <1>1 DEF ClientTypes, ClientBuffers, ClientHistory

\* So do its other steps.
LEMMA MainKeepsTypes ==
  ASSUME ClientTypes, MainLoop
  PROVE  ClientTypes'
<1>1. ClientTasks /\ ClientBuffers /\ ClientHistory
  BY DEF ClientTypes
<1>2. \A c \in Clients : ~LastOne(c) => c + 1 \in Clients
  BY ClientSizes DEF LastOne, Clients
<1>3. CASE Scan \/ Round \/ LoopAbort
  <2>1. ClientTasks'
    <3>1. /\ main' \in [at : {"scan", "eol", "round", "begin", "beginPos", "lines"},
                        client : Clients, twice : BOOLEAN]
      <4>1. CASE Scan
        <5>1. ~LastOne(main.client) => main.client + 1 \in Clients
          BY <1>1, <1>2 DEF ClientTasks
        <5> QED BY <1>1, <4>1, <5>1 DEF Scan, ClientTasks
      <4>2. CASE Round
        BY <1>1, <4>2, ClientSizes DEF Round, ClientTasks
      <4>3. CASE LoopAbort
        <5>1. main' = [at |-> "begin", client |-> 0, twice |-> FALSE]
          BY <4>3 DEF LoopAbort
        <5> QED BY <5>1, ClientSizes
      <4> QED BY <1>3, <4>1, <4>2, <4>3
    <3>2. input' = input /\ left' = left /\ printing' \in BOOLEAN /\ rtReset' \in BOOLEAN
      BY <1>1, <1>3 DEF Scan, Round, LoopAbort, ClientTasks
    <3> QED BY <1>1, <3>1, <3>2 DEF ClientTasks
  <2>2. ClientBuffers' /\ ClientHistory'
    BY <1>1, <1>3 DEF Scan, Round, LoopAbort, ClientBuffers, ClientHistory, history
  <2> QED BY <2>1, <2>2 DEF ClientTypes
<1>4. CASE Read
  BY <1>4, ReadKeepsTypes
<1>5. CASE Execute
  <2>1. PICK c \in Clients : c = main.client
    BY <1>1 DEF ClientTasks
  <2>2. Wanted(c) \in LineSaid
    <3>1. want[c] \in Seq(LineSaid)
      BY <1>1 DEF ClientHistory
    <3>2. want[c] # <<>> => Head(want[c]) \in LineSaid
      BY <3>1
    <3>3. [Empty EXCEPT !.whole = FALSE] \in LineSaid
      <4>1. Empty \in LineSaid
        BY DEF Empty, LineSaid
      <4>2. \A e \in LineSaid : [e EXCEPT !.whole = FALSE] \in LineSaid
        BY DEF LineSaid
      <4> QED BY <4>1, <4>2
    <3> QED BY <3>2, <3>3 DEF Wanted
  <2>3. want' \in [Clients -> Seq(LineSaid)]
    <3>1. want' = [want EXCEPT ![c] = IF @ = <<>> THEN @ ELSE Tail(@)]
      BY <1>5, <2>1 DEF Execute
    <3>2. want[c] \in Seq(LineSaid) /\ (want[c] # <<>> => Tail(want[c]) \in Seq(LineSaid))
      BY <1>1 DEF ClientHistory
    <3> QED BY <1>1, <3>1, <3>2 DEF ClientHistory
  <2>4. ran' \in [text : Seq(Nat), want : LineSaid]
    BY <1>1, <1>5, <2>1, <2>2 DEF Execute, ClientBuffers
  <2>5. ClientHistory'
    BY <1>1, <1>5, <2>3, <2>4 DEF Execute, ClientHistory
  <2>6. ClientBuffers'
    BY <1>1, <1>5, <2>1, ClientSizes DEF Execute, ClientBuffers
  <2>7. ClientTasks'
    BY <1>1, <1>5 DEF Execute, ClientTasks, MainTo
  <2> QED BY <2>5, <2>6, <2>7 DEF ClientTypes
<1>6. CASE BeginSize
  <2>1. PICK c \in Clients : c = main.client
    BY <1>1 DEF ClientTasks
  <2>2. ring' \in [Clients -> Rings]
    <3>1. ring' = [ring EXCEPT ![c].size = 0] /\ ring[c] \in Rings
      BY <1>1, <1>6, <2>1 DEF BeginSize, ClientBuffers
    <3>2. [ring[c] EXCEPT !.size = 0] \in Rings
      BY <3>1, ClientSizes DEF Rings
    <3> QED BY <1>1, <3>1, <3>2 DEF ClientBuffers
  <2>3. ClientHistory'
    BY <1>1, <1>6, <2>1 DEF BeginSize, ClientHistory
  <2> QED BY <1>1, <1>6, <2>2, <2>3 DEF BeginSize, ClientTypes, ClientTasks, ClientBuffers, MainTo
<1>7. CASE BeginPos
  <2>1. PICK c \in Clients : c = main.client
    BY <1>1 DEF ClientTasks
  <2>2. ring' \in [Clients -> Rings]
    <3>1. ring' = [ring EXCEPT ![c].pos = 0] /\ ring[c] \in Rings
      BY <1>1, <1>7, <2>1 DEF BeginPos, ClientBuffers
    <3>2. [ring[c] EXCEPT !.pos = 0] \in Rings
      BY <3>1, ClientSizes DEF Rings
    <3> QED BY <1>1, <3>1, <3>2 DEF ClientBuffers
  <2>3. ClientHistory'
    BY <1>1, <1>7, <2>1 DEF BeginPos, ClientHistory
  <2>4. ClientTasks'
    BY <1>1, <1>2, <1>7, ClientSizes DEF BeginPos, ClientTasks
  <2> QED BY <1>1, <1>7, <2>2, <2>3, <2>4 DEF BeginPos, ClientTypes, ClientBuffers
<1>8. CASE EmptyLines
  <2>1. line' = [c \in Clients |-> <<>>] /\ <<>> \in Seq(Nat) /\ Len(<<>>) < LINE_BUFFER_SIZE
    BY <1>8, ClientSizes DEF EmptyLines
  <2>2. ClientBuffers'
    BY <1>1, <1>8, <2>1 DEF EmptyLines, ClientBuffers
  <2> QED BY <1>1, <1>8, <2>2 DEF EmptyLines, ClientTypes, ClientTasks, ClientHistory, MainTo, history
<1> QED BY <1>3, <1>4, <1>5, <1>6, <1>7, <1>8 DEF MainLoop

\* So does every step.
LEMMA ClientsNextTypes == ClientTypes /\ [ClientsNext]_clientVars => ClientTypes'
<1>1. ClientTypes /\ UNCHANGED clientVars => ClientTypes'
  BY DEF clientVars, history, ClientTypes, ClientTasks, ClientBuffers, ClientHistory
<1> QED BY <1>1, InputKeepsTypes, MainKeepsTypes DEF ClientsNext

\* Protocol.cpp:48-160, Serial.cpp:132-300: every state of the clients has its types; no line outgrows its buffer.
THEOREM ClientsTypeCorrect == ClientsSpec => []ClientsTypeOK
<1>1. ClientTypes => ClientsTypeOK
  BY DEF ClientTypes, ClientTasks, ClientBuffers, ClientHistory, ClientsTypeOK, Rings
<1> QED BY <1>1, ClientsInitTypes, ClientsNextTypes, PTL DEF ClientsSpec

-----------------------------------------------------------------------------
(* The line in the making, the ring behind it and the lines wanted.        *)

\* The k-th character of the ring r.
Nth(r, k) == r.buf[IF r.pos + k - 1 < RXBUFFERSIZE THEN r.pos + k - 1
                   ELSE r.pos + k - 1 - RXBUFFERSIZE]

\* f[k] is the line, and n[k] the number of line ends, after k characters of r.
Reads(r, f, n) ==
  /\ f \in [0 .. r.size -> Seq(Nat)] /\ n \in [0 .. r.size -> Nat] /\ n[0] = 0
  /\ \A k \in 1 .. r.size :
       IF Nth(r, k).kind = "eol" THEN f[k] = <<>> /\ n[k] = n[k - 1] + 1
       ELSE f[k] = Edited(f[k - 1], Nth(r, k)) /\ n[k] = n[k - 1]
  /\ \A i, k \in 0 .. r.size : i <= k => n[i] <= n[k]

Stands(w, text) == w.whole /\ ~w.long => w.text = text

\* Nothing has been lost so far of the line that is being read.
Undamaged(w, t) == IF w = <<>> THEN ~t ELSE w[1].whole /\ ~w[1].long

\* A ring r with the text l before it accounts for the lines w wanted and the one
\* being typed; h is 1 when l is a line that has been read to its end.
Account(r, l, h, w, ty, t, f, n) ==
  /\ Reads(r, f, n)
  /\ Len(w) = n[r.size] + h
  /\ ~t => f[r.size] = ty
  /\ \A k \in 1 .. r.size : Nth(r, k).kind = "eol" => Stands(w[n[k] + h], f[k - 1])
  /\ h = 1 => f[0] = <<>> /\ Stands(w[1], l)
  /\ h = 0 /\ Undamaged(w, t) => f[0] = l

Accounts(r, l, h, w, ty, t) == \E f, n : Account(r, l, h, w, ty, t, f, n)

\* The k-th character of a ring is a character.
LEMMA NthType ==
  ASSUME NEW r \in Rings, NEW k \in 1 .. r.size
  PROVE  Nth(r, k) \in Chars
BY ClientSizes DEF Nth, Rings

\* An empty ring.
LEMMA AccountEmpty ==
  ASSUME NEW r \in Rings, r.size = 0, NEW ty \in Seq(Nat)
  PROVE  Accounts(r, <<>>, 0, <<>>, ty, ty # <<>>)
<1> DEFINE f == [k \in 0 .. 0 |-> <<>>]
           n == [k \in 0 .. 0 |-> 0]
<1>1. f \in [0 .. 0 -> Seq(Nat)] /\ n \in [0 .. 0 -> Nat] /\ n[0] = 0 /\ f[0] = <<>>
  OBVIOUS
<1> HIDE DEF f, n
<1>2. Reads(r, f, n)
  BY <1>1 DEF Reads
<1>3. Len(<<>>) = 0
  OBVIOUS
<1>4. Account(r, <<>>, 0, <<>>, ty, ty # <<>>, f, n)
  BY <1>1, <1>2, <1>3 DEF Account
<1> QED BY <1>4 DEF Accounts

\* A character that does not reach the ring.
LEMMA AccountLost ==
  ASSUME NEW r, NEW l, NEW h, NEW w, NEW ty, NEW t, NEW ty2,
         Accounts(r, l, h, w, ty, t)
  PROVE  Accounts(r, l, h, w, ty2, TRUE)
<1>1. PICK f, n : Account(r, l, h, w, ty, t, f, n)
  BY DEF Accounts
<1>2. Account(r, l, h, w, ty2, TRUE, f, n)
  BY <1>1 DEF Account, Undamaged
<1> QED BY <1>2 DEF Accounts

\* The position of a ring that is empty, or whose position is 0, may be set to 0.
LEMMA AccountMoved ==
  ASSUME NEW r \in Rings, NEW l, NEW h, NEW w, NEW ty, NEW t,
         Accounts(r, l, h, w, ty, t), r.size = 0 \/ r.pos = 0
  PROVE  Accounts([r EXCEPT !.pos = 0], l, h, w, ty, t)
<1> DEFINE q == [r EXCEPT !.pos = 0]
<1>1. q.size = r.size /\ (r.pos = 0 => q = r)
  BY DEF Rings
<1>2. CASE r.pos = 0
  BY <1>1, <1>2
<1>3. CASE r.size = 0
  <2>1. PICK f, n : Account(r, l, h, w, ty, t, f, n)
    BY DEF Accounts
  <2> HIDE DEF q
  <2>2. Account(q, l, h, w, ty, t, f, n)
    BY <1>1, <1>3, <2>1 DEF Account, Reads
  <2> QED BY <2>2 DEF Accounts, q
<1> QED BY <1>2, <1>3

\* A character is written behind the others.
Written(r, ch) == [r EXCEPT !.buf[Place(r.pos, r.size)] = ch, !.size = r.size + 1]

\* A character written behind the last one leaves the others where they were.
LEMMA WrittenEffect ==
  ASSUME NEW r \in Rings, r.size < RXBUFFERSIZE, NEW ch \in Chars
  PROVE  /\ Written(r, ch) \in Rings /\ Written(r, ch).size = r.size + 1
         /\ Nth(Written(r, ch), r.size + 1) = ch
         /\ \A k \in 1 .. r.size : Nth(Written(r, ch), k) = Nth(r, k)
<1> DEFINE p == Place(r.pos, r.size)
           q == Written(r, ch)
<1>1. r.pos \in 0 .. RXBUFFERSIZE - 1 /\ r.size \in 0 .. RXBUFFERSIZE
      /\ r.buf \in [0 .. RXBUFFERSIZE - 1 -> Chars]
  BY DEF Rings
<1>2. p = IF r.pos + r.size < RXBUFFERSIZE THEN r.pos + r.size ELSE r.pos + r.size - RXBUFFERSIZE
  BY <1>1, ClientSizes DEF Place
<1>3. p \in 0 .. RXBUFFERSIZE - 1
  BY <1>1, <1>2, ClientSizes
<1>4. q.size = r.size + 1 /\ q.pos = r.pos /\ q.buf = [r.buf EXCEPT ![p] = ch]
  BY DEF Written, Rings
<1>5. q \in Rings
  <2>1. [r.buf EXCEPT ![p] = ch] \in [0 .. RXBUFFERSIZE - 1 -> Chars] /\ r.size + 1 \in 0 .. RXBUFFERSIZE
    BY <1>1, <1>3, ClientSizes
  <2>2. q = [r EXCEPT !.buf = [r.buf EXCEPT ![p] = ch], !.size = r.size + 1]
    BY DEF Written, Rings
  <2> HIDE DEF p, q
  <2> QED BY <2>1, <2>2 DEF Rings
<1> HIDE DEF p, q
<1>6. Nth(q, r.size + 1) = ch
  BY <1>1, <1>2, <1>3, <1>4, ClientSizes DEF Nth
<1>7. \A k \in 1 .. r.size : Nth(q, k) = Nth(r, k)
  <2> SUFFICES ASSUME NEW k \in 1 .. r.size PROVE Nth(q, k) = Nth(r, k)
    OBVIOUS
  <2> DEFINE i == IF r.pos + k - 1 < RXBUFFERSIZE THEN r.pos + k - 1
                  ELSE r.pos + k - 1 - RXBUFFERSIZE
  <2>1. i \in 0 .. RXBUFFERSIZE - 1 /\ i # p
    <3>1. r.pos \in Nat /\ r.size \in Nat /\ k \in Nat /\ 1 <= k /\ k <= r.size
          /\ r.pos < RXBUFFERSIZE /\ r.size < RXBUFFERSIZE /\ RXBUFFERSIZE \in Nat
      BY <1>1, ClientSizes
    <3>2. \A a, b, j, N \in Nat : 1 <= j /\ j <= b /\ a < N /\ b < N =>
            LET x == IF a + j - 1 < N THEN a + j - 1 ELSE a + j - 1 - N
            IN  x \in 0 .. N - 1 /\ x # IF a + b < N THEN a + b ELSE a + b - N
      OBVIOUS
    <3> QED BY <1>2, <3>1, <3>2
  <2>2. Nth(q, k) = q.buf[i] /\ Nth(r, k) = r.buf[i]
    BY <1>4 DEF Nth
  <2> HIDE DEF i
  <2> QED BY <1>1, <1>4, <2>1, <2>2
<1> QED BY <1>4, <1>5, <1>6, <1>7 DEF q

\* What the ring reads as, with one more character.
LEMMA ReadsWritten ==
  ASSUME NEW r \in Rings, r.size < RXBUFFERSIZE, NEW ch \in Chars,
         NEW f, NEW n, Reads(r, f, n)
  PROVE  \E g, m : /\ Reads(Written(r, ch), g, m)
                   /\ \A k \in 0 .. r.size : g[k] = f[k] /\ m[k] = n[k]
<1> DEFINE s == r.size
           g == [k \in 0 .. s + 1 |-> IF k <= s THEN f[k]
                   ELSE IF ch.kind = "eol" THEN <<>> ELSE Edited(f[s], ch)]
           m == [k \in 0 .. s + 1 |-> IF k <= s THEN n[k]
                   ELSE IF ch.kind = "eol" THEN n[s] + 1 ELSE n[s]]
           q == Written(r, ch)
<1>1. s \in Nat /\ s \in 0 .. s
  BY ClientSizes DEF Rings
<1>2. /\ q.size = s + 1 /\ Nth(q, s + 1) = ch /\ \A k \in 1 .. s : Nth(q, k) = Nth(r, k)
  BY WrittenEffect
<1>3. /\ f \in [0 .. s -> Seq(Nat)] /\ n \in [0 .. s -> Nat] /\ n[0] = 0
      /\ \A i, k \in 0 .. s : i <= k => n[i] <= n[k]
  BY DEF Reads
<1>4. f[s] \in Seq(Nat) /\ Edited(f[s], ch) \in Seq(Nat) /\ n[s] \in Nat
  BY <1>1, <1>3, EditedType
<1>5. /\ \A k \in 0 .. s : g[k] = f[k] /\ m[k] = n[k]
      /\ g[s + 1] = (IF ch.kind = "eol" THEN <<>> ELSE Edited(f[s], ch))
      /\ m[s + 1] = (IF ch.kind = "eol" THEN n[s] + 1 ELSE n[s])
  BY <1>1
<1>6. g \in [0 .. s + 1 -> Seq(Nat)] /\ m \in [0 .. s + 1 -> Nat]
  <2>1. \A k \in 0 .. s + 1 : g[k] \in Seq(Nat) /\ m[k] \in Nat
    <3> HIDE DEF g, m, s
    <3> TAKE k \in 0 .. s + 1
    <3>1. CASE k \in 0 .. s
      BY <1>3, <1>5, <3>1
    <3>2. CASE k = s + 1
      <4>1. <<>> \in Seq(Nat) /\ n[s] + 1 \in Nat
        BY <1>4
      <4>2. g[s + 1] \in Seq(Nat) /\ m[s + 1] \in Nat
        BY <1>4, <1>5, <4>1
      <4> QED BY <3>2, <4>2
    <3> QED BY <1>1, <3>1, <3>2
  <2> QED BY <2>1
<1> HIDE DEF g, m, q
<1>7. \A k \in 1 .. s + 1 :
        IF Nth(q, k).kind = "eol" THEN g[k] = <<>> /\ m[k] = m[k - 1] + 1
        ELSE g[k] = Edited(g[k - 1], Nth(q, k)) /\ m[k] = m[k - 1]
  <2> TAKE k \in 1 .. s + 1
  <2>1. CASE k <= s
    <3>1. k \in 1 .. s /\ k \in 0 .. s /\ k - 1 \in 0 .. s
      BY <1>1, <2>1
    <3> QED BY <1>2, <1>5, <3>1 DEF Reads
  <2>2. CASE k = s + 1
    <3>1. k - 1 = s
      BY <1>1, <2>2
    <3> QED BY <1>1, <1>2, <1>5, <2>2, <3>1
  <2> QED BY <1>1, <2>1, <2>2
<1>8. \A i, k \in 0 .. s + 1 : i <= k => m[i] <= m[k]
  <2> SUFFICES ASSUME NEW i \in 0 .. s + 1, NEW k \in 0 .. s + 1, i <= k
               PROVE  m[i] <= m[k]
    OBVIOUS
  <2> HIDE DEF s
  <2>1. CASE k \in 0 .. s
    <3>1. i \in 0 .. s /\ n[i] <= n[k]
      BY <1>1, <2>1 DEF Reads, s
    <3> QED BY <1>5, <2>1, <3>1
  <2>2. CASE k = s + 1
    <3>1. n[s] <= m[s + 1] /\ m[s + 1] \in Nat
      BY <1>4, <1>5, <1>6, <1>1
    <3>2. CASE i = s + 1
      BY <2>2, <3>1, <3>2
    <3>3. CASE i \in 0 .. s
      <4>1. n[i] <= n[s] /\ n[i] \in Nat
        <5>1. i <= s /\ s \in 0 .. s
          BY <1>1, <3>3
        <5> QED BY <1>3, <3>3, <5>1
      <4> QED BY <1>4, <1>5, <2>2, <3>1, <3>3, <4>1
    <3> QED BY <1>1, <3>2, <3>3
  <2> QED BY <1>1, <2>1, <2>2
<1>9. Reads(q, g, m)
  <2>1. m[0] = 0
    BY <1>1, <1>3, <1>5
  <2> HIDE DEF s
  <2> QED BY <1>2, <1>6, <1>7, <1>8, <2>1 DEF Reads
<1> QED BY <1>5, <1>9 DEF q

\* A character that is no line end is written: it joins what is being typed.
LEMMA AccountChar ==
  ASSUME NEW r \in Rings, r.size < RXBUFFERSIZE, NEW ch \in Chars, ch.kind # "eol",
         NEW l, NEW h, NEW w, NEW ty, NEW t, Accounts(r, l, h, w, ty, t)
  PROVE  Accounts(Written(r, ch), l, h, w, Edited(ty, ch), t)
<1>1. PICK f, n : Account(r, l, h, w, ty, t, f, n)
  BY DEF Accounts
<1>2. PICK g, m : /\ Reads(Written(r, ch), g, m)
                  /\ \A k \in 0 .. r.size : g[k] = f[k] /\ m[k] = n[k]
  BY <1>1, ReadsWritten DEF Account
<1> DEFINE q == Written(r, ch)
<1>3. /\ q.size = r.size + 1 /\ Nth(q, r.size + 1) = ch
      /\ \A k \in 1 .. r.size : Nth(q, k) = Nth(r, k)
  BY WrittenEffect
<1>4. r.size \in Nat /\ 0 \in 0 .. r.size
  BY ClientSizes DEF Rings
<1>5. g[r.size + 1] = Edited(g[r.size], ch) /\ m[r.size + 1] = m[r.size]
  <2>1. Reads(q, g, m)
    BY <1>2
  <2> DEFINE s == r.size + 1
  <2>2. s \in 1 .. q.size /\ s - 1 = r.size /\ Nth(q, s) = ch
    BY <1>3, <1>4
  <2> HIDE DEF q, s
  <2>3. \A k \in 1 .. q.size : Nth(q, k).kind # "eol" =>
          g[k] = Edited(g[k - 1], Nth(q, k)) /\ m[k] = m[k - 1]
    BY <2>1 DEF Reads
  <2>4. g[s] = Edited(g[s - 1], ch) /\ m[s] = m[s - 1]
    BY <2>2, <2>3
  <2> QED BY <2>2, <2>4 DEF s
<1> HIDE DEF q
<1>6. \A k \in 1 .. q.size : Nth(q, k).kind = "eol" => Stands(w[m[k] + h], g[k - 1])
  <2> SUFFICES ASSUME NEW k \in 1 .. q.size, Nth(q, k).kind = "eol"
               PROVE  Stands(w[m[k] + h], g[k - 1])
    OBVIOUS
  <2>1. k \in 1 .. r.size
    BY <1>3, <1>4
  <2>2. k \in 0 .. r.size /\ k - 1 \in 0 .. r.size
    BY <1>4, <2>1
  <2> QED BY <1>1, <1>2, <1>3, <2>1, <2>2 DEF Account
<1>7. Account(q, l, h, w, Edited(ty, ch), t, g, m)
  BY <1>1, <1>2, <1>3, <1>4, <1>5, <1>6 DEF Account, q
<1> QED BY <1>7 DEF Accounts, q

\* A line end is written: the line is wanted from now on.
LEMMA AccountEnd ==
  ASSUME NEW r \in Rings, r.size < RXBUFFERSIZE, NEW ch \in Chars, ch.kind = "eol",
         NEW l, NEW h \in {0, 1}, NEW w \in Seq(LineSaid), NEW ty \in Seq(Nat), NEW t \in BOOLEAN,
         Accounts(r, l, h, w, ty, t)
  PROVE  Accounts(Written(r, ch), l, h,
                  Append(w, [text |-> ty, whole |-> ~t, long |-> FALSE]), <<>>, FALSE)
<1>1. PICK f, n : Account(r, l, h, w, ty, t, f, n)
  BY DEF Accounts
<1>2. PICK g, m : /\ Reads(Written(r, ch), g, m)
                  /\ \A k \in 0 .. r.size : g[k] = f[k] /\ m[k] = n[k]
  BY <1>1, ReadsWritten DEF Account
<1> DEFINE q == Written(r, ch)
           last == [text |-> ty, whole |-> ~t, long |-> FALSE]
           v == Append(w, last)
<1>r. Reads(q, g, m)
  BY <1>2
<1>3. /\ q.size = r.size + 1 /\ Nth(q, r.size + 1) = ch
      /\ \A k \in 1 .. r.size : Nth(q, k) = Nth(r, k)
  BY WrittenEffect
<1>4. r.size \in Nat /\ 0 \in 0 .. r.size /\ r.size \in 0 .. r.size
  BY ClientSizes DEF Rings
<1>5. /\ last \in LineSaid /\ last.text = ty /\ last.whole = ~t /\ ~last.long
  BY DEF LineSaid
<1> HIDE DEF last
<1>6. /\ Len(v) = Len(w) + 1 /\ v[Len(w) + 1] = last /\ Len(w) \in Nat
      /\ \A j \in 1 .. Len(w) : v[j] = w[j]
      /\ v # <<>> /\ (w # <<>> => v[1] = w[1]) /\ (w = <<>> => v[1] = last)
  <2>1. /\ v \in Seq(LineSaid) /\ Len(v) = Len(w) + 1 /\ v[Len(w) + 1] = last /\ Len(w) \in Nat
        /\ \A j \in 1 .. Len(w) : v[j] = w[j]
    BY <1>5
  <2>2. (w = <<>>) <=> (Len(w) = 0)
    OBVIOUS
  <2>3. (v = <<>>) <=> (Len(v) = 0)
    BY <2>1
  <2> HIDE DEF v
  <2> QED BY <2>1, <2>2, <2>3
<1> HIDE DEF q, v
<1>7. g[r.size + 1] = <<>> /\ m[r.size + 1] = n[r.size] + 1
  <2>0. q.size = r.size + 1
    BY <1>3
  <2>1. r.size + 1 \in 1 .. q.size /\ (r.size + 1) - 1 = r.size
    <3>1. \A s \in Nat : s + 1 \in 1 .. s + 1 /\ (s + 1) - 1 = s
      OBVIOUS
    <3> QED BY <1>4, <2>0, <3>1
  <2>2. \A k \in 1 .. q.size : Nth(q, k).kind = "eol" => g[k] = <<>> /\ m[k] = m[k - 1] + 1
    BY <1>r DEF Reads
  <2>3. g[r.size + 1] = <<>> /\ m[r.size + 1] = m[(r.size + 1) - 1] + 1
    BY <1>3, <2>1, <2>2
  <2>4. m[r.size] = n[r.size]
    BY <1>2, <1>4
  <2> QED BY <2>1, <2>3, <2>4
<1>8. /\ n \in [0 .. r.size -> Nat] /\ Len(w) = n[r.size] + h /\ n[0] = 0
      /\ \A k \in 0 .. r.size : n[k] <= n[r.size]
  BY <1>1, <1>4 DEF Account, Reads
<1>9. \A k \in 1 .. q.size : Nth(q, k).kind = "eol" => Stands(v[m[k] + h], g[k - 1])
  <2> SUFFICES ASSUME NEW k \in 1 .. q.size, Nth(q, k).kind = "eol"
               PROVE  Stands(v[m[k] + h], g[k - 1])
    OBVIOUS
  <2>1. CASE k \in 1 .. r.size
    <3>1. k \in 0 .. r.size /\ k - 1 \in 0 .. r.size
      BY <1>4, <2>1
    <3>2. Stands(w[n[k] + h], f[k - 1]) /\ n[k] = n[k - 1] + 1
      BY <1>1, <1>3, <2>1 DEF Account, Reads
    <3>3. n[k] + h \in 1 .. Len(w)
      <4>1. n[k] \in Nat /\ n[k - 1] \in Nat /\ n[r.size] \in Nat /\ n[k] <= n[r.size]
        BY <1>4, <1>8, <3>1
      <4>2. n[k] = n[k - 1] + 1 /\ Len(w) = n[r.size] + h
        BY <1>8, <3>2
      <4>3. \A a, b, c \in Nat : a = b + 1 /\ a <= c => a + h \in 1 .. c + h
        OBVIOUS
      <4> QED BY <4>1, <4>2, <4>3
    <3>4. m[k] = n[k] /\ g[k - 1] = f[k - 1]
      BY <1>2, <3>1
    <3>5. v[n[k] + h] = w[n[k] + h]
      BY <1>6, <3>3
    <3> HIDE DEF last
    <3> QED BY <3>2, <3>4, <3>5
  <2>2. CASE k = r.size + 1
    <3>1. k - 1 = r.size /\ m[k] + h = Len(w) + 1
      BY <1>4, <1>7, <1>8, <2>2
    <3>2. ~t => f[r.size] = ty
      BY <1>1 DEF Account
    <3> QED BY <1>2, <1>4, <1>5, <1>6, <3>1, <3>2 DEF Stands
  <2> QED BY <1>3, <1>4, <2>1, <2>2
<1>10. h = 1 => g[0] = <<>> /\ Stands(v[1], l)
  <2>1. h = 1 => w # <<>>
    BY <1>8, <1>4
  <2> QED BY <1>1, <1>2, <1>4, <1>6, <2>1 DEF Account
<1>11. h = 0 /\ Undamaged(v, FALSE) => g[0] = l
  BY <1>1, <1>2, <1>4, <1>5, <1>6 DEF Account, Undamaged
<1>12. Len(v) = m[q.size] + h
  BY <1>3, <1>4, <1>6, <1>7, <1>8
<1>13. Account(q, l, h, v, <<>>, FALSE, g, m)
  BY <1>2, <1>3, <1>7, <1>9, <1>10, <1>11, <1>12 DEF Account, q
<1> QED BY <1>13 DEF Accounts, q, v, last

\* The first character is read.
Unread(r) == [r EXCEPT !.pos = IF r.pos + 1 > RXBUFFERSIZE - 1 THEN 0 ELSE r.pos + 1,
                     !.size = r.size - 1]

\* Reading the first character moves each of the others up by one.
LEMMA RestEffect ==
  ASSUME NEW r \in Rings, r.size > 0
  PROVE  /\ Unread(r) \in Rings /\ Unread(r).size = r.size - 1
         /\ Nth(r, 1) = r.buf[r.pos] /\ Nth(r, 1) \in Chars
         /\ \A k \in 1 .. r.size - 1 : Nth(Unread(r), k) = Nth(r, k + 1)
<1>1. r.pos \in 0 .. RXBUFFERSIZE - 1 /\ r.size \in 0 .. RXBUFFERSIZE
      /\ r.buf \in [0 .. RXBUFFERSIZE - 1 -> Chars]
  BY DEF Rings
<1> DEFINE q == Unread(r)
<1>2. /\ q.size = r.size - 1 /\ q.buf = r.buf
      /\ q.pos = IF r.pos + 1 > RXBUFFERSIZE - 1 THEN 0 ELSE r.pos + 1
  BY DEF Unread, Rings
<1>3. q \in Rings
  <2>1. r.size - 1 \in 0 .. RXBUFFERSIZE
        /\ (IF r.pos + 1 > RXBUFFERSIZE - 1 THEN 0 ELSE r.pos + 1) \in 0 .. RXBUFFERSIZE - 1
    BY <1>1, ClientSizes
  <2> QED BY <2>1 DEF Unread, Rings
<1> HIDE DEF q
<1>4. Nth(r, 1) = r.buf[r.pos]
  BY <1>1, ClientSizes DEF Nth
<1>5. \A k \in 1 .. r.size - 1 : Nth(q, k) = Nth(r, k + 1)
  <2> SUFFICES ASSUME NEW k \in 1 .. r.size - 1 PROVE Nth(q, k) = Nth(r, k + 1)
    OBVIOUS
  <2> DEFINE Slot(p, j) == IF p + j - 1 < RXBUFFERSIZE THEN p + j - 1 ELSE p + j - 1 - RXBUFFERSIZE
  <2>1. Slot(q.pos, k) = Slot(r.pos, k + 1)
    <3> DEFINE s == r.size
               p == r.pos
    <3>1. s \in Nat /\ s <= RXBUFFERSIZE /\ p \in Nat /\ p < RXBUFFERSIZE /\ RXBUFFERSIZE \in Nat
          /\ k \in Nat /\ k >= 1 /\ k <= s - 1
      BY <1>1, ClientSizes
    <3>2. q.pos = IF p + 1 > RXBUFFERSIZE - 1 THEN 0 ELSE p + 1
      BY <1>2
    <3> HIDE DEF s, p
    <3>3. CASE p + 1 > RXBUFFERSIZE - 1
      BY <3>1, <3>2, <3>3 DEF p
    <3>4. CASE ~(p + 1 > RXBUFFERSIZE - 1)
      BY <3>1, <3>2, <3>4 DEF p
    <3> QED BY <3>3, <3>4
  <2> QED BY <1>2, <2>1 DEF Nth
<1> QED BY <1>1, <1>2, <1>3, <1>4, <1>5 DEF q

\* What the rest of the ring reads as, once the first character is taken.
LEMMA ReadsRest ==
  ASSUME NEW r \in Rings, r.size > 0, NEW f, NEW n, Reads(r, f, n)
  PROVE  \E g, m : /\ Reads(Unread(r), g, m)
                   /\ \A k \in 0 .. r.size - 1 : g[k] = f[k + 1] /\ m[k] = n[k + 1] - n[1]
<1> DEFINE s == r.size
           g == [k \in 0 .. s - 1 |-> f[k + 1]]
           m == [k \in 0 .. s - 1 |-> n[k + 1] - n[1]]
           q == Unread(r)
<1>1. s \in Nat \ {0}
  BY ClientSizes DEF Rings
<1>2. q.size = s - 1 /\ \A k \in 1 .. s - 1 : Nth(q, k) = Nth(r, k + 1)
  BY RestEffect
<1>3. /\ f \in [0 .. s -> Seq(Nat)] /\ n \in [0 .. s -> Nat]
      /\ \A i, k \in 0 .. s : i <= k => n[i] <= n[k]
  BY DEF Reads
<1>4. \A k \in 0 .. s - 1 : k + 1 \in 0 .. s /\ 1 \in 0 .. s /\ 1 <= k + 1
  BY <1>1
<1>5. \A k \in 0 .. s - 1 : g[k] = f[k + 1] /\ m[k] = n[k + 1] - n[1]
  OBVIOUS
<1>6. \A k \in 0 .. s - 1 : n[k + 1] \in Nat /\ n[1] \in Nat /\ n[1] <= n[k + 1]
  BY <1>3, <1>4
<1>7. g \in [0 .. s - 1 -> Seq(Nat)] /\ m \in [0 .. s - 1 -> Nat]
  BY <1>3, <1>4, <1>6
<1>8. \A k \in 1 .. s : IF Nth(r, k).kind = "eol" THEN f[k] = <<>> /\ n[k] = n[k - 1] + 1
                        ELSE f[k] = Edited(f[k - 1], Nth(r, k)) /\ n[k] = n[k - 1]
  BY DEF Reads
<1> HIDE DEF g, m, q, s
<1>9. \A k \in 1 .. s - 1 :
        IF Nth(q, k).kind = "eol" THEN g[k] = <<>> /\ m[k] = m[k - 1] + 1
        ELSE g[k] = Edited(g[k - 1], Nth(q, k)) /\ m[k] = m[k - 1]
  <2> TAKE k \in 1 .. s - 1
  <2>1. k + 1 \in 1 .. s /\ k \in 0 .. s - 1 /\ k - 1 \in 0 .. s - 1 /\ k + 1 - 1 = k /\ k - 1 + 1 = k
    BY <1>1
  <2>2. IF Nth(r, k + 1).kind = "eol" THEN f[k + 1] = <<>> /\ n[k + 1] = n[k] + 1
        ELSE f[k + 1] = Edited(f[k], Nth(r, k + 1)) /\ n[k + 1] = n[k]
    BY <1>8, <2>1
  <2>3. /\ g[k] = f[k + 1] /\ g[k - 1] = f[k]
        /\ m[k] = n[k + 1] - n[1] /\ m[k - 1] = n[k] - n[1]
        /\ n[k] \in Nat /\ n[1] \in Nat
    BY <1>5, <1>6, <2>1
  <2> QED BY <1>2, <2>2, <2>3
<1>10. \A i, k \in 0 .. s - 1 : i <= k => m[i] <= m[k]
  <2> SUFFICES ASSUME NEW i \in 0 .. s - 1, NEW k \in 0 .. s - 1, i <= k
               PROVE  m[i] <= m[k]
    OBVIOUS
  <2>1. i + 1 \in 0 .. s /\ k + 1 \in 0 .. s /\ i + 1 <= k + 1
    BY <1>1
  <2>2. n[i + 1] <= n[k + 1]
    BY <1>3, <2>1
  <2> QED BY <1>5, <1>6, <2>2
<1>11. m[0] = 0
  <2>1. 0 \in 0 .. s - 1
    BY <1>1
  <2> QED BY <1>5, <1>6, <2>1
<1>12. Reads(q, g, m)
  BY <1>2, <1>7, <1>9, <1>10, <1>11 DEF Reads
<1> QED BY <1>5, <1>12 DEF q, s

\* The two ends of what has been read.
LEMMA AccountFacts ==
  ASSUME NEW r \in Rings, r.size > 0, NEW l, NEW h, NEW w \in Seq(LineSaid), NEW ty, NEW t,
         NEW f, NEW n, Account(r, l, h, w, ty, t, f, n)
  PROVE  /\ r.size \in 1 .. RXBUFFERSIZE /\ n[0] = 0 /\ n[r.size] \in Nat /\ Len(w) = n[r.size] + h
         /\ \A k \in 0 .. r.size : n[k] \in Nat /\ n[k] <= n[r.size] /\ (k >= 1 => n[1] <= n[k])
         /\ IF Nth(r, 1).kind = "eol" THEN f[1] = <<>> /\ n[1] = 1
            ELSE f[1] = Edited(f[0], Nth(r, 1)) /\ n[1] = 0
<1>1. r.size \in 1 .. RXBUFFERSIZE
  BY ClientSizes DEF Rings
<1>2. /\ n \in [0 .. r.size -> Nat] /\ n[0] = 0
      /\ \A i, k \in 0 .. r.size : i <= k => n[i] <= n[k]
      /\ \A k \in 1 .. r.size :
           IF Nth(r, k).kind = "eol" THEN f[k] = <<>> /\ n[k] = n[k - 1] + 1
           ELSE f[k] = Edited(f[k - 1], Nth(r, k)) /\ n[k] = n[k - 1]
  BY DEF Account, Reads
<1>3. \A k \in 0 .. r.size : n[k] \in Nat /\ n[k] <= n[r.size] /\ (k >= 1 => n[1] <= n[k])
  <2> TAKE k \in 0 .. r.size
  <2>1. r.size \in 0 .. r.size /\ k <= r.size /\ 1 \in 0 .. r.size
    BY <1>1
  <2> QED BY <1>2, <2>1
<1>4. 1 \in 1 .. r.size /\ r.size \in 0 .. r.size /\ 1 - 1 = 0
  BY <1>1
<1>5. IF Nth(r, 1).kind = "eol" THEN f[1] = <<>> /\ n[1] = n[0] + 1
      ELSE f[1] = Edited(f[0], Nth(r, 1)) /\ n[1] = n[0]
  BY <1>2, <1>4
<1> QED BY <1>1, <1>2, <1>3, <1>4, <1>5 DEF Account

\* A character of the line is read: the line goes on from there.
LEMMA AccountRead ==
  ASSUME NEW r \in Rings, r.size > 0, Nth(r, 1).kind # "eol",
         NEW l, NEW w \in Seq(LineSaid), NEW ty, NEW t, Accounts(r, l, 0, w, ty, t)
  PROVE  Accounts(Unread(r), Edited(l, Nth(r, 1)), 0, w, ty, t)
<1>1. PICK f, n : Account(r, l, 0, w, ty, t, f, n)
  BY DEF Accounts
<1>2. PICK g, m : /\ Reads(Unread(r), g, m)
                  /\ \A k \in 0 .. r.size - 1 : g[k] = f[k + 1] /\ m[k] = n[k + 1] - n[1]
  BY <1>1, ReadsRest DEF Account
<1> DEFINE q == Unread(r)
<1>3. q.size = r.size - 1 /\ \A k \in 1 .. r.size - 1 : Nth(q, k) = Nth(r, k + 1)
  BY RestEffect
<1>4. /\ r.size \in 1 .. RXBUFFERSIZE /\ Len(w) = n[r.size] /\ n[1] = 0
      /\ f[1] = Edited(f[0], Nth(r, 1)) /\ \A k \in 0 .. r.size : n[k] \in Nat
  <2>1. /\ r.size \in 1 .. RXBUFFERSIZE /\ n[r.size] \in Nat /\ Len(w) = n[r.size] + 0
        /\ \A k \in 0 .. r.size : n[k] \in Nat
        /\ f[1] = Edited(f[0], Nth(r, 1)) /\ n[1] = 0
    BY <1>1, AccountFacts
  <2> QED BY <2>1
<1> HIDE DEF q
<1>5. \A k \in 0 .. r.size - 1 : k + 1 \in 0 .. r.size /\ m[k] = n[k + 1]
  BY <1>2, <1>4
<1>6. /\ 0 \in 0 .. r.size - 1 /\ r.size - 1 \in 0 .. r.size - 1 /\ 0 + 1 = 1
      /\ r.size - 1 + 1 = r.size
  BY <1>4
<1>7. g[q.size] = f[r.size] /\ m[q.size] = n[r.size] /\ g[0] = f[1]
  BY <1>2, <1>3, <1>5, <1>6
<1>8. \A k \in 1 .. q.size : Nth(q, k).kind = "eol" => Stands(w[m[k] + 0], g[k - 1])
  <2> SUFFICES ASSUME NEW k \in 1 .. q.size, Nth(q, k).kind = "eol"
               PROVE  Stands(w[m[k] + 0], g[k - 1])
    OBVIOUS
  <2>1. /\ k \in 1 .. r.size - 1 /\ k \in 0 .. r.size - 1 /\ k - 1 \in 0 .. r.size - 1
        /\ k + 1 \in 1 .. r.size /\ k + 1 - 1 = k /\ k - 1 + 1 = k
    BY <1>3, <1>4
  <2>2. Stands(w[n[k + 1] + 0], f[k])
    BY <1>1, <1>3, <2>1 DEF Account
  <2>3. m[k] = n[k + 1] /\ g[k - 1] = f[k]
    BY <1>2, <1>5, <2>1
  <2> QED BY <2>2, <2>3
<1>9. Account(q, Edited(l, Nth(r, 1)), 0, w, ty, t, g, m)
  BY <1>1, <1>2, <1>4, <1>7, <1>8 DEF Account, q
<1> QED BY <1>9 DEF Accounts, q

\* A line end is read: the line that was wanted first stands before the ring.
LEMMA AccountReadEnd ==
  ASSUME NEW r \in Rings, r.size > 0, Nth(r, 1).kind = "eol",
         NEW l, NEW w \in Seq(LineSaid), NEW ty, NEW t, Accounts(r, l, 0, w, ty, t)
  PROVE  Accounts(Unread(r), l, 1, w, ty, t)
<1>1. PICK f, n : Account(r, l, 0, w, ty, t, f, n)
  BY DEF Accounts
<1>2. PICK g, m : /\ Reads(Unread(r), g, m)
                  /\ \A k \in 0 .. r.size - 1 : g[k] = f[k + 1] /\ m[k] = n[k + 1] - n[1]
  BY <1>1, ReadsRest DEF Account
<1> DEFINE q == Unread(r)
<1>3. q.size = r.size - 1 /\ \A k \in 1 .. r.size - 1 : Nth(q, k) = Nth(r, k + 1)
  BY RestEffect
<1>4. /\ r.size \in 1 .. RXBUFFERSIZE /\ Len(w) = n[r.size] /\ n[1] = 1
      /\ f[1] = <<>> /\ \A k \in 0 .. r.size : n[k] \in Nat /\ n[k] <= n[r.size]
  <2>1. /\ r.size \in 1 .. RXBUFFERSIZE /\ n[r.size] \in Nat /\ Len(w) = n[r.size] + 0
        /\ \A k \in 0 .. r.size : n[k] \in Nat /\ n[k] <= n[r.size]
        /\ f[1] = <<>> /\ n[1] = 1
    BY <1>1, AccountFacts
  <2> QED BY <2>1
<1> HIDE DEF q
<1>5. \A k \in 0 .. r.size - 1 : k + 1 \in 0 .. r.size /\ m[k] + 1 = n[k + 1]
  BY <1>2, <1>4
<1>6. /\ 0 \in 0 .. r.size - 1 /\ r.size - 1 \in 0 .. r.size - 1 /\ 0 + 1 = 1
      /\ r.size - 1 + 1 = r.size /\ 1 \in 0 .. r.size /\ 1 \in 1 .. r.size
  BY <1>4
<1>7. g[q.size] = f[r.size] /\ m[q.size] + 1 = n[r.size] /\ g[0] = f[1]
  BY <1>2, <1>3, <1>5, <1>6
<1>8. \A k \in 1 .. q.size : Nth(q, k).kind = "eol" => Stands(w[m[k] + 1], g[k - 1])
  <2> SUFFICES ASSUME NEW k \in 1 .. q.size, Nth(q, k).kind = "eol"
               PROVE  Stands(w[m[k] + 1], g[k - 1])
    OBVIOUS
  <2>1. /\ k \in 1 .. r.size - 1 /\ k \in 0 .. r.size - 1 /\ k - 1 \in 0 .. r.size - 1
        /\ k + 1 \in 1 .. r.size /\ k + 1 \in 0 .. r.size /\ k + 1 - 1 = k /\ k - 1 + 1 = k
    BY <1>3, <1>4
  <2>2. Stands(w[n[k + 1] + 0], f[k]) /\ n[k + 1] + 0 = n[k + 1]
    BY <1>1, <1>3, <1>4, <2>1 DEF Account
  <2>3. m[k] + 1 = n[k + 1] /\ g[k - 1] = f[k]
    BY <1>2, <1>5, <2>1
  <2> QED BY <2>2, <2>3
<1>9. Stands(w[1], l)
  <2>1. Stands(w[n[1] + 0], f[0])
    BY <1>1, <1>6 DEF Account
  <2>2. w # <<>>
    BY <1>4, <1>6
  <2>3. Undamaged(w, t) => f[0] = l
    BY <1>1 DEF Account
  <2> QED BY <1>4, <2>1, <2>2, <2>3 DEF Stands, Undamaged
<1>10. Account(q, l, 1, w, ty, t, g, m)
  BY <1>1, <1>2, <1>4, <1>7, <1>8, <1>9 DEF Account, q
<1> QED BY <1>10 DEF Accounts, q

\* The line that was read to its end is executed.
LEMMA AccountDone ==
  ASSUME NEW r \in Rings, NEW l, NEW w \in Seq(LineSaid), NEW ty, NEW t,
         Accounts(r, l, 1, w, ty, t)
  PROVE  /\ w # <<>> /\ Stands(w[1], l)
         /\ Accounts(r, <<>>, 0, Tail(w), ty, t)
<1>1. PICK f, n : Account(r, l, 1, w, ty, t, f, n)
  BY DEF Accounts
<1>2. r.size \in Nat /\ r.size \in 0 .. r.size
  BY ClientSizes DEF Rings
<1>3. /\ n \in [0 .. r.size -> Nat] /\ Len(w) = n[r.size] + 1 /\ f[0] = <<>> /\ Stands(w[1], l)
      /\ \A i, k \in 0 .. r.size : i <= k => n[i] <= n[k]
  BY <1>1 DEF Account, Reads
<1>4. w # <<>> /\ Tail(w) \in Seq(LineSaid) /\ Len(Tail(w)) = n[r.size]
      /\ \A j \in 1 .. n[r.size] : Tail(w)[j] = w[j + 1]
  <2>1. n[r.size] \in Nat
    BY <1>2, <1>3
  <2>2. Len(w) = n[r.size] + 1
    BY <1>3
  <2> DEFINE N == n[r.size]
  <2> HIDE DEF N
  <2>3. N \in Nat /\ Len(w) = N + 1
    BY <2>1, <2>2 DEF N
  <2>4. w # <<>> /\ Tail(w) \in Seq(LineSaid) /\ Len(Tail(w)) = N
    BY <2>3
  <2>5. \A j \in 1 .. N : Tail(w)[j] = w[j + 1]
    BY <2>3
  <2> QED BY <2>4, <2>5 DEF N
<1> DEFINE v == Tail(w)
<1>5. \A k \in 1 .. r.size : Nth(r, k).kind = "eol" => Stands(v[n[k] + 0], f[k - 1])
  <2> SUFFICES ASSUME NEW k \in 1 .. r.size, Nth(r, k).kind = "eol"
               PROVE  Stands(v[n[k] + 0], f[k - 1])
    OBVIOUS
  <2>1. Stands(w[n[k] + 1], f[k - 1]) /\ n[k] = n[k - 1] + 1
    BY <1>1 DEF Account, Reads
  <2>2. k - 1 \in 0 .. r.size /\ k \in 0 .. r.size /\ k <= r.size
    BY <1>2
  <2>3. n[k] \in Nat /\ n[k - 1] \in Nat /\ n[k] <= n[r.size] /\ n[r.size] \in Nat
    BY <1>2, <1>3, <2>2
  <2>4. n[k] + 0 = n[k] /\ n[k] \in 1 .. n[r.size]
    BY <2>1, <2>3
  <2> QED BY <1>4, <2>1, <2>4
<1>6. Len(v) = n[r.size] + 0
  BY <1>2, <1>3, <1>4
<1> HIDE DEF v
<1>7. Account(r, <<>>, 0, v, ty, t, f, n)
  BY <1>1, <1>3, <1>5, <1>6 DEF Account
<1> QED BY <1>3, <1>4, <1>7 DEF Accounts, v

\* A full line swallows a character of itself ...
LEMMA AccountCut ==
  ASSUME NEW r \in Rings, r.size > 0, Nth(r, 1).kind # "eol",
         NEW l, NEW w \in Seq(LineSaid), NEW ty, NEW t, Accounts(r, l, 0, w, ty, t)
  PROVE  /\ w = <<>> => Accounts(Unread(r), <<>>, 0, w, ty, TRUE)
         /\ w # <<>> => Accounts(Unread(r), <<>>, 0, [w EXCEPT ![1].long = TRUE], ty, t)
<1>1. Accounts(Unread(r), Edited(l, Nth(r, 1)), 0, w, ty, t)
  BY AccountRead
<1>2. PICK f, n : Account(Unread(r), Edited(l, Nth(r, 1)), 0, w, ty, t, f, n)
  BY <1>1 DEF Accounts
<1>3. w = <<>> => Account(Unread(r), <<>>, 0, w, ty, TRUE, f, n)
  BY <1>2 DEF Account, Undamaged
<1>4. ASSUME w # <<>>
      PROVE  Account(Unread(r), <<>>, 0, [w EXCEPT ![1].long = TRUE], ty, t, f, n)
  <2> DEFINE v == [w EXCEPT ![1].long = TRUE]
  <2>1. v[1].long /\ Len(v) = Len(w) /\ v # <<>>
    <3>1. w[1] \in LineSaid /\ 1 \in 1 .. Len(w)
      BY <1>4
    <3>2. [w[1] EXCEPT !.long = TRUE] \in LineSaid /\ [w[1] EXCEPT !.long = TRUE].long
      BY <3>1 DEF LineSaid
    <3>3. v = [w EXCEPT ![1] = [w[1] EXCEPT !.long = TRUE]]
      OBVIOUS
    <3>4. v \in Seq(LineSaid) /\ Len(v) = Len(w) /\ v[1] = [w[1] EXCEPT !.long = TRUE]
      <4> DEFINE e == [w[1] EXCEPT !.long = TRUE]
      <4>1. e \in LineSaid /\ v = [w EXCEPT ![1] = e]
        BY <3>2, <3>3
      <4> HIDE DEF e, v
      <4>2. /\ v \in Seq(LineSaid) /\ Len(v) = Len(w)
            /\ \A j \in 1 .. Len(w) : v[j] = IF j = 1 THEN e ELSE w[j]
        BY <3>1, <4>1, ExceptSeq
      <4> QED BY <3>1, <4>2 DEF e
    <3> QED BY <3>1, <3>2, <3>4
  <2>2. \A j : j # 1 => v[j] = w[j]
    OBVIOUS
  <2> HIDE DEF v
  <2>3. \A k \in 1 .. Unread(r).size : Nth(Unread(r), k).kind = "eol" => Stands(v[n[k] + 0], f[k - 1])
    BY <1>2, <2>1, <2>2 DEF Account, Stands
  <2>4. ~Undamaged(v, t)
    BY <2>1 DEF Undamaged
  <2>5. Account(Unread(r), <<>>, 0, v, ty, t, f, n)
    BY <1>2, <2>1, <2>3, <2>4 DEF Account
  <2> QED BY <2>5 DEF v
<1> QED BY <1>3, <1>4 DEF Accounts

\* ... or its line end, and then is no line.
LEMMA AccountCutEnd ==
  ASSUME NEW r \in Rings, r.size > 0, Nth(r, 1).kind = "eol",
         NEW l, NEW w \in Seq(LineSaid), NEW ty, NEW t, Accounts(r, l, 0, w, ty, t)
  PROVE  w # <<>> /\ Accounts(Unread(r), <<>>, 0, Tail(w), ty, t)
<1>1. Accounts(Unread(r), l, 1, w, ty, t) /\ Unread(r) \in Rings
  BY AccountReadEnd, RestEffect
<1> QED BY <1>1, AccountDone

-----------------------------------------------------------------------------
(***************************************************************************)
(* Why a line is executed as it was typed.  What the ring of a client      *)
(* still holds leads from the text in its line buffer, or from an empty    *)
(* one at the line's end, to what the client is typing, and meets each     *)
(* line wanted on the way, except where a character is known to be         *)
(* missing.  It holds for the rings a begin() has not reached yet only     *)
(* outside of a restart, and only while no begin() fell into a write.      *)
(***************************************************************************)
Beginning == main.at \in {"begin", "beginPos", "lines"}
Wiped(c) == main.twice \/ c < main.client \/ (c = main.client /\ main.at # "begin")
Hand(c) == IF main.at = "eol" /\ main.client = c THEN 1 ELSE 0
Before(c) == IF Beginning THEN <<>> ELSE line[c]
Contents(c) == Accounts(ring[c], Before(c), Hand(c), want[c], typed[c], torn[c])

LineInv ==
  /\ ~raced => \A c \in Clients : (Beginning => Wiped(c)) => Contents(c)
  /\ main.at = "lines" => main.twice
  /\ LineWhole

\* The rings are empty at power-up.
LEMMA LineInit == ClientsInit => LineInv
<1> SUFFICES ASSUME ClientsInit PROVE LineInv
  OBVIOUS
<1>1. ASSUME NEW c \in Clients PROVE Contents(c)
  <2>1. ring[c] \in Rings /\ ring[c].size = 0
    <3>1. ClientTypes
      BY ClientsInitTypes
    <3>2. ring[c].size = 0
      BY DEF ClientsInit
    <3> QED BY <3>1, <3>2 DEF ClientTypes, ClientBuffers
  <2>2. Before(c) = <<>> /\ Hand(c) = 0 /\ want[c] = <<>> /\ typed[c] = <<>> /\ torn[c] = FALSE
    BY DEF ClientsInit, Before, Beginning, Hand
  <2>3. Accounts(ring[c], <<>>, 0, <<>>, <<>>, <<>> # <<>>)
    <3>1. <<>> \in Seq(Nat)
      OBVIOUS
    <3> QED BY <2>1, <3>1, AccountEmpty
  <2>4. (<<>> # <<>>) = FALSE
    OBVIOUS
  <2> QED BY <2>2, <2>3, <2>4 DEF Contents
<1>2. main.at # "lines" /\ LineWhole
  BY DEF ClientsInit, LineWhole, Empty
<1> QED BY <1>1, <1>2 DEF LineInv

\* What the input task does without its client's ring.
LEMMA LineFetch ==
  ASSUME LineInv, UNCHANGED <<ring, line, main, typed, torn, want, raced, ran>>
  PROVE  LineInv'
BY DEF LineInv, Beginning, Wiped, Contents, Before, Hand, LineWhole

\* A character that is refused or dropped.
LEMMA LineLost ==
  ASSUME ClientTypes, LineInv, Refuse \/ Drop
  PROVE  LineInv'
<1>1. PICK c \in Clients : c = input.client
  BY DEF ClientTypes, ClientTasks
<1>2. /\ UNCHANGED <<ring, line, main, raced, ran>>
      /\ Typed(c, input.ch, TRUE)
  BY <1>1 DEF Refuse, Drop
<1>3. /\ torn \in [Clients -> BOOLEAN] /\ typed \in [Clients -> Seq(Nat)]
  BY DEF ClientTypes, ClientHistory
<1>4. /\ torn'[c] = TRUE /\ want' = want
      /\ \A d \in Clients : d # c => torn'[d] = torn[d] /\ typed'[d] = typed[d]
  BY <1>2, <1>3 DEF Typed
<1>5. ASSUME NEW d \in Clients, Contents(d) PROVE Contents(d)'
  <2>1. CASE d = c
    BY <1>2, <1>4, <1>5, <2>1, AccountLost DEF Contents, Before, Hand, Beginning
  <2>2. CASE d # c
    BY <1>2, <1>4, <1>5, <2>2 DEF Contents, Before, Hand, Beginning
  <2> QED BY <2>1, <2>2
<1> QED BY <1>2, <1>5 DEF LineInv, LineWhole, Beginning, Wiped

\* A character that is written.
LEMMA LineStore ==
  ASSUME ClientTypes, LineInv, Store
  PROVE  LineInv'
<1>1. PICK c \in Clients : c = input.client
  BY DEF ClientTypes, ClientTasks
<1> DEFINE ch == input.ch
<1>2. /\ input.size < RXBUFFERSIZE /\ UNCHANGED <<line, main, ran>>
      /\ ring' = [ring EXCEPT ![c].buf[Place(ring[c].pos, input.size)] = ch,
                              ![c].size = input.size + 1]
      /\ raced' = (raced \/ ring[c].size # input.size)
      /\ Typed(c, ch, FALSE)
  BY <1>1 DEF Store
<1>3. /\ torn \in [Clients -> BOOLEAN] /\ typed \in [Clients -> Seq(Nat)] /\ ch \in Chars
      /\ ring \in [Clients -> Rings] /\ want \in [Clients -> Seq(LineSaid)]
  BY DEF ClientTypes, ClientHistory, ClientTasks, ClientBuffers
<1>4. \A d \in Clients : d # c =>
        torn'[d] = torn[d] /\ typed'[d] = typed[d] /\ want'[d] = want[d] /\ ring'[d] = ring[d]
  BY <1>2, <1>3 DEF Typed
<1>5. ASSUME ~raced', NEW d \in Clients, Contents(d) PROVE Contents(d)'
  <2>1. Before(d)' = Before(d) /\ Hand(d)' = Hand(d) /\ Hand(d) \in {0, 1}
    BY <1>2 DEF Before, Hand, Beginning
  <2>2. CASE d # c
    BY <1>4, <1>5, <2>1, <2>2 DEF Contents
  <2>3. CASE d = c
    <3>1. ring[c].size = input.size /\ ring'[c] = Written(ring[c], ch)
      BY <1>2, <1>3, <1>5 DEF Written, Rings
    <3>2. CASE ch.kind = "eol"
      <4>1. /\ typed'[c] = <<>> /\ torn'[c] = FALSE
            /\ want'[c] = Append(want[c], [text |-> typed[c], whole |-> ~torn[c], long |-> FALSE])
        BY <1>2, <1>3, <3>2 DEF Typed
      <4>2. Accounts(Written(ring[c], ch), Before(c), Hand(c),
                     Append(want[c], [text |-> typed[c], whole |-> ~torn[c], long |-> FALSE]),
                     <<>>, FALSE)
        <5>1. Accounts(ring[c], Before(c), Hand(c), want[c], typed[c], torn[c])
          BY <1>5, <2>3 DEF Contents
        <5>2. /\ ring[c] \in Rings /\ ring[c].size < RXBUFFERSIZE /\ Hand(c) \in {0, 1}
              /\ want[c] \in Seq(LineSaid) /\ typed[c] \in Seq(Nat) /\ torn[c] \in BOOLEAN
          BY <1>2, <1>3, <2>1, <2>3, <3>1
        <5>3. ch \in Chars /\ ch.kind = "eol"
          BY <1>3, <3>2
        <5> DEFINE r == ring[c]
                   b == Before(c)
                   h == Hand(c)
                   w == want[c]
                   x == typed[c]
                   y == torn[c]
        <5> HIDE DEF ch, r, b, h, w, x, y
        <5>4. /\ r \in Rings /\ r.size < RXBUFFERSIZE /\ h \in {0, 1}
              /\ w \in Seq(LineSaid) /\ x \in Seq(Nat) /\ y \in BOOLEAN
              /\ Accounts(r, b, h, w, x, y)
          BY <5>1, <5>2 DEF r, b, h, w, x, y
        <5>5. Accounts(Written(r, ch), b, h,
                       Append(w, [text |-> x, whole |-> ~y, long |-> FALSE]), <<>>, FALSE)
          BY <5>3, <5>4, AccountEnd
        <5> QED BY <5>5 DEF r, b, h, w, x, y
      <4> QED BY <2>1, <2>3, <3>1, <4>1, <4>2 DEF Contents
    <3>3. CASE ch.kind # "eol"
      <4>1. typed'[c] = Edited(typed[c], ch) /\ torn'[c] = torn[c] /\ want'[c] = want[c]
        BY <1>2, <1>3, <3>3 DEF Typed
      <4>2. Accounts(Written(ring[c], ch), Before(c), Hand(c), want[c],
                     Edited(typed[c], ch), torn[c])
        BY <1>2, <1>3, <1>5, <2>3, <3>1, <3>3, AccountChar DEF Contents
      <4> QED BY <2>1, <2>3, <3>1, <4>1, <4>2 DEF Contents
    <3> QED BY <3>2, <3>3
  <2> QED BY <2>2, <2>3
<1>6. ~raced' => ~raced
  BY <1>2
<1> QED BY <1>2, <1>5, <1>6 DEF LineInv, LineWhole, Beginning, Wiped

\* A character that is read: it goes on with the line, ends it, or finds it full.
LEMMA LineRead ==
  ASSUME ClientTypes, LineInv, Read
  PROVE  LineInv'
<1>1. PICK c \in Clients : c = main.client
  BY DEF ClientTypes, ClientTasks
<1> DEFINE r == ring[c]
           ch == r.buf[r.pos]
           overflow == ch.kind # "back" /\ Full(c)
<1>2. /\ main.at = "scan" /\ r.size > 0 /\ UNCHANGED <<typed, raced, ran>>
      /\ ring' = [ring EXCEPT ![c].pos = IF @ + 1 > RXBUFFERSIZE - 1 THEN 0 ELSE @ + 1,
                              ![c].size = @ - 1]
      /\ main' = [main EXCEPT !.at = IF ch.kind = "eol" /\ ~overflow THEN "eol" ELSE "scan"]
      /\ line' = [line EXCEPT ![c] = IF overflow THEN <<>>
                                     ELSE IF ch.kind = "eol" THEN @ ELSE Edited(@, ch)]
      /\ IF overflow
         THEN IF ch.kind = "eol"
              THEN want' = [want EXCEPT ![c] = IF @ = <<>> THEN @ ELSE Tail(@)] /\ torn' = torn
              ELSE IF want[c] = <<>>
              THEN torn' = [torn EXCEPT ![c] = TRUE] /\ want' = want
              ELSE want' = [want EXCEPT ![c][1].long = TRUE] /\ torn' = torn
         ELSE want' = want /\ torn' = torn
  BY <1>1 DEF Read, MainTo
<1>3. /\ torn \in [Clients -> BOOLEAN] /\ want \in [Clients -> Seq(LineSaid)]
      /\ ring \in [Clients -> Rings] /\ r \in Rings /\ line \in [Clients -> Seq(Nat)]
      /\ main.client = c
      /\ main \in [at : {"scan", "eol", "round", "begin", "beginPos", "lines"},
                   client : Clients, twice : BOOLEAN]
  BY <1>1 DEF ClientTypes, ClientHistory, ClientTasks, ClientBuffers
<1>4. ring'[c] = Unread(r) /\ ch = Nth(r, 1)
  <2>1. ring'[c] = Unread(r)
    BY <1>2, <1>3 DEF Unread, Rings
  <2> QED BY <1>2, <1>3, <2>1, RestEffect
<1>5. \A d \in Clients : d # c =>
        ring'[d] = ring[d] /\ line'[d] = line[d] /\ want'[d] = want[d] /\ torn'[d] = torn[d]
  BY <1>2, <1>3
<1>6. /\ main'.client = c /\ main'.twice = main.twice
      /\ main'.at = IF ch.kind = "eol" /\ ~overflow THEN "eol" ELSE "scan"
  BY <1>2, <1>3
<1>7. /\ ~Beginning /\ ~Beginning' /\ \A d \in Clients : Hand(d) = 0 /\ Before(d) = line[d]
      /\ \A d \in Clients : Before(d)' = line'[d]
      /\ \A d \in Clients : d # c => Hand(d)' = 0
      /\ Hand(c)' = IF ch.kind = "eol" /\ ~overflow THEN 1 ELSE 0
  BY <1>2, <1>6 DEF Beginning, Hand, Before
<1> HIDE DEF r, ch, overflow
<1>8. ASSUME ~raced, NEW d \in Clients PROVE Contents(d)'
  <2>1. Accounts(ring[d], line[d], 0, want[d], typed[d], torn[d])
    BY <1>7, <1>8 DEF LineInv, Contents
  <2>2. CASE d # c
    BY <1>2, <1>5, <1>7, <2>1, <2>2 DEF Contents
  <2>3. CASE d = c
    <3>1. Accounts(r, line[c], 0, want[c], typed[c], torn[c])
      BY <2>1, <2>3 DEF r
    <3>2. CASE ~overflow /\ ch.kind # "eol"
      <4>1. line'[c] = Edited(line[c], ch) /\ want'[c] = want[c] /\ torn'[c] = torn[c]
        BY <1>2, <1>3, <3>2
      <4>2. Accounts(Unread(r), Edited(line[c], ch), 0, want[c], typed[c], torn[c])
        BY <1>2, <1>3, <1>4, <3>1, <3>2, AccountRead
      <4> QED BY <1>2, <1>4, <1>7, <2>3, <3>2, <4>1, <4>2 DEF Contents
    <3>3. CASE ~overflow /\ ch.kind = "eol"
      <4>1. line'[c] = line[c] /\ want'[c] = want[c] /\ torn'[c] = torn[c]
        BY <1>2, <1>3, <3>3
      <4> QED BY <1>2, <1>3, <1>4, <1>7, <2>3, <3>1, <3>3, <4>1, AccountReadEnd DEF Contents
    <3>4. CASE overflow /\ ch.kind = "eol"
      <4>2. want[c] # <<>> /\ Accounts(Unread(r), <<>>, 0, Tail(want[c]), typed[c], torn[c])
        BY <1>2, <1>3, <1>4, <3>1, <3>4, AccountCutEnd
      <4>3. line'[c] = <<>> /\ want'[c] = Tail(want[c]) /\ torn'[c] = torn[c]
        BY <1>2, <1>3, <3>4, <4>2
      <4> QED BY <1>2, <1>4, <1>7, <2>3, <3>4, <4>2, <4>3 DEF Contents
    <3>5. CASE overflow /\ ch.kind # "eol"
      <4>1. /\ want[c] = <<>> => Accounts(Unread(r), <<>>, 0, want[c], typed[c], TRUE)
            /\ want[c] # <<>> =>
                 Accounts(Unread(r), <<>>, 0, [want[c] EXCEPT ![1].long = TRUE], typed[c], torn[c])
        BY <1>2, <1>3, <1>4, <3>1, <3>5, AccountCut
      <4>2. CASE want[c] = <<>>
        <5>1. line'[c] = <<>> /\ want'[c] = want[c] /\ torn'[c] = TRUE
          BY <1>2, <1>3, <3>5, <4>2
        <5> QED BY <1>2, <1>4, <1>7, <2>3, <3>5, <4>1, <4>2, <5>1 DEF Contents
      <4>3. CASE want[c] # <<>>
        <5>1. line'[c] = <<>> /\ want'[c] = [want[c] EXCEPT ![1].long = TRUE] /\ torn'[c] = torn[c]
          BY <1>2, <1>3, <3>5, <4>3
        <5> QED BY <1>2, <1>4, <1>7, <2>3, <3>5, <4>1, <4>3, <5>1 DEF Contents
      <4> QED BY <4>2, <4>3
    <3> QED BY <3>2, <3>3, <3>4, <3>5
  <2> QED BY <2>2, <2>3
<1> QED BY <1>2, <1>6, <1>7, <1>8 DEF LineInv, LineWhole

\* The line is executed: it is the one wanted first.
LEMMA LineExecute ==
  ASSUME ClientTypes, LineInv, Execute
  PROVE  LineInv'
<1>1. PICK c \in Clients : c = main.client
  BY DEF ClientTypes, ClientTasks
<1>2. /\ main.at = "eol" /\ UNCHANGED <<ring, typed, torn, raced>>
      /\ main' = [main EXCEPT !.at = "scan"]
      /\ ran' = [text |-> line[c], want |-> Wanted(c)]
      /\ want' = [want EXCEPT ![c] = IF @ = <<>> THEN @ ELSE Tail(@)]
      /\ line' = [line EXCEPT ![c] = <<>>]
  BY <1>1 DEF Execute, MainTo
<1>3. /\ want \in [Clients -> Seq(LineSaid)] /\ ring \in [Clients -> Rings]
      /\ line \in [Clients -> Seq(Nat)]
      /\ main \in [at : {"scan", "eol", "round", "begin", "beginPos", "lines"},
                   client : Clients, twice : BOOLEAN]
  BY DEF ClientTypes, ClientHistory, ClientTasks, ClientBuffers
<1>4. /\ ~Beginning /\ ~Beginning' /\ main'.at = "scan" /\ main'.client = c
      /\ Hand(c) = 1 /\ \A d \in Clients : d # c => Hand(d) = 0
      /\ \A d \in Clients : Hand(d)' = 0 /\ Before(d) = line[d] /\ Before(d)' = line'[d]
  BY <1>1, <1>2, <1>3 DEF Beginning, Hand, Before
<1>5. ASSUME ~raced PROVE Contents(c)' /\ LineWhole'
  <2>1. Accounts(ring[c], line[c], 1, want[c], typed[c], torn[c])
    BY <1>4, <1>5 DEF LineInv, Contents
  <2>2. /\ want[c] # <<>> /\ Stands(want[c][1], line[c])
        /\ Accounts(ring[c], <<>>, 0, Tail(want[c]), typed[c], torn[c])
    BY <1>3, <2>1, AccountDone
  <2>3. want'[c] = Tail(want[c]) /\ line'[c] = <<>>
    BY <1>2, <1>3, <2>2
  <2>4. Wanted(c) = want[c][1]
    BY <1>3, <2>2 DEF Wanted
  <2>5. ran'.text = line[c] /\ ran'.want = want[c][1]
    BY <1>2, <2>4
  <2> QED BY <1>2, <1>4, <2>2, <2>3, <2>5 DEF Contents, LineWhole, Stands
<1>6. ASSUME ~raced, NEW d \in Clients, d # c PROVE Contents(d)'
  <2>1. want'[d] = want[d] /\ line'[d] = line[d]
    BY <1>2, <1>3, <1>6
  <2> QED BY <1>2, <1>4, <1>6, <2>1 DEF LineInv, Contents
<1> QED BY <1>2, <1>4, <1>5, <1>6 DEF LineInv, LineWhole

\* begin() empties a ring and puts it back to its start.
LEMMA LineBegin ==
  ASSUME ClientTypes, LineInv, BeginSize \/ BeginPos
  PROVE  LineInv'
<1>1. PICK c \in Clients : c = main.client
  BY DEF ClientTypes, ClientTasks
<1>2. /\ want \in [Clients -> Seq(LineSaid)] /\ ring \in [Clients -> Rings]
      /\ torn \in [Clients -> BOOLEAN] /\ typed \in [Clients -> Seq(Nat)]
      /\ main \in [at : {"scan", "eol", "round", "begin", "beginPos", "lines"},
                   client : Clients, twice : BOOLEAN]
  BY DEF ClientTypes, ClientHistory, ClientTasks, ClientBuffers
<1>3. CASE BeginSize
  <2>1. /\ main.at = "begin" /\ UNCHANGED <<line, typed, raced, ran>>
        /\ ring' = [ring EXCEPT ![c].size = 0] /\ want' = [want EXCEPT ![c] = <<>>]
        /\ torn' = [torn EXCEPT ![c] = typed[c] # <<>>]
        /\ main' = [main EXCEPT !.at = "beginPos"]
    BY <1>1, <1>3 DEF BeginSize, MainTo
  <2>2. main'.at = "beginPos" /\ main'.client = c /\ main'.twice = main.twice
    BY <1>1, <1>2, <2>1
  <2>3. /\ Beginning /\ Beginning'
        /\ \A d \in Clients : Hand(d) = 0 /\ Hand(d)' = 0 /\ Before(d) = <<>> /\ Before(d)' = <<>>
    BY <2>1, <2>2 DEF Beginning, Hand, Before
  <2>4. Contents(c)'
    <3>1. [ring[c] EXCEPT !.size = 0] \in Rings /\ [ring[c] EXCEPT !.size = 0].size = 0
      <4>1. ring[c] \in Rings /\ 0 \in 0 .. RXBUFFERSIZE
        BY <1>2, ClientSizes
      <4> QED BY <4>1 DEF Rings
    <3>2. Accounts([ring[c] EXCEPT !.size = 0], <<>>, 0, <<>>, typed[c], typed[c] # <<>>)
      BY <1>2, <3>1, AccountEmpty
    <3>3. /\ ring'[c] = [ring[c] EXCEPT !.size = 0] /\ want'[c] = <<>> /\ typed'[c] = typed[c]
          /\ torn'[c] = (typed[c] # <<>>)
      BY <1>2, <2>1
    <3> QED BY <2>3, <3>2, <3>3 DEF Contents
  <2>5. ASSUME NEW d \in Clients, d # c, ~raced, Wiped(d)' PROVE Contents(d)'
    <3>1. Wiped(d)
      BY <1>1, <2>2, <2>5 DEF Wiped
    <3>2. Contents(d)
      BY <2>5, <3>1 DEF LineInv
    <3>3. ring'[d] = ring[d] /\ want'[d] = want[d] /\ torn'[d] = torn[d]
      BY <1>2, <2>1, <2>5
    <3> QED BY <2>1, <2>3, <3>2, <3>3 DEF Contents
  <2> QED BY <2>1, <2>2, <2>3, <2>4, <2>5 DEF LineInv, LineWhole
<1>4. CASE BeginPos
  <2>1. /\ main.at = "beginPos" /\ UNCHANGED <<line, typed, torn, want, ran>>
        /\ ring' = [ring EXCEPT ![c].pos = 0]
        /\ raced' = (raced \/ (ring[c].size > 0 /\ ring[c].pos # 0))
        /\ main' = IF ~LastOne(c) THEN [main EXCEPT !.at = "begin", !.client = c + 1]
                   ELSE [at |-> IF main.twice THEN "lines" ELSE "begin",
                         client |-> 0, twice |-> TRUE]
    BY <1>1, <1>4 DEF BeginPos
  <2>2. /\ main'.at \in {"begin", "lines"} /\ (main'.at = "lines" => main'.twice)
        /\ \/ main'.twice /\ (main.twice \/ c = CLIENT_COUNT - 1)
           \/ main'.client = c + 1 /\ main'.at = "begin" /\ main'.twice = main.twice
    BY <1>2, <2>1 DEF LastOne
  <2>3. /\ Beginning /\ Beginning'
        /\ \A d \in Clients : Hand(d) = 0 /\ Hand(d)' = 0 /\ Before(d) = <<>> /\ Before(d)' = <<>>
    BY <2>1, <2>2 DEF Beginning, Hand, Before
  <2>4. ASSUME NEW d \in Clients, Wiped(d)' PROVE Wiped(d)
    <3>1. c \in Nat /\ d \in Nat /\ d <= CLIENT_COUNT - 1 /\ CLIENT_COUNT \in Nat
      BY ClientSizes DEF Clients
    <3>2. main.twice \/ d < c \/ d = c => Wiped(d)
      BY <1>1, <2>1 DEF Wiped
    <3>3. CASE main'.twice /\ (main.twice \/ c = CLIENT_COUNT - 1)
      BY <3>1, <3>2, <3>3
    <3>4. CASE main'.client = c + 1 /\ main'.at = "begin" /\ main'.twice = main.twice
      <4>1. main.twice \/ d < c + 1
        BY <2>4, <3>4 DEF Wiped
      <4> QED BY <3>1, <3>2, <4>1
    <3> QED BY <2>2, <3>3, <3>4
  <2>5. ASSUME NEW d \in Clients, ~raced', Wiped(d)' PROVE Contents(d)'
    <3>1. Accounts(ring[d], <<>>, 0, want[d], typed[d], torn[d])
      BY <2>1, <2>3, <2>4, <2>5 DEF LineInv, Contents
    <3>2. CASE d = c
      <4>1. ring[c].size = 0 \/ ring[c].pos = 0
        <5>1. ~(ring[c].size > 0 /\ ring[c].pos # 0)
          BY <2>1, <2>5
        <5>2. ring[c].size \in Nat
          BY <1>2, ClientSizes DEF Rings
        <5> QED BY <5>1, <5>2
      <4>2. Accounts([ring[c] EXCEPT !.pos = 0], <<>>, 0, want[c], typed[c], torn[c])
        BY <1>2, <3>1, <3>2, <4>1, AccountMoved
      <4>3. ring'[c] = [ring[c] EXCEPT !.pos = 0]
        BY <1>2, <2>1
      <4> QED BY <2>1, <2>3, <3>2, <4>2, <4>3 DEF Contents
    <3>3. CASE d # c
      <4>1. ring'[d] = ring[d]
        BY <1>2, <2>1, <3>3
      <4> QED BY <2>1, <2>3, <3>1, <4>1 DEF Contents
    <3> QED BY <3>2, <3>3
  <2> QED BY <2>1, <2>2, <2>3, <2>5 DEF LineInv, LineWhole
<1> QED BY <1>3, <1>4

\* The steps of the main task that leave rings and lines alone, and the one that empties
\* the lines once every ring has been wiped.
LEMMA LineRest ==
  ASSUME ClientTypes, LineInv, Scan \/ Round \/ LoopAbort \/ EmptyLines
  PROVE  LineInv'
<1>1. main \in [at : {"scan", "eol", "round", "begin", "beginPos", "lines"},
                client : Clients, twice : BOOLEAN]
  BY DEF ClientTypes, ClientTasks
<1>2. CASE Scan \/ Round
  <2>1. /\ UNCHANGED <<ring, line, typed, torn, want, raced, ran>>
        /\ main.at \in {"scan", "round"} /\ main'.at \in {"scan", "round"}
    BY <1>1, <1>2 DEF Scan, Round, history
  <2> QED BY <2>1 DEF LineInv, LineWhole, Beginning, Contents, Before, Hand
<1>3. CASE LoopAbort
  <2>1. /\ UNCHANGED <<ring, line, typed, torn, want, raced, ran>>
        /\ main' = [at |-> "begin", client |-> 0, twice |-> FALSE]
    BY <1>3 DEF LoopAbort, history
  <2>2. Beginning' /\ \A c \in Clients : ~Wiped(c)'
    BY <2>1, ClientSizes DEF Beginning, Wiped, Clients
  <2> QED BY <2>1, <2>2 DEF LineInv, LineWhole
<1>4. CASE EmptyLines
  <2>1. /\ UNCHANGED <<ring, typed, torn, want, raced, ran>> /\ main.at = "lines"
        /\ main'.at = "scan" /\ \A c \in Clients : line'[c] = <<>>
    BY <1>1, <1>4 DEF EmptyLines, history, MainTo
  <2>2. \A c \in Clients : Wiped(c)
    BY <2>1 DEF LineInv, Wiped
  <2> QED BY <2>1, <2>2 DEF LineInv, LineWhole, Beginning, Contents, Before, Hand
<1> QED BY <1>2, <1>3, <1>4

\* Every step keeps the account of the lines.
LEMMA LineNext == ClientTypes /\ LineInv /\ [ClientsNext]_clientVars => LineInv'
<1> SUFFICES ASSUME ClientTypes, LineInv, [ClientsNext]_clientVars PROVE LineInv'
  OBVIOUS
<1>1. CASE UNCHANGED clientVars \/ FetchReset \/ Lock \/ \E c \in Clients, kind \in Kinds : Fetch(c, kind)
  BY <1>1, LineFetch DEF clientVars, history, FetchReset, Lock, Fetch
<1>2. CASE Refuse \/ Drop \/ Store
  BY <1>2, LineLost, LineStore
<1>3. CASE MainLoop
  BY <1>3, LineRead, LineExecute, LineBegin, LineRest DEF MainLoop
<1> QED BY <1>1, <1>2, <1>3 DEF ClientsNext, InputStep

\* Serial.cpp, InputBuffer.cpp and Protocol.cpp: for any number of clients, characters and
\* resets, and any size of rings and lines, a line that reached its ring whole and was not
\* too long is executed as it was typed and edited, unless a begin() fell into a write.
THEOREM LinesRunAsTyped == ClientsSpec => []LineWhole
<1>1. LineInv => LineWhole
  BY DEF LineInv
<1> QED BY <1>1, ClientsInitTypes, ClientsNextTypes, LineInit, LineNext, PTL DEF ClientsSpec

=============================================================================
