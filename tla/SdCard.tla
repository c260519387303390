-------------------------------- MODULE SdCard --------------------------------
(***************************************************************************)
(* The SD card and those who share it: the job that the main task runs     *)
(* from a file, the card commands of a client, a reset, and, in a build    *)
(* with WiFi, the requests of the web server, which the input task serves. *)
(* They agree on who has the card through one variable, sd_state, that is  *)
(* tested and set without a lock, and the job goes on through one flag:    *)
(* report_status_message() sets SD_ready_next instead of sending "ok".     *)
(*                                                                         *)
(* A file is the number of its lines; what a line does is its outcome:     *)
(* accepted, not supported (the job goes on) or an error (the job ends).   *)
(* The two tasks run on different cores: what one does between two         *)
(* accesses of the other to sd_state, to SD_ready_next or to the file is a *)
(* step.  A file system or the card may refuse any operation.              *)
(***************************************************************************)
EXTENDS Integers, FiniteSets

CONSTANTS
    MaxFile,      \* bound: lines of a file
    MaxLines,     \* bound: lines the clients send
    MaxRequests,  \* bound: requests to the web server
    MaxParts,     \* bound: parts of an upload
    MaxResets     \* bound: resets

ASSUME SdCardAssumption ==
    {MaxFile, MaxLines, MaxRequests, MaxParts, MaxResets} \subseteq Nat

VARIABLES
    wifi,       \* the build has ENABLE_WIFI: it serves web requests
    sd,         \* sd_state
    file,       \* myFile: open, the lines left, sd_current_line_number
    ready,      \* SD_ready_next
    task,       \* of the main task and the input task: where each is
    inbox,      \* lines of clients in the rings
    reset,      \* sys_rt_exec_state.bit.reset
    upload,     \* _upload_status, and the upload at hand
    cut,        \* history: a line was executed of which the end is missing
    disturbed,  \* history: sd_state was set by another than the job that is open
    budget      \* what is left of the bounds

vars == <<wifi, sd, file, ready, task, inbox, reset, upload, cut, disturbed, budget>>

Tasks == {"main", "web"}
States == {"Idle", "NotPresent", "Printing", "Uploading", "Parsing"}
Busy == {"Printing", "Uploading", "Parsing"}
Outcomes == {"ok", "unsupported", "error"}
Commands == {"run", "show", "list", "delete"}
Requests == {"run", "listing", "download", "uploadSd", "uploadFs", "uploadFw"}

Rest == [at |-> "idle", doing |-> "none", out |-> "ok"]
NoFile == [open |-> FALSE, left |-> 0, no |-> 0]
NoUpload == [status |-> "none", open |-> FALSE, sent |-> 0, written |-> 0]

Init ==
    /\ wifi \in BOOLEAN
    /\ sd = "Idle" /\ file = NoFile /\ ready = FALSE
    /\ task = [main |-> [Rest EXCEPT !.at = "loop"], web |-> Rest]
    /\ inbox = 0 /\ reset = FALSE /\ upload = NoUpload
    /\ cut = FALSE /\ disturbed = FALSE
    /\ budget = [lines |-> MaxLines, requests |-> MaxRequests, resets |-> MaxResets]

At(t, p) == task[t].at = p
Doing(t, d) == task[t].doing \in d
Goto(t, p) == task' = [task EXCEPT ![t].at = p]
Answering(t, o) == task' = [task EXCEPT ![t] = [at |-> "answer", doing |-> "line", out |-> o]]

\* A store to sd_state by one who has not opened the job: it may hit an open one.
SetByOther(s) == sd' = s /\ disturbed' = (disturbed \/ file.open)

\* Mutant: the card is not given back.
BadCloseFile ==
    IF file.open
    THEN UNCHANGED sd /\ ready' = FALSE /\ file' = [NoFile EXCEPT !.left = file.left]
    ELSE UNCHANGED <<sd, ready, file>>

\* closeFile() does nothing without a file.
CloseFile ==
    IF file.open
    THEN sd' = "Idle" /\ ready' = FALSE /\ file' = [NoFile EXCEPT !.left = file.left]
    ELSE UNCHANGED <<sd, ready, file>>

(***************************************************************************)
(* The input task: characters, realtime reset, web requests                *)
(***************************************************************************)
\* A line of a client reaches its ring only while the card is not in use.
Arrive ==
    /\ At("web", "idle") /\ budget.lines > 0 /\ sd \notin Busy
    /\ budget' = [budget EXCEPT !.lines = @ - 1]
    /\ inbox' = inbox + 1
    /\ UNCHANGED <<wifi, sd, file, ready, task, reset, upload, cut, disturbed>>

\* Mutant: the file is closed before the reset is flagged, and no flag follows.
BadReset ==
    /\ At("web", "idle") /\ budget.resets > 0 /\ ~reset
    /\ budget' = [budget EXCEPT !.resets = @ - 1]
    /\ IF sd = "Printing" THEN CloseFile ELSE UNCHANGED <<sd, file, ready>>
    /\ UNCHANGED <<wifi, reset, task, inbox, upload, cut, disturbed>>

\* mc_reset() ends a job that is printing.
Reset ==
    /\ At("web", "idle") /\ budget.resets > 0 /\ ~reset
    /\ budget' = [budget EXCEPT !.resets = @ - 1]
    /\ reset' = TRUE
    /\ IF sd = "Printing" THEN CloseFile ELSE UNCHANGED <<sd, file, ready>>
    /\ UNCHANGED <<wifi, task, inbox, upload, cut, disturbed>>

\* A request: a command or a page looks at the card first, an upload to the
\* flash or of the firmware opens its target or fails.
Request(d) ==
    /\ wifi /\ At("web", "idle") /\ budget.requests > 0
    /\ budget' = [budget EXCEPT !.requests = @ - 1]
    /\ \E p \in IF d \in {"uploadFs", "uploadFw"} THEN {"uploading"} ELSE {"refresh"} :
        task' = [task EXCEPT !.web = [at |-> p, doing |-> d, out |-> "ok"]]
    /\ IF d \in {"uploadFs", "uploadFw"}
       THEN \E s \in {"ongoing", "failed"} :
              upload' = [NoUpload EXCEPT !.status = s, !.open = s = "ongoing"]
       ELSE IF d = "uploadSd" THEN upload' = [NoUpload EXCEPT !.status = "ongoing"]
       ELSE UNCHANGED upload
    /\ UNCHANGED <<wifi, sd, file, ready, inbox, reset, cut, disturbed>>

(***************************************************************************)
(* get_sd_state(true) and what the caller makes of it                      *)
(***************************************************************************)
Refresh(t) ==
    /\ At(t, "refresh") /\ sd \notin Busy
    /\ sd' = "NotPresent"
    /\ Goto(t, "probe")
    /\ UNCHANGED <<wifi, file, ready, inbox, reset, upload, cut, disturbed, budget>>

\* openFile() for a job or to show a file, its first line about to be read.
Open(t) ==
    /\ At(t, "probe") /\ Doing(t, {"run", "show"})
    /\ sd' = "Printing" /\ ready' = FALSE
    /\ \E n \in 0 .. MaxFile : file' = [open |-> TRUE, left |-> n, no |-> 0]
    /\ disturbed' = file.open
    /\ Goto(t, IF Doing(t, {"run"}) THEN "reading" ELSE "showing")
    /\ UNCHANGED <<wifi, inbox, reset, upload, cut, budget>>

\* The card is there and free: the other uses of it.
Take(t) ==
    /\ At(t, "probe") /\ ~Doing(t, {"run", "show"})
    /\ CASE Doing(t, {"list", "delete"}) ->
              SetByOther("Idle") /\ UNCHANGED upload
              /\ \E o \in {"ok", "error"} : Answering(t, o)
         [] Doing(t, {"listing"}) ->
              SetByOther("Parsing") /\ Goto(t, "parsing") /\ UNCHANGED upload
         [] Doing(t, {"download"}) ->
              SetByOther("Uploading") /\ Goto(t, "sending") /\ UNCHANGED upload
         [] Doing(t, {"uploadSd"}) ->
              SetByOther("Uploading") /\ Goto(t, "uploading")
              /\ upload' = [upload EXCEPT !.open = TRUE]
    /\ UNCHANGED <<wifi, file, ready, inbox, reset, cut, budget>>

\* There is no card, no such file, or the card is in use.  A refused upload ends
\* like a failed one: its end makes the card Idle whoever has it; a download
\* answers that the card is not available and goes on all the same.
Refused(t) ==
    /\ \/ At(t, "probe") /\ sd' \in {"Idle", "NotPresent"}
       \/ At(t, "refresh") /\ sd \in Busy /\ sd' = sd /\ ~Doing(t, {"uploadSd"})
       \/ At(t, "refresh") /\ sd \in Busy /\ sd' = "Idle" /\ Doing(t, {"uploadSd"})
       \/ At(t, "refresh") /\ sd \in Busy /\ sd' = "Uploading" /\ Doing(t, {"download"})
    /\ Doing(t, {"uploadSd"}) => sd' = "Idle"
    /\ disturbed' = (disturbed \/ (file.open /\ sd' # sd))
    /\ upload' = IF Doing(t, {"uploadSd"}) THEN [upload EXCEPT !.status = "failed"] ELSE upload
    /\ IF t = "main" THEN Answering(t, "error")
       ELSE Goto(t, IF Doing(t, {"uploadSd"}) THEN "uploading"
                    ELSE IF sd' = "Uploading" /\ Doing(t, {"download"}) THEN "sending"
                    ELSE "idle")
    /\ UNCHANGED <<wifi, file, ready, inbox, reset, cut, budget>>

\* The list is made, the file sent: the card is Idle again.
GiveBack ==
    /\ task.web.at \in {"parsing", "sending"}
    /\ SetByOther("Idle")
    /\ Goto("web", "idle")
    /\ UNCHANGED <<wifi, file, ready, inbox, reset, upload, cut, budget>>

\* ESP221: every line is printed, then the file is closed.
Show ==
    /\ At("main", "showing")
    /\ CloseFile
    /\ Answering("main", "ok")
    /\ UNCHANGED <<wifi, inbox, reset, upload, cut, disturbed, budget>>

(***************************************************************************)
(* Uploads                                                                 *)
(***************************************************************************)
\* A failed upload of a file for the card makes the card Idle and is removed.
Failed ==
    /\ upload' = [upload EXCEPT !.status = "failed", !.open = FALSE]
    /\ IF Doing("web", {"uploadSd"}) THEN SetByOther("Idle") ELSE UNCHANGED <<sd, disturbed>>

Accepts ==
    /\ upload.status = "ongoing"
    /\ Doing("web", {"uploadSd", "uploadFs"}) => upload.open
    /\ Doing("web", {"uploadSd"}) => sd = "Uploading"

\* Mutant: a part that could not be written is forgotten.
BadPart ==
    /\ At("web", "uploading") /\ upload.sent < MaxParts
    /\ \E w \in {0, 1} :
        upload' = [upload EXCEPT !.sent = @ + 1, !.written = @ + w]
    /\ UNCHANGED <<wifi, sd, file, ready, task, inbox, reset, cut, disturbed, budget>>

Part ==
    /\ At("web", "uploading") /\ upload.sent < MaxParts
    /\ \/ /\ Accepts
          /\ upload' = [upload EXCEPT !.sent = @ + 1, !.written = @ + 1]
          /\ UNCHANGED <<sd, disturbed>>
       \/ /\ upload' = [upload EXCEPT !.status = "failed", !.open = FALSE, !.sent = @ + 1]
          /\ IF Doing("web", {"uploadSd"}) THEN SetByOther("Idle")
             ELSE UNCHANGED <<sd, disturbed>>
    /\ UNCHANGED <<wifi, file, ready, task, inbox, reset, cut, budget>>

\* The last part has come: the size is right, or the upload has failed.  The page
\* that follows is a list of the card, or of the flash, or restarts the controller.
UploadEnds ==
    /\ At("web", "uploading")
    /\ \/ /\ upload.status = "ongoing"
          /\ upload' = [upload EXCEPT !.status = "successful", !.open = FALSE]
          /\ IF Doing("web", {"uploadSd"}) THEN SetByOther("Idle") ELSE UNCHANGED <<sd, disturbed>>
       \/ Failed
    /\ Goto("web", "page")
    /\ UNCHANGED <<wifi, file, ready, inbox, reset, cut, budget>>

\* The browser went away.
UploadAborted ==
    /\ At("web", "uploading")
    /\ Failed
    /\ Goto("web", "idle")
    /\ UNCHANGED <<wifi, file, ready, inbox, reset, cut, budget>>

\* The page after an upload forgets how it ended.
Page ==
    /\ At("web", "page")
    /\ ~(Doing("web", {"uploadFw"}) /\ upload.status = "successful")
    /\ upload' = NoUpload
    /\ task' = [task EXCEPT !.web = IF Doing("web", {"uploadSd"})
                                    THEN [at |-> "refresh", doing |-> "listing", out |-> "ok"]
                                    ELSE Rest]
    /\ UNCHANGED <<wifi, sd, file, ready, inbox, reset, cut, disturbed, budget>>

\* handleUpdate() after a successful upload: the controller restarts.
Restart ==
    /\ At("web", "page") /\ Doing("web", {"uploadFw"}) /\ upload.status = "successful"
    /\ sd' = "Idle" /\ file' = NoFile /\ ready' = FALSE
    /\ task' = [main |-> [Rest EXCEPT !.at = "loop"], web |-> Rest]
    /\ inbox' = 0 /\ reset' = FALSE /\ upload' = NoUpload
    /\ disturbed' = FALSE
    /\ UNCHANGED <<wifi, cut, budget>>

(***************************************************************************)
(* The lines of a job                                                      *)
(***************************************************************************)
\* The main loop looks at the flag first.  Without a file an error is reported,
\* the job is said to be done, and nothing clears the flag.
Loop ==
    /\ At("main", "loop")
    /\ task' = [task EXCEPT !.main.doing = "job",
                            !.main.at = IF ready /\ file.open THEN "reading" ELSE "lines"]
    /\ UNCHANGED <<wifi, sd, file, ready, inbox, reset, upload, cut, disturbed, budget>>

\* Mutant: the line is counted, the file not read on.
BadReadLine(t) ==
    /\ At(t, "reading") /\ file.open /\ file.left > 0
    /\ file' = [file EXCEPT !.no = @ + 1]
    /\ ready' = IF Doing(t, {"job"}) THEN FALSE ELSE ready
    /\ Goto(t, "exec")
    /\ UNCHANGED <<wifi, sd, inbox, reset, upload, cut, disturbed, budget>>

\* readFileLine() has read to the end of a line, or to where the file was closed.
ReadLine(t) ==
    /\ At(t, "reading")
    /\ \/ /\ file.open /\ file.left > 0
          /\ file' = [file EXCEPT !.left = @ - 1, !.no = @ + 1]
          /\ UNCHANGED cut
       \/ /\ ~file.open
          /\ cut' = (cut \/ ~reset)
          /\ UNCHANGED file
    /\ ready' = IF Doing(t, {"job"}) THEN FALSE ELSE ready
    /\ Goto(t, "exec")
    /\ UNCHANGED <<wifi, sd, inbox, reset, upload, disturbed, budget>>

\* No line, or one too long for the buffer, which is taken for the end: the job is over.
LastLine(t) ==
    /\ At(t, "reading")
    /\ CloseFile
    /\ IF Doing(t, {"job"}) THEN Goto(t, "lines")
       ELSE IF t = "main" THEN Answering(t, "ok") ELSE Goto(t, "idle")
    /\ UNCHANGED <<wifi, inbox, reset, upload, cut, disturbed, budget>>

\* execute_line() returns, with whatever the line had to wait for behind it.
Executed(t) ==
    /\ At(t, "exec")
    /\ \E o \in Outcomes : task' = [task EXCEPT ![t].at = "answer", ![t].out = o]
    /\ UNCHANGED <<wifi, sd, file, ready, inbox, reset, upload, cut, disturbed, budget>>

\* After the answer of the first line of a job the command itself is answered.
Answered(t) ==
    task' = [task EXCEPT ![t] =
        IF t = "web" THEN Rest
        ELSE IF Doing(t, {"run"}) THEN [at |-> "answer", doing |-> "line", out |-> "ok"]
        ELSE [@ EXCEPT !.at = "lines"]]

\* Mutant: a line that is not supported is answered, and the job not fed.
BadAnswer(t) ==
    /\ At(t, "answer")
    /\ IF sd = "Printing" /\ task[t].out = "ok"
       THEN Goto(t, "feed") /\ UNCHANGED <<sd, file, ready>>
       ELSE /\ IF sd = "Printing" /\ task[t].out = "error" THEN CloseFile
               ELSE UNCHANGED <<sd, file, ready>>
            /\ Answered(t)
    /\ UNCHANGED <<wifi, inbox, reset, upload, cut, disturbed, budget>>

\* report_status_message(): whoever sent the line, while a job prints its answer
\* is the job's.  The state is tested first and the flag set after.
Answer(t) ==
    /\ At(t, "answer")
    /\ IF sd = "Printing" /\ task[t].out \in {"ok", "unsupported"}
       THEN Goto(t, "feed") /\ UNCHANGED <<sd, file, ready>>
       ELSE /\ IF sd = "Printing" THEN CloseFile ELSE UNCHANGED <<sd, file, ready>>
            /\ Answered(t)
    /\ UNCHANGED <<wifi, inbox, reset, upload, cut, disturbed, budget>>

Feed(t) ==
    /\ At(t, "feed")
    /\ ready' = TRUE
    /\ Answered(t)
    /\ UNCHANGED <<wifi, sd, file, inbox, reset, upload, cut, disturbed, budget>>

(***************************************************************************)
(* The lines of the clients                                                *)
(***************************************************************************)
Line ==
    /\ At("main", "lines") /\ inbox > 0 /\ ~reset
    /\ inbox' = inbox - 1
    /\ \E d \in Commands \cup {"line"} :
        task' = [task EXCEPT !.main = [at |-> IF d = "line" THEN "exec" ELSE "refresh",
                                       doing |-> d, out |-> "ok"]]
    /\ UNCHANGED <<wifi, sd, file, ready, reset, upload, cut, disturbed, budget>>

EndOfRound ==
    /\ At("main", "lines") /\ inbox = 0 /\ ~reset
    /\ Goto("main", "loop")
    /\ UNCHANGED <<wifi, sd, file, ready, inbox, reset, upload, cut, disturbed, budget>>

\* protocol_main_loop() is left and entered anew with empty rings.
Abort ==
    /\ At("main", "lines") /\ reset
    /\ reset' = FALSE /\ inbox' = 0
    /\ Goto("main", "loop")
    /\ UNCHANGED <<wifi, sd, file, ready, upload, cut, disturbed, budget>>

Card(t) == Refresh(t) \/ Open(t) \/ Take(t) \/ Refused(t)
Job(t) == ReadLine(t) \/ LastLine(t) \/ Executed(t) \/ Answer(t) \/ Feed(t)
MainStep == Loop \/ Line \/ EndOfRound \/ Abort \/ Show \/ Card("main") \/ Job("main")
WebStep == GiveBack \/ Part \/ UploadEnds \/ UploadAborted \/ Page \/ Restart
           \/ Card("web") \/ Job("web")

Next ==
    \/ Arrive
    \/ Reset
    \/ \E d \in Requests : Request(d)
    \/ MainStep
    \/ WebStep

Spec == Init /\ [][Next]_vars

\* Both tasks are scheduled, and a file has an end.
FairSpec == Spec /\ WF_vars(MainStep) /\ WF_vars(WebStep)

(***************************************************************************)
(* Properties                                                              *)
(***************************************************************************)
\* The shape of the state.
TypeOK ==
    /\ wifi \in BOOLEAN /\ ready \in BOOLEAN /\ reset \in BOOLEAN
    /\ sd \in States
    /\ file.left \in 0 .. MaxFile /\ file.no + file.left \in 0 .. MaxFile
    /\ task.main.doing \in {"none", "job", "line"} \cup Commands
    /\ task.web.doing \in {"none"} \cup Requests
    /\ upload.status \in {"none", "ongoing", "successful", "failed"}

\* sd_state tells whether a job is open, and without web requests nothing can
\* make it say otherwise: a reset, a card command or the end of a job meets the
\* other task in no order that leaves a file open under an idle card.
JobKnown ==
    /\ ~disturbed => (file.open <=> sd = "Printing")
    /\ ~wifi => ~disturbed

\* A line of which the end is missing, its file closed under the reader, is
\* executed only when a reset is pending that throws it away.
NothingCut == ~wifi => ~cut

\* An upload is called successful only if every part of it was written.
UploadWhole == upload.status = "successful" => upload.written = upload.sent

\* A job comes to its end, whatever other lines are answered while it runs, unless
\* a web request has taken the card from it.
JobEnds == file.open ~> (~file.open \/ disturbed)
=============================================================================
