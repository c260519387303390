------------------------------- MODULE Clients -------------------------------
(***************************************************************************)
(* From the characters of the clients to the lines that are executed.      *)
(*                                                                         *)
(*   clientCheckTask   takes a character of a client, acts on a realtime   *)
(*                     command at once, refuses the others while an SD job *)
(*                     runs, and writes the rest to the client's ring;     *)
(*   main task         reads the rings, edits a line per client, executes  *)
(*                     it at its end and answers; after an abort it empties*)
(*                     the rings and the lines and starts again.           *)
(*                                                                         *)
(* The tasks run on different cores.  A write to a ring and a read of it   *)
(* exclude each other (myMutex); begin(), which empties a ring, takes no   *)
(* lock, so its two stores fall anywhere among those of a write, and a     *)
(* read while a reset is at work is the only access that finds them apart. *)
(* A character is its number and its kind; a line is a sequence of         *)
(* numbers.  What the client typed is kept beside what the program makes   *)
(* of it: want is the lines it has finished, typed the one it is at.       *)
(* SdCard is the other source of lines; one module of proofs extends both, *)
(* so that their names are kept apart.                                     *)
(***************************************************************************)
EXTENDS Integers, Sequences, SequencesExt

CONSTANTS
    CLIENT_COUNT,      \* the clients, read in the order of their numbers
    Serial,            \* the one whose driver holds characters back
    RXBUFFERSIZE,      \* characters a ring holds (256)
    LINE_BUFFER_SIZE,  \* 256: a line holds one character less
    MaxChars,          \* bound: characters typed
    MaxRestarts        \* bound: resets

ASSUME ClientsAssumption ==
    /\ CLIENT_COUNT \in Nat /\ Serial \in 0 .. CLIENT_COUNT - 1
    /\ RXBUFFERSIZE \in Nat \ {0} /\ LINE_BUFFER_SIZE \in Nat \ {0, 1}
    /\ MaxChars \in Nat /\ MaxRestarts \in Nat

VARIABLES
    ring,      \* client_buffer: buf, pos, size
    line,      \* client_lines[].buffer
    input,     \* clientCheckTask: where it is and what it holds
    main,      \* the main task: where it is and the client at hand
    printing,  \* sd_state = BusyPrinting
    rtReset,   \* sys_rt_exec_state.bit.reset
    typed,     \* history: the line each client is typing, edited
    torn,      \* history: a character of that line was refused, dropped, wiped
    want,      \* history: the lines typed and not yet read to their end
    raced,     \* history: begin() fell into a write
    ran,       \* history: the line last executed and the one it stands for
    left       \* characters and resets left (bounds)

history == <<typed, torn, want, raced, ran>>
clientVars == <<ring, line, input, main, printing, rtReset, history, left>>

Clients == 0 .. CLIENT_COUNT - 1
Kinds == {"char", "back", "eol"}
None == [kind |-> "none", num |-> 0]
Empty == [text |-> <<>>, whole |-> TRUE, long |-> FALSE]

\* Simple editing: the text after one more character of the line.
Edited(text, ch) ==
    IF ch.kind = "back"
    THEN IF text = <<>> THEN text ELSE Front(text)
    ELSE Append(text, ch.num)

ClientsInit ==
    /\ ring = [c \in Clients |-> [buf |-> [i \in 0 .. RXBUFFERSIZE - 1 |-> None],
                                  pos |-> 0, size |-> 0]]
    /\ line = [c \in Clients |-> <<>>]
    /\ input = [at |-> "poll", client |-> Serial, ch |-> None, size |-> 0]
    /\ main = [at |-> "scan", client |-> 0, twice |-> FALSE]
    /\ printing = FALSE /\ rtReset = FALSE
    /\ typed = [c \in Clients |-> <<>>] /\ torn = [c \in Clients |-> FALSE]
    /\ want = [c \in Clients |-> <<>>]
    /\ raced = FALSE /\ ran = [text |-> <<>>, want |-> Empty]
    /\ left = [chars |-> MaxChars, resets |-> MaxRestarts]

(***************************************************************************)
(* clientCheckTask                                                         *)
(***************************************************************************)
\* What reaches the ring of the line: at its end it is wanted, whole or torn.
Typed(c, ch, lost) ==
    IF ch.kind = "eol"
    THEN /\ typed' = [typed EXCEPT ![c] = <<>>]
         /\ torn' = [torn EXCEPT ![c] = lost]
         /\ want' = IF lost THEN want
                    ELSE [want EXCEPT ![c] = Append(@,
                            [text |-> typed[c], whole |-> ~torn[c], long |-> FALSE])]
    ELSE /\ typed' = [typed EXCEPT ![c] = Edited(@, ch)]
         /\ torn' = [torn EXCEPT ![c] = @ \/ lost]
         /\ UNCHANGED want

\* A character of the serial driver is left there while the ring is full.
Fetch(c, kind) ==
    /\ input.at = "poll" /\ left.chars > 0
    /\ c = Serial => ring[c].size < RXBUFFERSIZE
    /\ left' = [left EXCEPT !.chars = @ - 1]
    /\ input' = [at |-> "test", client |-> c, size |-> 0,
                 ch |-> [kind |-> kind, num |-> left.chars]]
    /\ UNCHANGED <<ring, line, main, printing, rtReset, history>>

\* mc_reset(): it ends the SD job, for it is printing.
FetchReset ==
    /\ input.at = "poll" /\ left.resets > 0
    /\ left' = [left EXCEPT !.resets = @ - 1]
    /\ rtReset' = TRUE
    /\ printing' = (printing /\ rtReset)
    /\ UNCHANGED <<ring, line, input, main, history>>

\* An SD job runs: the character is thrown away, the client told at a line end.
Refuse ==
    /\ input.at = "test" /\ printing
    /\ Typed(input.client, input.ch, TRUE)
    /\ input' = [input EXCEPT !.at = "poll"]
    /\ UNCHANGED <<ring, line, main, printing, rtReset, raced, ran, left>>

Lock ==
    /\ input.at = "test" /\ ~printing
    /\ input' = [input EXCEPT !.at = "locked", !.size = ring[input.client].size]
    /\ UNCHANGED <<ring, line, main, printing, rtReset, history, left>>

\* A full ring takes nothing, and nothing is said: the serial client never meets it.
Drop ==
    /\ input.at = "locked" /\ input.size >= RXBUFFERSIZE
    /\ Typed(input.client, input.ch, TRUE)
    /\ input' = [input EXCEPT !.at = "poll"]
    /\ UNCHANGED <<ring, line, main, printing, rtReset, raced, ran, left>>

\* The place of a character, as the code computes it.
Place(pos, size) ==
    LET current == IF pos + size > RXBUFFERSIZE THEN pos + size - RXBUFFERSIZE
                   ELSE pos + size
    IN IF current > RXBUFFERSIZE - 1 THEN 0 ELSE current

\* The size was read when the lock was taken: a begin() between is undone.
Store ==
    /\ input.at = "locked" /\ input.size < RXBUFFERSIZE
    /\ LET c == input.client IN
        /\ ring' = [ring EXCEPT ![c].buf[Place(ring[c].pos, input.size)] = input.ch,
                                ![c].size = input.size + 1]
        /\ raced' = (raced \/ ring[c].size # input.size)
        /\ Typed(c, input.ch, FALSE)
    /\ input' = [input EXCEPT !.at = "poll"]
    /\ UNCHANGED <<line, main, printing, rtReset, ran, left>>

(***************************************************************************)
(* The main task                                                           *)
(***************************************************************************)
MainTo(p) == main' = [main EXCEPT !.at = p]
LastOne(c) == c = CLIENT_COUNT - 1

\* client_read() of an empty ring: the next client, or the end of the round.
Scan ==
    /\ main.at = "scan" /\ input.at # "locked"
    /\ ring[main.client].size = 0
    /\ main' = IF LastOne(main.client) THEN [main EXCEPT !.at = "round"]
               ELSE [main EXCEPT !.client = @ + 1]
    /\ UNCHANGED <<ring, line, input, printing, rtReset, history, left>>

\* Mutant: the length is tested one character late.
BadFull(c) == Len(line[c]) = LINE_BUFFER_SIZE

\* add_char_to_line(): a backspace first, then the length, then the line end,
\* so that a line end too is swallowed by a line that is full.
Full(c) == Len(line[c]) = LINE_BUFFER_SIZE - 1
Wanted(c) == IF want[c] = <<>> THEN [Empty EXCEPT !.whole = FALSE] ELSE Head(want[c])

Read ==
    /\ main.at = "scan" /\ input.at # "locked"
    /\ LET c  == main.client
           r  == ring[c]
           ch == r.buf[r.pos]
           overflow == ch.kind # "back" /\ Full(c)
       IN /\ r.size > 0
          /\ ring' = [ring EXCEPT ![c].pos = IF @ + 1 > RXBUFFERSIZE - 1 THEN 0 ELSE @ + 1,
                                  ![c].size = @ - 1]
          /\ MainTo(IF ch.kind = "eol" /\ ~overflow THEN "eol" ELSE "scan")
          /\ line' = [line EXCEPT ![c] = IF overflow THEN <<>>
                                         ELSE IF ch.kind = "eol" THEN @ ELSE Edited(@, ch)]
          /\ IF overflow
             THEN IF ch.kind = "eol"
                  THEN want' = [want EXCEPT ![c] = IF @ = <<>> THEN @ ELSE Tail(@)]
                       /\ UNCHANGED torn
                  ELSE IF want[c] = <<>>
                  THEN torn' = [torn EXCEPT ![c] = TRUE] /\ UNCHANGED want
                  ELSE want' = [want EXCEPT ![c][1].long = TRUE] /\ UNCHANGED torn
             ELSE UNCHANGED <<want, torn>>
    /\ UNCHANGED <<input, printing, rtReset, typed, raced, ran, left>>

\* Mutant: the line is not emptied after it was executed.
BadExecute ==
    /\ main.at = "eol" /\ ~rtReset
    /\ LET c == main.client IN
        /\ ran' = [text |-> line[c], want |-> Wanted(c)]
        /\ want' = [want EXCEPT ![c] = IF @ = <<>> THEN @ ELSE Tail(@)]
    /\ printing' \in {printing, TRUE}
    /\ MainTo("scan")
    /\ UNCHANGED <<ring, line, input, rtReset, typed, torn, raced, left>>

\* execute_line() and its answer; the line may be the one that starts an SD job.
Execute ==
    /\ main.at = "eol" /\ ~rtReset
    /\ LET c == main.client IN
        /\ ran' = [text |-> line[c], want |-> Wanted(c)]
        /\ want' = [want EXCEPT ![c] = IF @ = <<>> THEN @ ELSE Tail(@)]
        /\ line' = [line EXCEPT ![c] = <<>>]
    /\ printing' \in {printing, TRUE}
    /\ MainTo("scan")
    /\ UNCHANGED <<ring, input, rtReset, typed, torn, raced, left>>

\* Mutant: the scan of the clients goes on from the last one.
BadRound ==
    /\ main.at = "round" /\ ~rtReset
    /\ printing' \in {printing, FALSE}
    /\ MainTo("scan")
    /\ UNCHANGED <<ring, line, input, rtReset, history, left>>

\* The end of a round; the file of the job may have come to its end.
Round ==
    /\ main.at = "round" /\ ~rtReset
    /\ printing' \in {printing, FALSE}
    /\ main' = [main EXCEPT !.at = "scan", !.client = 0]
    /\ UNCHANGED <<ring, line, input, rtReset, history, left>>

\* protocol_execute_realtime() sees the reset: the main loop is left, the line
\* at hand is not executed, and reset_variables() forgets the reset.
LoopAbort ==
    /\ main.at \in {"eol", "round"} /\ rtReset
    /\ main' = [at |-> "begin", client |-> 0, twice |-> FALSE]
    /\ rtReset' = FALSE
    /\ UNCHANGED <<ring, line, input, printing, history, left>>

\* begin(): the size, then the position, of one ring after the other, once in
\* reset_variables() and once in protocol_main_loop().
BeginSize ==
    /\ main.at = "begin"
    /\ LET c == main.client IN
        /\ ring' = [ring EXCEPT ![c].size = 0]
        /\ want' = [want EXCEPT ![c] = <<>>]
        /\ torn' = [torn EXCEPT ![c] = typed[c] # <<>>]
    /\ MainTo("beginPos")
    /\ UNCHANGED <<line, input, printing, rtReset, typed, raced, ran, left>>

BeginPos ==
    /\ main.at = "beginPos"
    /\ LET c == main.client IN
        /\ ring' = [ring EXCEPT ![c].pos = 0]
        /\ raced' = (raced \/ (ring[c].size > 0 /\ ring[c].pos # 0))
        /\ main' = IF ~LastOne(c) THEN [main EXCEPT !.at = "begin", !.client = c + 1]
                   ELSE [at |-> IF main.twice THEN "lines" ELSE "begin",
                         client |-> 0, twice |-> TRUE]
    /\ UNCHANGED <<line, input, printing, rtReset, typed, torn, want, ran, left>>

\* empty_lines()
EmptyLines ==
    /\ main.at = "lines"
    /\ line' = [c \in Clients |-> <<>>]
    /\ MainTo("scan")
    /\ UNCHANGED <<ring, input, printing, rtReset, history, left>>

InputStep == Refuse \/ Lock \/ Drop \/ Store
MainLoop == Scan \/ Read \/ Execute \/ Round \/ LoopAbort \/ BeginSize \/ BeginPos \/ EmptyLines

ClientsNext ==
    \/ \E c \in Clients, kind \in Kinds : Fetch(c, kind)
    \/ FetchReset
    \/ InputStep
    \/ MainLoop

ClientsSpec == ClientsInit /\ [][ClientsNext]_clientVars

\* Both tasks are scheduled: a character once fetched is dealt with, and the
\* main loop never blocks for long.
FairClientsSpec == ClientsSpec /\ WF_clientVars(InputStep) /\ WF_clientVars(MainLoop)

(***************************************************************************)
(* Properties                                                              *)
(***************************************************************************)
\* The shape of the state: a ring never holds more than its size and a line
\* keeps room for its final zero, even when begin() falls into a write.
ClientsTypeOK ==
    /\ \A c \in Clients :
        /\ ring[c].pos \in 0 .. RXBUFFERSIZE - 1 /\ ring[c].size \in 0 .. RXBUFFERSIZE
        /\ Len(line[c]) < LINE_BUFFER_SIZE
    /\ input.at \in {"poll", "test", "locked"}
    /\ main.at \in {"scan", "eol", "round", "begin", "beginPos", "lines"}
    /\ main.client \in Clients
    /\ {printing, rtReset, raced} \subseteq BOOLEAN

\* A line that reached its ring whole and was not too long is executed exactly
\* as it was typed and edited, whatever another client, an SD job or a reset
\* did before it; only a begin() that falls into a write can spoil it.
LineWhole ==
    ~raced /\ ran.want.whole /\ ~ran.want.long => ran.text = ran.want.text

\* Every line that reached its ring is read, executed or wiped: no client starves.
LinesRead == \A c \in Clients : want[c] # <<>> ~> want[c] = <<>>
=============================================================================
