------------------------------- MODULE FarFilter -------------------------------
(***************************************************************************)
(* farfilter (bin/farfilter.cc): every FST of an archive is sent through a *)
(* chain of child processes, each started when the one before it has       *)
(* closed its stderr.  exec-stream gives a child three pipes and a thread  *)
(* that pumps them from and to buffers without a limit; the main thread    *)
(* fills and empties the buffers.                                          *)
(*                                                                         *)
(* Data are counted in units.  A value is what a complete sequence of      *)
(* units stands for: an FST on its way to a command or from one.           *)
(***************************************************************************)
EXTENDS Integers, Sequences, SequencesExt

CONSTANTS
  Archives,     \* input archives: sequences of values
  Pipelines,    \* non-empty sequences of commands
  Commands,     \* name -> [reads : {"record", "all"}, errs : Nat, answers : value -> value,
                \*          fails, slow, missing : BOOLEAN]
  Size,         \* value -> number of units
  PipeCapacity  \* in units

ASSUME FarFilterAssumption ==
  /\ PipeCapacity > 0
  /\ \A value \in DOMAIN Size : Size[value] \in Nat
  /\ \A archive \in Archives :
       archive \in Seq(Range(archive)) /\ \A k \in DOMAIN archive : Size[archive[k]] > 0
  /\ \A archive \in Archives : Range(archive) \subseteq DOMAIN Size
  /\ \A chain \in Pipelines : chain \in Seq(DOMAIN Commands) \ {<<>>}
  /\ \A cmd \in DOMAIN Commands : Commands[cmd].answers \in [DOMAIN Size -> DOMAIN Size]

VARIABLES
  reader,    \* the archive that is read
  cmds,      \* the chain of commands
  text,      \* --text: the last command's lines are written, not an FST
  record,    \* the position of the reader
  main,      \* where the main thread is
  procs,     \* the exec_stream_t of each stage entered
  read,      \* units of the result read so far
  writer     \* records written: [key, value, units]

filterVars == <<reader, cmds, text, record, main, procs, read, writer>>

Stage == Len(procs)
Command(i) == Commands[cmds[i]]

\* Mutant: every stage is given the FST.
InputOfFirst(i) == reader[record]

\* What the first n commands of a chain make of a value, for every n.
Passed(value, chain) ==
  LET after[n \in 0 .. Len(chain)] ==
        IF n = 0 THEN value ELSE Commands[chain[n]].answers[after[n - 1]]
  IN  after

\* What goes into stage i when nothing fails.
Input(i) == Passed(reader[record], cmds)[i - 1]
Answer(i) == Command(i).answers[Input(i)]

Started ==
  [stream |-> 0,   \* units in the buffer of es.in()
   inBuf |-> 0, inPipe |-> 0, got |-> 0,
   running |-> TRUE, broken |-> FALSE,           \* the child; the thread, by EPIPE
   out |-> 0, outPipe |-> 0, outBuf |-> 0,       \* units written by the child ...
   err |-> 0, errPipe |-> 0, errBuf |-> 0]

FilterInit ==
  /\ reader \in Archives /\ cmds \in Pipelines /\ text \in BOOLEAN
  /\ record = 1 /\ main = "next"
  /\ procs = <<>> /\ read = 0 /\ writer = <<>>

At(where) == main = where
Goto(where) == main' = where
Keep == UNCHANGED <<reader, cmds, text>>

-----------------------------------------------------------------------------
\* The child of stage i.
ChildRead(i) ==
  /\ procs[i].running /\ procs[i].inPipe > 0
  /\ Command(i).reads = "all" \/ procs[i].got < Size[Input(i)]
  /\ procs' = [procs EXCEPT ![i].inPipe = @ - 1, ![i].got = @ + 1]

ChildErr(i) ==
  /\ procs[i].running /\ procs[i].err < Command(i).errs /\ procs[i].errPipe < PipeCapacity
  /\ procs' = [procs EXCEPT ![i].err = @ + 1, ![i].errPipe = @ + 1]

\* It answers when it has read an FST, or, if it reads all, the end of its input.
Fed(i) == Command(i).reads = "record" /\ procs[i].got = Size[Input(i)]

ChildOut(i) ==
  /\ procs[i].running /\ Fed(i) /\ procs[i].out < Size[Answer(i)]
  /\ procs[i].outPipe < PipeCapacity
  /\ procs' = [procs EXCEPT ![i].out = @ + 1, ![i].outPipe = @ + 1]

ChildExit(i) ==
  /\ procs[i].running
  /\ \/ Fed(i) /\ procs[i].out = Size[Answer(i)] /\ procs[i].err = Command(i).errs
     \/ Command(i).fails
  /\ procs' = [procs EXCEPT ![i].running = FALSE]

Child(i) == ChildRead(i) \/ ChildErr(i) \/ ChildOut(i) \/ ChildExit(i)

\* The thread of stage i (thread_func).  A write to a child that has gone ends it.
PumpIn(i) ==
  /\ ~procs[i].broken /\ procs[i].inBuf > 0
  /\ IF procs[i].running
     THEN /\ procs[i].inPipe < PipeCapacity
          /\ procs' = [procs EXCEPT ![i].inBuf = @ - 1, ![i].inPipe = @ + 1]
     ELSE procs' = [procs EXCEPT ![i].broken = TRUE]

PumpOut(i) ==
  /\ ~procs[i].broken /\ procs[i].outPipe > 0
  /\ procs' = [procs EXCEPT ![i].outPipe = @ - 1, ![i].outBuf = @ + 1]

PumpErr(i) ==
  /\ ~procs[i].broken /\ procs[i].errPipe > 0
  /\ procs' = [procs EXCEPT ![i].errPipe = @ - 1, ![i].errBuf = @ + 1]

Thread(i) == PumpIn(i) \/ PumpOut(i) \/ PumpErr(i)

Others == Keep /\ UNCHANGED <<record, main, read, writer>>

-----------------------------------------------------------------------------
\* The main thread.
OutEof(p) == ~p.running /\ ~p.broken /\ p.outPipe = 0 /\ p.outBuf = 0
ErrEof(p) == ~p.running /\ ~p.broken /\ p.errPipe = 0 /\ p.errBuf = 0

NextRecord ==
  /\ At("next")
  /\ Goto(IF record <= Len(reader) THEN "launch" ELSE "done")
  /\ procs' = <<>>   \* the destructors of the stages, last to first
  /\ UNCHANGED <<record, read, writer>>

\* A command that cannot be executed throws out of main.
Launch ==
  /\ At("launch")
  /\ IF Command(Stage + 1).missing
     THEN Goto("terminated") /\ UNCHANGED procs
     ELSE Goto("write") /\ procs' = Append(procs, Started)
  /\ UNCHANGED <<record, read, writer>>

\* Mutant: es.in() is not tied to es.err().
Untied(p) == p

\* Reading es.err() flushes es.in(), which is tied to it.
Tied(p) == [p EXCEPT !.inBuf = @ + p.stream, !.stream = 0]

\* fst.Write(es.in()): the end of it is still in the stream's own buffer.
WriteFst ==
  /\ At("write") /\ Stage = 1
  /\ procs' = [procs EXCEPT ![1] = Tied([@ EXCEPT !.inBuf = Size[reader[record]] - 1, !.stream = 1])]
  /\ Goto("errors")
  /\ UNCHANGED <<record, read, writer>>

\* est->out().get(c), es.in().write(&c, 1)
CopyUnit ==
  /\ At("write") /\ Stage > 1 /\ procs[Stage - 1].outBuf > 0 /\ ~procs[Stage].broken
  /\ procs' = [procs EXCEPT ![Stage - 1].outBuf = @ - 1,
                            ![Stage].inBuf = @ + procs[Stage].stream, ![Stage].stream = 1]
  /\ UNCHANGED <<main, record, read, writer>>

EndCopy ==
  /\ At("write") /\ Stage > 1 /\ OutEof(procs[Stage - 1]) /\ ~procs[Stage].broken
  /\ procs' = [procs EXCEPT ![Stage] = Tied(@)]
  /\ Goto("errors")
  /\ UNCHANGED <<record, read, writer>>

\* put() throws what the thread died of when it is handed the next unit, or the last.
PutBroken ==
  /\ At("write") /\ Stage > 1 /\ procs[Stage].broken
  /\ procs[Stage - 1].outBuf > 0 \/ OutEof(procs[Stage - 1])
  /\ Goto("terminated")
  /\ UNCHANGED <<procs, record, read, writer>>

ReadError ==
  /\ At("errors") /\ procs[Stage].errBuf > 0
  /\ procs' = [procs EXCEPT ![Stage].errBuf = @ - 1]
  /\ UNCHANGED <<main, record, read, writer>>

\* At the end of its errors a stage hands over to the next, or its result is read.
EndErrors ==
  /\ At("errors") /\ ErrEof(procs[Stage])
  /\ Goto(IF Stage = Len(cmds) THEN "result" ELSE "launch")
  /\ UNCHANGED <<procs, record, read, writer>>

\* ProcessFinal: an FST knows its length, text ends with the stream.
ReadResult ==
  /\ At("result") /\ procs[Stage].outBuf > 0
  /\ text \/ read < Size[Answer(Stage)]
  /\ procs' = [procs EXCEPT ![Stage].outBuf = @ - 1]
  /\ read' = read + 1
  /\ UNCHANGED <<main, record, writer>>

WriteResult ==
  /\ At("result")
  /\ IF text THEN OutEof(procs[Stage]) ELSE read = Size[Answer(Stage)]
  /\ writer' = Append(writer, [key |-> record, value |-> Answer(Stage), units |-> read])
  /\ record' = record + 1 /\ read' = 0
  /\ Goto("next")
  /\ UNCHANGED procs

\* VectorFst::Read returns null at a premature end, and null is copied from.
CopyNull ==
  /\ At("result") /\ ~text /\ OutEof(procs[Stage]) /\ read < Size[Answer(Stage)]
  /\ Goto("crashed")
  /\ UNCHANGED <<procs, record, read, writer>>

\* The stage and the stream the main thread waits for: nothing there, and no end.
Awaited == IF At("write") THEN Stage - 1 ELSE Stage
Waiting ==
  \/ At("write") /\ Stage > 1 /\ procs[Stage - 1].outBuf = 0 /\ ~OutEof(procs[Stage - 1])
  \/ At("errors") /\ procs[Stage].errBuf = 0 /\ ~ErrEof(procs[Stage])
  \/ At("result") /\ procs[Stage].outBuf = 0 /\ ~OutEof(procs[Stage]) /\ (text \/ read < Size[Answer(Stage)])

\* get() throws what the thread died of, with nothing left in the buffer.
GetBroken ==
  /\ Waiting /\ procs[Awaited].broken
  /\ Goto("terminated")
  /\ UNCHANGED <<procs, record, read, writer>>

\* ... and what two seconds of waiting bring: nothing moves, or the child is slow.
Idle(i) ==
  LET p == procs[i]
  IN  /\ ~(\/ p.inBuf > 0 /\ (~p.running \/ p.inPipe < PipeCapacity)
           \/ p.outPipe > 0 \/ p.errPipe > 0)
      /\ p.running => /\ ~Command(i).fails
                      /\ p.inPipe = 0 \/ (Command(i).reads = "record" /\ Fed(i))
                      /\ p.err = Command(i).errs \/ p.errPipe = PipeCapacity
                      /\ ~Fed(i) \/ (p.out < Size[Answer(i)] /\ p.outPipe = PipeCapacity)

Timeout ==
  /\ Waiting /\ ~procs[Awaited].broken
  /\ (Command(Awaited).slow /\ procs[Awaited].running) \/ Idle(Awaited)
  /\ Goto("terminated")
  /\ UNCHANGED <<procs, record, read, writer>>

Main ==
  /\ \/ NextRecord \/ Launch \/ WriteFst \/ CopyUnit \/ EndCopy \/ ReadError \/ EndErrors
     \/ ReadResult \/ WriteResult \/ CopyNull \/ PutBroken \/ GetBroken \/ Timeout
  /\ Keep

Filter ==
  \/ Main
  \/ Others /\ \E i \in DOMAIN procs : Child(i) \/ Thread(i)

Ended == main \in {"done", "terminated", "crashed"}
-----------------------------------------------------------------------------
(***************************************************************************)
(* What is written under a key is the answer of the last command to the    *)
(* answers of the others to the FST of that key, whole, in the order of    *)
(* the archive, whatever the pipes, the threads and the diagnostics do.    *)
(* With --text a command that fails leaves its record short and is not     *)
(* noticed (its exit status is not asked for).                             *)
(***************************************************************************)
AnswersMatchQuestions ==
  \A k \in DOMAIN writer :
    LET expected == Passed(reader[k], cmds)[Len(cmds)]
    IN  /\ writer[k].key = k
        /\ writer[k].value = expected
        /\ writer[k].units # Size[expected] =>
             /\ text /\ writer[k].units < Size[expected]
             /\ \E i \in DOMAIN cmds : Command(i).fails

\* Commands that read one FST and answer it, in time.
WellBehaved ==
  \A i \in DOMAIN cmds :
    Command(i).reads = "record" /\ ~Command(i).fails /\ ~Command(i).slow /\ ~Command(i).missing

(***************************************************************************)
(* The tool ends, and if its commands are well behaved with every record   *)
(* answered: the order stdin, stderr, stdout in which it serves a child    *)
(* never blocks the two on each other, although the pipes are smaller than *)
(* what goes through them and the child may write before it has read.      *)
(***************************************************************************)
FilterEnds ==
  /\ <>Ended
  /\ WellBehaved => <>(main = "done" /\ Len(writer) = Len(reader))
=============================================================================
