----------------------------- MODULE Recognizer -----------------------------
(***************************************************************************)
(* bin/dcd-recog.cc with cascade.h, feat-readers.h and search-opts.h: main *)
(* registers and reads its options (module ParseOptions), finds the entry  *)
(* of the decoder type and runs CLevelDecoderMain, which owns everything   *)
(* it allocates by plain pointers.  A search is abstracted to the frames it *)
(* reads and the objects it follows (its inside is CLevelDecoder).         *)
(***************************************************************************)
EXTENDS ParseOptions, TLC

CONSTANTS
  MaxCost,  \* kDefaultBeam
  Worlds,   \* what the program may find when it opens its files
  Base,     \* digits of a key's number are 0 .. Base - 1
  Width     \* setw(5)

VARIABLES
  world,    \* the files of this run
  live,     \* the objects that were allocated and not deleted
  misused,  \* history: the objects deleted or followed when they were not live
  cascade,  \* the component transducers and tmp_fsts_
  reader,   \* the SequentialMatrixReader: what the stream still holds, hdr_, done_
  decoder,  \* the decoder and the FST it was given
  input,    \* decodable_ and index_ of the transition model
  num,      \* the number of the utterance
  archive   \* the records written, and the writer's error flag

driverVars == <<world, live, misused, cascade, reader, decoder, input, num, archive>>
recognizerVars == <<at, optionVars, driverVars>>

EntryNames == {"hmm_lattice", "hmm_lattice_kaldi", "hmm_simple", "generic_lattice"}
Entries == {<<"entry", name>> : name \in EntryNames}

NoObject == <<>>
NoDecoder == [self |-> NoObject, fst |-> NoObject]

\* What main registers, with the options the driver reads of those of SearchOptions.
Registered(name, type, default) == [name |-> name, type |-> type, default |-> default]

StandardOptions ==
  <<Registered("config", "string", ""), Registered("print-args", "bool", TRUE),
    Registered("help", "bool", FALSE), Registered("verbose", "int", 0)>>

MainOptions ==
  <<Registered("decoder_type", "string", "hmm_lattice"),
    Registered("word_symbols_table", "string", "")>>

SearchOptions ==
  <<Registered("beam", "float", MaxCost), Registered("fst_reset_period", "int", 32),
    Registered("gen_lattice", "bool", FALSE), Registered("lattice_beam", "float", MaxCost)>>

\* No other option has the name of one of these in another type.
ASSUME RecognizerAssumption ==
  /\ Base \in Nat \ {0, 1} /\ Width \in Nat \ {0}
  /\ \A option \in Range(MainOptions) \cup Range(SearchOptions) :
       LET same == {v \in Variables : Normal[Registrations[v].name] = Normal[option.name]}
       IN  /\ same # {} /\ option.name \in DOMAIN Normal
           /\ \A v \in same : Registrations[v].type = option.type
  /\ Normal["decoder_type"] = "decoder-type" /\ Normal["word_symbols_table"] = "word-symbols-table"
  /\ Normal["fst_reset_period"] = "fst-reset-period" /\ Normal["lattice_beam"] = "lattice-beam"
  /\ \A w \in Worlds :
       /\ w.fsts \in Seq(BOOLEAN) /\ w.stream \in Seq(Range(w.stream))
       /\ \A n \in DOMAIN w.stream : w.stream[n].rows \in Nat

Option(name) == value[Pointee(name)]

Init ==
  /\ InitOptions
  /\ at = "register"
  /\ world \in Worlds
  /\ live = Entries          \* the static registerers ran
  /\ misused = {}
  /\ cascade = [fsts |-> <<>>, tmp |-> <<>>]
  /\ reader = [stream |-> <<>>, key |-> "", rows |-> 0, done |-> FALSE]
  /\ decoder = NoDecoder
  /\ input = [frontEnd |-> NoObject, rows |-> 0, index |-> 0]
  /\ num = 0
  /\ archive = [records |-> <<>>, error |-> FALSE]

Delete(objects) ==
  /\ live' = live \ objects
  /\ misused' = misused \cup (objects \ live)

Follow(objects) ==
  /\ misused' = misused \cup (objects \ live)
  /\ UNCHANGED live

-----------------------------------------------------------------------------
(* main, and the opening of the files, in the order of CLevelDecoderMain.   *)

Min2(a, b) == IF a < b THEN a ELSE b

\* SearchOptions::Check.
CheckOptions ==
  value' = [value EXCEPT ![Pointee("lattice-beam")] = Min2(Option("lattice-beam"), Option("beam"))]

\* Without dlopen an entry is one of the registered ones, or null.
FindEntry(name) == IF name \in EntryNames THEN <<"entry", name>> ELSE NoObject

Main ==
  /\ at = "parsed"
  /\ IF Len(positional) # 4
     THEN at' = "usage" /\ UNCHANGED value
     ELSE /\ at' = IF FindEntry(Option("decoder-type")) # NoObject THEN "output" ELSE "fatal"
          /\ CheckOptions
  /\ UNCHANGED <<argv, target, arg, last, config, positional, doubleDash, complained, driverVars>>

Open(step, next, readable, object) ==
  /\ at = step
  /\ at' = IF readable THEN next ELSE "fatal"
  /\ live' = IF readable THEN live \cup {object} ELSE live
  /\ UNCHANGED <<optionVars, world, misused, decoder, input, num, archive>>

OpenWriter ==
  /\ Open("output", "cascade", world.writable, <<"farWriter">>)
  /\ UNCHANGED <<cascade, reader>>

\* Cascade::Read: one transducer after the other.
Components == [n \in 1 .. Len(world.fsts) |-> <<"fst", n>>]

ReadCascade ==
  /\ at = "cascade"
  /\ IF \A n \in DOMAIN world.fsts : world.fsts[n]
     THEN /\ live' = live \cup {<<"cascade">>} \cup ToSet(Components)
          /\ cascade' = [fsts |-> Components, tmp |-> <<>>]
          /\ at' = "transModel"
     ELSE at' = "fatal" /\ UNCHANGED <<live, cascade>>
  /\ UNCHANGED <<optionVars, world, misused, reader, decoder, input, num, archive>>

\* ReadFsts returns 0 when it fails, and DumpInfo is called before that is looked at.
\* That of the generic model reads no member: the run may get as far as the test.
NullDumps == IF Option("decoder-type") = "generic_lattice" THEN {"crashed", "fatal"} ELSE {"crashed"}

ReadTransModel ==
  /\ at = "transModel"
  /\ IF world.transModel
     THEN live' = live \cup {<<"transModel">>} /\ at' = "symbols"
     ELSE at' \in NullDumps /\ UNCHANGED live
  /\ UNCHANGED <<optionVars, world, misused, cascade, reader, decoder, input, num, archive>>

ReadSymbolsUnchecked ==
  /\ at = "symbols"
  /\ at' = "features"
  /\ live' = IF Option("word-symbols-table") # "" THEN live \cup {<<"wordSyms">>} ELSE live
  /\ UNCHANGED <<optionVars, world, misused, cascade, reader, decoder, input, num, archive>>

ReadSymbols ==
  /\ at = "symbols"
  /\ IF Option("word-symbols-table") = ""
     THEN at' = "features" /\ UNCHANGED live
     ELSE /\ at' = IF world.symbols THEN "features" ELSE "fatal"
          /\ live' = IF world.symbols THEN live \cup {<<"wordSyms">>} ELSE live
  /\ UNCHANGED <<optionVars, world, misused, cascade, reader, decoder, input, num, archive>>

-----------------------------------------------------------------------------
(* The reader delivers an utterance, or is done at the end of the stream.   *)

ReadNextUtterance(r) ==
  IF r.stream = <<>> THEN [r EXCEPT !.done = TRUE]
  ELSE [r EXCEPT !.stream = Tail(r.stream), !.key = Head(r.stream).key, !.rows = Head(r.stream).rows]

FreeCurrent(r) == [r EXCEPT !.key = "", !.rows = 0]

\* The constructor fails with FSTERROR, which is fatal by default.
OpenReader ==
  /\ Open("features", "loop", world.features, <<"reader">>)
  /\ reader' = IF world.features THEN ReadNextUtterance([reader EXCEPT !.stream = world.stream]) ELSE reader
  /\ UNCHANGED cascade

-----------------------------------------------------------------------------
(* The loop over the utterances.                                            *)

Period == Option("fst-reset-period")

\* num % fst_reset_period is zero whatever the sign of the period.
Due == num % (IF Period < 0 THEN -Period ELSE Period) = 0

LoopTest ==
  /\ at = "loop"
  /\ at' = CASE reader.done                          -> "cleanup"
             [] ~reader.done /\ Period = 0           -> "crashed"
             [] ~reader.done /\ Period # 0 /\ Due    -> "reset"
             [] OTHER                                -> "input"
  /\ UNCHANGED <<optionVars, driverVars>>

ForgetDecoder ==
  /\ at = "reset"
  /\ decoder' = NoDecoder
  /\ at' = "rebuild"
  /\ UNCHANGED <<optionVars, world, live, misused, cascade, reader, input, num, archive>>

DeleteDecoder ==
  /\ at = "reset"
  /\ Delete({decoder.self} \ {NoObject})
  /\ decoder' = NoDecoder
  /\ at' = "rebuild"
  /\ UNCHANGED <<optionVars, world, cascade, reader, input, num, archive>>

\* Cascade::Rebuild: a single transducer is used as it is, two are composed anew.
Composition == <<"composition", num>>

Rebuild ==
  /\ at = "rebuild"
  /\ CASE Len(cascade.fsts) = 1 ->
            UNCHANGED <<live, misused, cascade>> /\ at' = "construct"
       [] Len(cascade.fsts) = 2 ->
            /\ live' = (live \ ToSet(cascade.tmp)) \cup {Composition}
            /\ misused' = misused \cup (ToSet(cascade.tmp) \ live)
            /\ cascade' = [cascade EXCEPT !.tmp = <<Composition>>]
            /\ at' = "construct"
       [] OTHER ->
            UNCHANGED <<live, misused, cascade>> /\ at' = "fatal"
  /\ UNCHANGED <<optionVars, world, reader, decoder, input, num, archive>>

\* An FST without a start state is refused.
NewDecoder ==
  /\ at = "construct"
  /\ IF world.start
     THEN /\ decoder' = [self |-> <<"decoder", num>>,
                         fst  |-> IF cascade.tmp = <<>> THEN cascade.fsts[1] ELSE cascade.tmp[1]]
          /\ live' = live \cup {<<"decoder", num>>}
          /\ at' = "input"
     ELSE at' = "fatal" /\ UNCHANGED <<decoder, live>>
  /\ UNCHANGED <<optionVars, world, misused, cascade, reader, input, num, archive>>

SetInput ==
  /\ at = "input"
  /\ live' = live \cup {<<"frontEnd", num>>}
  /\ input' = [frontEnd |-> <<"frontEnd", num>>, rows |-> reader.rows, index |-> 0]
  /\ at' = "decode"
  /\ UNCHANGED <<optionVars, world, misused, cascade, reader, decoder, num, archive>>

\* What a search follows: a composition reads its components as it is expanded.
Followed == {decoder.self, decoder.fst, input.frontEnd, <<"transModel">>} \cup ToSet(cascade.fsts)

Done == input.index = input.rows - 1

DecodeFrameForever ==
  /\ at = "decode" /\ ~Done
  /\ Follow(Followed)
  /\ UNCHANGED <<at, optionVars, world, cascade, reader, decoder, input, num, archive>>

DecodeFrame ==
  /\ at = "decode" /\ ~Done
  /\ Follow(Followed)
  /\ input' = [input EXCEPT !.index = @ + 1]
  /\ UNCHANGED <<at, optionVars, world, cascade, reader, decoder, num, archive>>

EndDecode ==
  /\ at = "decode" /\ Done
  /\ Delete({input.frontEnd})
  /\ at' = "write"
  /\ UNCHANGED <<optionVars, world, cascade, reader, decoder, input, num, archive>>

\* What is left of n after its last 0, 1, ... digits are cut off.
Shifted(n) ==
  LET rest[k \in 0 .. Width + n + 1] == IF k = 0 THEN n ELSE rest[k - 1] \div Base
  IN  rest

DigitsOf(n, width) == [d \in 1 .. width |-> Shifted(n)[width - d] % Base]

DigitsUnpadded(n) ==
  LET width == CHOOSE w \in 1 .. n + 1 : Shifted(n)[w] = 0 /\ \A v \in 1 .. w - 1 : Shifted(n)[v] # 0
  IN  DigitsOf(n, width)

\* setw pads the number on the left and never cuts it.
Digits(n) ==
  LET rest  == Shifted(n)
      width == CHOOSE w \in Width .. Width + n + 1 : rest[w] = 0 /\ \A v \in Width .. w - 1 : rest[v] # 0
  IN  DigitsOf(n, width)

\* Strings compare digit by digit; "_" is above every digit.
Before(a, b) ==
  \E n \in 1 .. Len(b) :
    /\ n <= Len(a)
    /\ a[n] < b[n]
    /\ \A m \in 1 .. n - 1 : a[m] = b[m]

FarKey(n) == Append(Digits(n), Base)

\* The archive's writer drops every record from the first key that is out of order on.
AddRecord(a, record) ==
  LET disorder == a.records # <<>> /\ Before(record.number, a.records[Len(a.records)].number)
  IN  IF a.error \/ disorder THEN [a EXCEPT !.error = TRUE]
      ELSE [a EXCEPT !.records = Append(@, record)]

WriteRecord ==
  /\ at = "write"
  /\ archive' = AddRecord(archive, [number |-> FarKey(num), key |-> reader.key, frames |-> input.index + 1])
  /\ Follow({<<"farWriter">>})
  /\ at' = "next"
  /\ UNCHANGED <<optionVars, world, cascade, reader, decoder, input, num>>

\* FreeCurrent, then Next and ++num.
NextUtterance ==
  /\ at = "next"
  /\ reader' = ReadNextUtterance(FreeCurrent(reader))
  /\ num' = num + 1
  /\ at' = "loop"
  /\ UNCHANGED <<optionVars, world, live, misused, cascade, decoder, input, archive>>

\* ~Cascade destroys the composition, then the components.
Owned ==
  {<<"farWriter">>, <<"cascade">>, <<"transModel">>} \cup ToSet(cascade.tmp) \cup ToSet(cascade.fsts)
  \cup (IF decoder.self = NoObject THEN {} ELSE {decoder.self})
  \cup (IF Option("word-symbols-table") = "" THEN {} ELSE {<<"wordSyms">>})

CleanUp ==
  /\ at = "cleanup"
  /\ Delete(Owned \cup {<<"reader">>})
  /\ at' = "clearRegister"
  /\ UNCHANGED <<optionVars, world, cascade, reader, decoder, input, num, archive>>

ClearMainRegister ==
  /\ at = "clearRegister"
  /\ Delete(Entries)
  /\ at' = "exited"
  /\ UNCHANGED <<optionVars, world, cascade, reader, decoder, input, num, archive>>

Next ==
  \/ (Register \/ Read) /\ UNCHANGED driverVars
  \/ Main \/ OpenWriter \/ ReadCascade \/ ReadTransModel \/ ReadSymbols \/ OpenReader
  \/ LoopTest \/ DeleteDecoder \/ Rebuild \/ NewDecoder \/ SetInput \/ DecodeFrame \/ EndDecode
  \/ WriteRecord \/ NextUtterance \/ CleanUp \/ ClearMainRegister

Spec == Init /\ [][Next]_recognizerVars
FairSpec == Spec /\ WF_recognizerVars(Next)

-----------------------------------------------------------------------------

\* The utterances can be numbered in Width digits.
NumbersFit == \A w \in Worlds : \A n \in 0 .. Len(w.stream) - 1 : Shifted(n)[Width] = 0

\* No object is deleted twice or followed after its deletion, over any sequence of
\* utterances, resets and rebuilt compositions; when the program returns, nothing
\* that CLevelDecoderMain or the registerers allocated is left.
ObjectsWellUsed ==
  /\ misused = {}
  /\ at = "decode" => Followed \subseteq live
  /\ at = "exited" => live = {}

\* The archive holds one record for every utterance read so far, in the order of the
\* feature file, made of all its frames, under keys that ascend as strings.
RecordsMatchUtterances ==
  /\ Len(archive.records) = (IF at = "next" THEN num + 1 ELSE num)
  /\ \A n \in DOMAIN archive.records :
       LET record == archive.records[n]
       IN  /\ record.key = world.stream[n].key
           /\ record.frames = world.stream[n].rows
           /\ \A m \in 1 .. n - 1 : Before(archive.records[m].number, record.number)
  /\ at = "exited" => Len(archive.records) = Len(world.stream)

\* Arguments that name a decoder, and four files that can be used.
Usable ==
  /\ Len(positional) = 4
  /\ Option("decoder-type") \in EntryNames
  /\ world.writable /\ world.transModel /\ world.features
  /\ FALSE \notin ToSet(world.fsts)
  /\ world.symbols \/ Option("word-symbols-table") = ""
  /\ world.stream # <<>> => Period # 0 /\ Len(world.fsts) \in {1, 2} /\ world.start

Ended == at \in {"usage", "fatal", "aborted", "crashed", "exited"}

\* The program returns from main exactly when all its options can be read and its
\* arguments and files be used.  Else an option that stops Read decides, the first in
\* the order of the command line, with the configuration files read where they are
\* named: only an option or a line without a key trips the assertion of
\* NormalizeArgName.  Past that, the program is killed by nothing but a missing
\* transition model (DumpInfo, dcd-recog.cc:113) and a period of zero (line 147).
\* And it fails before the first record or not at all: no later reset finds anything
\* missing, and no archive is left half written.
OutcomeJustified ==
  Ended =>
    /\ at = "exited" <=> Verdict = "parsed" /\ Usable
    /\ Verdict # "parsed" => at = Verdict
    /\ at = "aborted" => Verdict = "aborted"
    /\ at = "usage" => Verdict = "usage" \/ Len(positional) # 4
    /\ at = "crashed" => ~world.transModel \/ (Period = 0 /\ world.stream # <<>>)
    /\ at # "exited" => archive.records = <<>>

\* Every run ends.
Ends == <>Ended
=============================================================================
