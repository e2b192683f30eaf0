---------------------------- MODULE ParseOptions ----------------------------
(***************************************************************************)
(* lib/parse-options.cc: options are registered, configuration files are   *)
(* read on a first pass over the arguments and the command line on a       *)
(* second.  An argument is a record; the text of a value is a string that  *)
(* only the conversions look into.  LOG(ERROR) writes a line and goes on,  *)
(* LOG(FATAL) exits with status 1, and KALDI_ASSERT is defined empty       *)
(* (text-utils.h:38).                                                      *)
(***************************************************************************)
EXTENDS Integers, Sequences, SequencesExt, FiniteSets

CONSTANTS
  Registrations, \* the variables, in the order they are registered
  Normal,        \* what NormalizeArgName makes of each spelling of a name
  Numeral,       \* the strings that begin with a number, and that number
  Files,         \* the configuration files that can be opened, by path
  Arguments      \* the argument vectors the program may be started with

Variables == DOMAIN Registrations

\* Types in the order in which SetOption looks a key up.
Types == {"bool", "int", "uint", "float", "double", "string"}
SearchOrder == <<"bool", "int", "uint", "float", "double", "string">>

None == 0
Empty == ""  \* std::string's
Keys == {Normal[name] : name \in DOMAIN Normal}

Trues == {"", "true", "t", "1"}
Falses == {"false", "f", "0"}

ASSUME ParseOptionsAssumption ==
  /\ Registrations \in Seq(Range(Registrations))
  /\ \A v \in Variables :
       /\ Registrations[v].name \in DOMAIN Normal
       /\ Registrations[v].type \in Types
       /\ Registrations[v].type = "int" => Registrations[v].default \in Int
  /\ \A args \in Arguments :
       /\ args \in Seq(Range(args))
       /\ \A n \in DOMAIN args :
            /\ args[n].form \in {"option", "noKey", "dashes", "word"}
            /\ args[n].form = "option" => args[n].name \in DOMAIN Normal
  /\ \A path \in DOMAIN Files :
       /\ Files[path] \in Seq(Range(Files[path]))
       /\ \A l \in DOMAIN Files[path] :
            /\ Files[path][l].form \in {"option", "noKey", "bare", "short", "blank"}
            /\ Files[path][l].form = "option" => Files[path][l].name \in DOMAIN Normal
  /\ \A name \in DOMAIN Normal : Normal[name] # Empty   \* it keeps the length
  /\ Numeral \in [DOMAIN Numeral -> Int]

VARIABLES
  at,          \* where the program is
  argv,        \* the arguments after the program's name
  target,      \* bool_map_ .. string_map_: type -> key -> registered variable
  value,       \* the variables the maps point to
  arg,         \* the index i of Read
  last,        \* the locals key and value of Read, which both passes share
  config,      \* the file that ReadConfigFile reads, the line it is at, and its locals
  positional,  \* positional_args_
  doubleDash,  \* double_dash_seen
  complained   \* an ERROR was logged

optionVars == <<argv, target, value, arg, last, config, positional, doubleDash, complained>>

Nothing == [key |-> Empty, text |-> Empty]

\* Every registered type has a map of its own: a key registered with two types is in
\* two maps, one registered twice with a type points to the second variable.
InitOptions ==
  /\ argv \in Arguments
  /\ target = [type \in Types |-> [key \in Keys |-> None]]
  /\ value = [v \in Variables |-> Registrations[v].default]
  /\ arg = 1
  /\ last = Nothing
  /\ config = [file |-> Empty, line |-> 1, key |-> Empty, text |-> Empty]
  /\ positional = <<>>
  /\ doubleDash = FALSE
  /\ complained = FALSE

RegisterCommon(type, key) ==
  Max({None} \cup {v \in Variables : Registrations[v].type = type /\ Normal[Registrations[v].name] = key})

\* ParseOptions' constructor and the caller register all of them before Read.
Register ==
  /\ at = "register"
  /\ target' = [type \in Types |-> [key \in Keys |-> RegisterCommon(type, key)]]
  /\ at' = "first"
  /\ UNCHANGED <<argv, value, arg, last, config, positional, doubleDash, complained>>

-----------------------------------------------------------------------------

IsOption(a) == a.form \in {"option", "noKey"}

\* "--=x" has no key: the key and the value of the argument before stay.  A line of a
\* file need not begin with "--": "bare" loses its first two characters, and "short" has
\* no more than two (a lone "--" among them), which leaves no key or throws.
SplitLongArg(a, previous) ==
  CASE a.form = "noKey"  -> previous
    [] a.form = "option" -> [key |-> Normal[a.name], text |-> a.text]
    [] a.form = "bare"   -> [key |-> "?", text |-> a.text]
    [] a.form = "short"  -> Nothing

\* The map that SetOption finds the key in.
Found(key) == {n \in DOMAIN SearchOrder : key \in Keys /\ target[SearchOrder[n]][key] # None}
TypeOf(key) == SearchOrder[CHOOSE n \in Found(key) : \A o \in Found(key) : n <= o]
Pointee(key) == target[TypeOf(key)][key]

ToBool(text) == text \in Trues
ToNumber(text) == IF text \in DOMAIN Numeral THEN Numeral[text] ELSE 0

Convert(type, text) ==
  CASE type = "bool"   -> ToBool(text)
    [] type = "string" -> text
    [] OTHER           -> ToNumber(text)

\* A value that the conversions log an ERROR about, and then use all the same.
Malformed(type, text, hasEqualSign) ==
  CASE type = "bool"   -> (hasEqualSign /\ text = "") \/ text \notin Trues \cup Falses
    [] type = "string" -> ~hasEqualSign
    [] OTHER           -> text \notin DOMAIN Numeral

SetOption(option, a) ==
  LET type == TypeOf(option.key)
  IN  /\ value' = [value EXCEPT ![Pointee(option.key)] = Convert(type, option.text)]
      /\ complained' = (complained \/ a.form = "noKey" \/ Malformed(type, option.text, a.equal))

-----------------------------------------------------------------------------
(* The first pass reads every configuration file, wherever it is named.     *)

FirstEndsAtWord == arg > Len(argv) \/ (arg <= Len(argv) /\ ~IsOption(argv[arg]))

FirstEnds == arg > Len(argv) \/ (arg <= Len(argv) /\ argv[arg].form = "dashes")

EndFirst ==
  /\ at = "first" /\ FirstEnds
  /\ at' = "second" /\ arg' = 1
  /\ UNCHANGED <<argv, target, value, last, config, positional, doubleDash, complained>>

SkipWord ==
  /\ at = "first" /\ ~FirstEnds /\ ~IsOption(argv[arg])
  /\ arg' = arg + 1
  /\ UNCHANGED <<at, argv, target, value, last, config, positional, doubleDash, complained>>

\* An empty key fails the assertion of NormalizeArgName.
FirstOption ==
  /\ at = "first" /\ ~FirstEnds /\ IsOption(argv[arg])
  /\ LET option == SplitLongArg(argv[arg], last)
         opens  == option.key = "config" /\ option.text \in DOMAIN Files
     IN  /\ last' = option
         /\ config' = IF opens THEN [file |-> option.text, line |-> 1, key |-> Empty, text |-> Empty] ELSE config
         /\ at' = CASE option.key = Empty              -> "aborted"
                    [] opens                           -> "config"
                    [] option.key = "config" /\ ~opens -> "fatal"
                    [] option.key = "help"             -> "usage"
                    [] OTHER                           -> "first"
  /\ arg' = arg + 1
  /\ complained' = (complained \/ argv[arg].form = "noKey")
  /\ UNCHANGED <<argv, target, value, positional, doubleDash>>

EndConfig ==
  /\ at = "config" /\ config.line > Len(Files[config.file])
  /\ at' = "first"
  /\ UNCHANGED <<argv, target, value, arg, last, config, positional, doubleDash, complained>>

\* Comments and empty lines are skipped; an unknown option is logged and skipped.
ConfigLine ==
  /\ at = "config" /\ config.line <= Len(Files[config.file])
  /\ LET line   == Files[config.file][config.line]
         option == IF line.form = "blank" THEN [key |-> config.key, text |-> config.text]
                   ELSE SplitLongArg(line, [key |-> config.key, text |-> config.text])
     IN  /\ config' = [config EXCEPT !.line = @ + 1, !.key = option.key, !.text = option.text]
         /\ at' = IF line.form # "blank" /\ option.key = Empty THEN "aborted" ELSE at
         /\ IF line.form = "blank" \/ option.key = Empty
            THEN UNCHANGED <<value, complained>>
            ELSE IF Found(option.key) # {} THEN SetOption(option, line)
            ELSE complained' = TRUE /\ UNCHANGED value
  /\ UNCHANGED <<argv, target, arg, last, positional, doubleDash>>

-----------------------------------------------------------------------------
(* The second pass sets the options up to the first other argument.         *)

SecondOption ==
  /\ at = "second" /\ arg <= Len(argv) /\ IsOption(argv[arg])
  /\ LET option == SplitLongArg(argv[arg], last)
     IN  /\ last' = option
         /\ IF Found(option.key) # {}
            THEN SetOption(option, argv[arg]) /\ UNCHANGED at
            ELSE at' = "fatal" /\ complained' = TRUE /\ UNCHANGED value
  /\ arg' = arg + 1
  /\ UNCHANGED <<argv, target, config, positional, doubleDash>>

EndSecond ==
  /\ at = "second" /\ (arg > Len(argv) \/ (arg <= Len(argv) /\ ~IsOption(argv[arg])))
  /\ doubleDash' = (arg <= Len(argv) /\ argv[arg].form = "dashes")
  /\ arg' = IF doubleDash' THEN arg + 1 ELSE arg
  /\ at' = "positional"
  /\ UNCHANGED <<argv, target, value, last, config, positional, complained>>

Positional ==
  /\ at = "positional" /\ arg <= Len(argv)
  /\ IF argv[arg].form = "dashes" /\ ~doubleDash
     THEN doubleDash' = TRUE /\ UNCHANGED positional
     ELSE positional' = Append(positional, argv[arg]) /\ UNCHANGED doubleDash
  /\ arg' = arg + 1
  /\ UNCHANGED <<at, argv, target, value, last, config, complained>>

EndRead ==
  /\ at = "positional" /\ arg > Len(argv)
  /\ at' = "parsed"
  /\ UNCHANGED optionVars

Read ==
  \/ EndFirst \/ SkipWord \/ FirstOption \/ EndConfig \/ ConfigLine
  \/ SecondOption \/ EndSecond \/ Positional \/ EndRead

-----------------------------------------------------------------------------
(* What the two passes amount to.                                           *)

\* The arguments before the first lone "--", and those before any non-option.
BeforeDashes == {n \in DOMAIN argv : \A m \in 1 .. n : argv[m].form # "dashes"}
Named == {n \in DOMAIN argv : \A m \in 1 .. n : IsOption(argv[m])}

FileSettings ==
  FlattenSeq([n \in DOMAIN argv |->
    IF n \in BeforeDashes /\ argv[n].form = "option" /\ Normal[argv[n].name] = "config"
    THEN SelectSeq(Files[argv[n].text], LAMBDA line : line.form # "blank") ELSE <<>>])

\* The key and the value the argument at n stands for in the first pass.
NamedBy(n) == {m \in 1 .. n : argv[m].form = "option"}
Meant(n) ==
  LET m == Max(NamedBy(n))
  IN  IF NamedBy(n) = {} THEN Nothing ELSE [key |-> Normal[argv[m].name], text |-> argv[m].text]

\* A file with a line that has no key and can take none from a line above.
Keyless(lines) ==
  \E l \in DOMAIN lines :
    \/ lines[l].form = "short"
    \/ lines[l].form = "noKey" /\ \A k \in 1 .. l - 1 : lines[k].form = "blank"

\* Where the option at n leads to in the first pass.
LeadsTo(n) ==
  LET option == Meant(n)
      opens  == option.key = "config" /\ option.text \in DOMAIN Files
  IN  CASE option.key = Empty                      -> "aborted"
        [] opens /\ Keyless(Files[option.text])    -> "aborted"
        [] option.key = "config" /\ ~opens         -> "fatal"
        [] option.key = "help"                     -> "usage"
        [] OTHER                                   -> "first"

Stops == {n \in BeforeDashes : IsOption(argv[n]) /\ LeadsTo(n) # "first"}
Unregistered == {n \in Named : \A v \in Variables : Normal[Registrations[v].name] # Meant(n).key}

\* How Read ends: as its first offending option has it, else with all options read.
Verdict ==
  IF Stops # {} THEN LeadsTo(Min(Stops)) ELSE IF Unregistered # {} THEN "fatal" ELSE "parsed"

Settings == FileSettings \o SubSeq(argv, 1, Cardinality(Named))
Rest == SubSeq(argv, Cardinality(Named) + 1, Len(argv))

\* The last setting of a variable wins, the command line comes after every file, a
\* variable nobody set keeps its default; the other arguments are positional, but for
\* the first lone "--".  Once an error was logged there is no promise.
OptionsAsSpecified ==
  (at = "parsed" /\ ~complained) =>
    /\ \A v \in Variables :
         LET key == Normal[Registrations[v].name]
             of  == {n \in DOMAIN Settings : Normal[Settings[n].name] = key}
         IN  Pointee(key) = v =>
               value[v] = IF of = {} THEN Registrations[v].default
                          ELSE Convert(Registrations[v].type,
                                       Settings[CHOOSE n \in of : \A o \in of : o <= n].text)
    /\ positional = LET dashes == {n \in DOMAIN Rest : Rest[n].form = "dashes"}
                    IN  IF dashes = {} THEN Rest
                        ELSE RemoveAt(Rest, CHOOSE n \in dashes : \A o \in dashes : n <= o)

=============================================================================
