-------------------------- MODULE RecognizerProofs --------------------------
(***************************************************************************)
(* Proofs about Recognizer: for every set of options, every command line,  *)
(* configuration and feature file, and every number of utterances, no      *)
(* object of dcd-recog is used after its deletion or left behind, and the  *)
(* program ends as its arguments and files justify.                        *)
(***************************************************************************)
EXTENDS Recognizer, SequenceTheorems, WellFoundedInduction, TLAPS

-----------------------------------------------------------------------------
(* Numbers *)

LEMMA LeastOf ==
  ASSUME NEW T \in SUBSET Nat, T # {}
  PROVE  \E x \in T : \A y \in T : x <= y
<1> DEFINE R == {ss \in Nat \X Nat : ss[1] < ss[2]}
<1>1. R = OpToRel(<, Nat)
  BY DEF OpToRel
<1>2. IsWellFoundedOn(R, Nat)
  BY <1>1, NatLessThanWellFounded
<1>3. PICK x \in T : \A y \in T : ~(<<y, x>> \in R)
  <2> HIDE DEF R
  <2> QED BY <1>2, WFMin
<1>4. ASSUME NEW y \in T
      PROVE  x <= y
  <2>1. ~(<<y, x>> \in R)
    BY <1>3
  <2>2. <<y, x>>[1] = y /\ <<y, x>>[2] = x /\ <<y, x>> \in Nat \X Nat
    OBVIOUS
  <2>3. ~(y < x)
    BY <2>1, <2>2
  <2>4. QED
    BY <2>3
<1>5. QED
  BY <1>4

LEMMA MaxIn ==
  ASSUME NEW n \in Nat, NEW S \in SUBSET (0 .. n), S # {}
  PROVE  Max(S) \in S
<1> DEFINE T == {n - x : x \in S}
<1>1. T \in SUBSET Nat /\ T # {}
  <2>1. \A x \in S : x \in 0 .. n /\ n - x \in Nat
    OBVIOUS
  <2>2. QED
    BY <2>1
<1>2. PICK t \in T : \A y \in T : t <= y
  <2> HIDE DEF T
  <2> QED BY <1>1, LeastOf
<1>3. PICK x \in S : t = n - x
  OBVIOUS
<1>4. \A y \in S : x >= y
  <2>1. TAKE y \in S
  <2>2. n - x <= n - y
    BY <1>2, <1>3
  <2>3. QED
    BY <2>2
<1>5. QED
  BY <1>3, <1>4 DEF Max

-----------------------------------------------------------------------------
(* Registration and lookup *)

LEMMA VariablesAreNumbered == Len(Registrations) \in Nat /\ Variables = 1 .. Len(Registrations)
<1>1. Registrations \in Seq(Range(Registrations))
  BY ParseOptionsAssumption
<1>2. QED
  BY <1>1 DEF Variables

\* The variable a map points to has the map's type and the key for a name; a key with
\* a variable of the type is in the map.
LEMMA RegisterCommonSound ==
  ASSUME NEW type, NEW key
  PROVE  LET v == RegisterCommon(type, key)
             same == {w \in Variables : Registrations[w].type = type /\ Normal[Registrations[w].name] = key}
         IN  /\ same # {} => v \in same /\ v # None
             /\ same = {} => v = None
<1> DEFINE same == {w \in Variables : Registrations[w].type = type /\ Normal[Registrations[w].name] = key}
<1>1. /\ Len(Registrations) \in Nat
      /\ {None} \cup same \in SUBSET (0 .. Len(Registrations))
      /\ {None} \cup same # {}
      /\ None \notin same
  BY VariablesAreNumbered DEF None
<1>2. RegisterCommon(type, key) = Max({None} \cup same)
  BY DEF RegisterCommon
<1>3. RegisterCommon(type, key) \in {None} \cup same
  <2> HIDE DEF same
  <2> QED BY <1>1, <1>2, MaxIn
<1>4. ASSUME NEW w \in same, RegisterCommon(type, key) = None
      PROVE  FALSE
  <2> DEFINE S == {None} \cup same
  <2>1. S \in SUBSET (0 .. Len(Registrations)) /\ Max(S) = None /\ w \in S /\ w > None
    BY <1>1, <1>2, <1>4, VariablesAreNumbered DEF None
  <2>2. \E x \in S : \A y \in S : x >= y
    <3> DEFINE T == {Len(Registrations) - x : x \in S}
    <3>1. T \in SUBSET Nat /\ T # {}
      BY <1>1, <2>1
    <3>2. PICK t \in T : \A y \in T : t <= y
      <4> HIDE DEF T
      <4> QED BY <3>1, LeastOf
    <3>3. PICK x \in S : t = Len(Registrations) - x
      OBVIOUS
    <3>4. \A y \in S : x >= y
      <4>1. TAKE y \in S
      <4>2. Len(Registrations) - x <= Len(Registrations) - y
        BY <3>2, <3>3
      <4>3. QED
        BY <4>2, <2>1, <1>1
    <3>5. QED
      BY <3>4
  <2>3. \A y \in S : Max(S) >= y
    <3> HIDE DEF S
    <3> QED BY <2>2 DEF Max
  <2>4. 0 >= w /\ w \in 1 .. Len(Registrations)
    BY <2>1, <2>3, <1>1, VariablesAreNumbered DEF None
  <2>5. QED
    BY <2>4, VariablesAreNumbered
<1>5. QED
  BY <1>3, <1>4

\* After Register, for ever.
TargetOK ==
  at # "register" => target = [type \in Types |-> [key \in Keys |-> RegisterCommon(type, key)]]

LEMMA FoundPointee ==
  ASSUME TargetOK, at # "register", NEW key, Found(key) # {}
  PROVE  /\ Pointee(key) \in Variables
         /\ Registrations[Pointee(key)].type = TypeOf(key)
         /\ Normal[Registrations[Pointee(key)].name] = key
<1>1. Found(key) \in SUBSET (1 .. 6) /\ Found(key) \in SUBSET Nat
  BY DEF Found, SearchOrder
<1>2. PICK n \in Found(key) : \A o \in Found(key) : n <= o
  BY <1>1, LeastOf
<1> DEFINE m == CHOOSE i \in Found(key) : \A o \in Found(key) : i <= o
<1>3. m \in Found(key)
  BY <1>2
<1>4. m \in 1 .. 6 /\ key \in Keys /\ target[SearchOrder[m]][key] # None
  BY <1>1, <1>3 DEF Found
<1>5. SearchOrder[m] \in Types
  <2>1. \A i \in 1 .. 6 : SearchOrder[i] \in Types
    BY DEF SearchOrder, Types
  <2> HIDE DEF m
  <2>2. QED
    BY <1>4, <2>1
<1>6. TypeOf(key) = SearchOrder[m]
  BY DEF TypeOf
<1> HIDE DEF m
<1>7. Pointee(key) = RegisterCommon(TypeOf(key), key) /\ Pointee(key) # None
  BY <1>4, <1>5, <1>6 DEF Pointee, TargetOK
<1>8. QED
  BY <1>7, RegisterCommonSound

\* The driver's options.
DriverOptions == Range(MainOptions) \cup Range(SearchOptions)

LEMMA DriverOptionFound ==
  ASSUME TargetOK, at # "register", NEW option \in DriverOptions
  PROVE  LET key == Normal[option.name]
         IN  /\ Found(key) # {} /\ key \in Keys
             /\ Pointee(key) \in Variables
             /\ Normal[Registrations[Pointee(key)].name] = key
             /\ Registrations[Pointee(key)].type = option.type
<1> DEFINE key == Normal[option.name]
           same == {v \in Variables : Normal[Registrations[v].name] = key}
<1>1. same # {} /\ option.name \in DOMAIN Normal /\ \A v \in same : Registrations[v].type = option.type
  BY RecognizerAssumption DEF DriverOptions
<1>2. key \in Keys
  BY <1>1 DEF Keys
<1>3. PICK v \in same : TRUE
  BY <1>1
<1>4. Registrations[v].type \in Types /\ v \in Variables /\ Normal[Registrations[v].name] = key
  BY <1>3, ParseOptionsAssumption
<1>5. target[Registrations[v].type][key] # None
  BY <1>2, <1>4, RegisterCommonSound DEF TargetOK
<1>6. \E n \in DOMAIN SearchOrder : SearchOrder[n] = Registrations[v].type
  BY <1>4 DEF Types, SearchOrder
<1>7. Found(key) # {}
  BY <1>2, <1>5, <1>6 DEF Found
<1>8. QED
  <2> HIDE DEF key
  <2>1. /\ Pointee(key) \in Variables
        /\ Normal[Registrations[Pointee(key)].name] = key
    BY <1>7, FoundPointee
  <2>2. QED
    BY <1>1, <1>2, <1>7, <2>1 DEF key

LEMMA DriverKeys ==
  ASSUME TargetOK, at # "register"
  PROVE  /\ {Pointee("decoder-type"), Pointee("word-symbols-table"), Pointee("fst-reset-period")} \subseteq Variables
         /\ Registrations[Pointee("fst-reset-period")].type = "int"
         /\ Registrations[Pointee("lattice-beam")].type = "float"
         /\ Pointee("lattice-beam") \in Variables
         /\ Pointee("decoder-type") # Pointee("lattice-beam")
         /\ Pointee("word-symbols-table") # Pointee("lattice-beam")
         /\ Pointee("fst-reset-period") # Pointee("lattice-beam")
<1> DEFINE decoderType == MainOptions[1]
           symbols == MainOptions[2]
           period == SearchOptions[2]
           latticeBeam == SearchOptions[4]
<1>1. {decoderType, symbols, period, latticeBeam} \subseteq DriverOptions
  <2>1. DOMAIN MainOptions = 1 .. 2 /\ DOMAIN SearchOptions = 1 .. 4
    BY DEF MainOptions, SearchOptions
  <2>2. QED
    BY <2>1 DEF DriverOptions, Range
<1>2. /\ Normal[decoderType.name] = "decoder-type" /\ decoderType.type = "string"
      /\ Normal[symbols.name] = "word-symbols-table" /\ symbols.type = "string"
      /\ Normal[period.name] = "fst-reset-period" /\ period.type = "int"
      /\ Normal[latticeBeam.name] = "lattice-beam" /\ latticeBeam.type = "float"
  BY RecognizerAssumption DEF MainOptions, SearchOptions, Registered
<1> HIDE DEF decoderType, symbols, period, latticeBeam
<1>3. Registrations[Pointee("decoder-type")].type = "string" /\ Pointee("decoder-type") \in Variables
  BY <1>1, <1>2, DriverOptionFound
<1>4. Registrations[Pointee("word-symbols-table")].type = "string" /\ Pointee("word-symbols-table") \in Variables
  BY <1>1, <1>2, DriverOptionFound
<1>5. Registrations[Pointee("fst-reset-period")].type = "int" /\ Pointee("fst-reset-period") \in Variables
  BY <1>1, <1>2, DriverOptionFound
<1>6. Registrations[Pointee("lattice-beam")].type = "float" /\ Pointee("lattice-beam") \in Variables
  BY <1>1, <1>2, DriverOptionFound
<1>7. QED
  BY <1>3, <1>4, <1>5, <1>6

-----------------------------------------------------------------------------
(* Reading the options *)

Parsing == {"register", "first", "config", "second", "positional", "parsed"}

OptionsInv ==
  /\ TargetOK
  /\ DOMAIN value = Variables
  /\ \A v \in Variables : Registrations[v].type = "int" => value[v] \in Int

\* A step of ParseOptions stays among its stages, or ends the program.
ParseEffect ==
  /\ at \in Parsing
  /\ at' \in Parsing \cup {"aborted", "fatal", "usage"}

LEMMA ConvertedInt ==
  ASSUME NEW text
  PROVE  Convert("int", text) \in Int
<1>1. \A t \in DOMAIN Numeral : Numeral[t] \in Int
  BY ParseOptionsAssumption
<1>2. QED
  BY <1>1 DEF Convert, ToNumber

LEMMA SetOptionTyped ==
  ASSUME OptionsInv, at # "register", NEW option, NEW a, Found(option.key) # {}, SetOption(option, a)
  PROVE  /\ DOMAIN value' = Variables
         /\ \A v \in Variables : Registrations[v].type = "int" => value'[v] \in Int
<1> DEFINE p == Pointee(option.key)
           c == Convert(TypeOf(option.key), option.text)
<1>1. p \in Variables /\ Registrations[p].type = TypeOf(option.key)
  BY FoundPointee DEF OptionsInv
<1>2. value' = [value EXCEPT ![p] = c]
  BY DEF SetOption
<1>3. Registrations[p].type = "int" => c \in Int
  BY <1>1, ConvertedInt
<1> HIDE DEF p, c
<1>4. QED
  BY <1>1, <1>2, <1>3 DEF OptionsInv

LEMMA ParseStep ==
  ASSUME OptionsInv, Register \/ Read
  PROVE  OptionsInv' /\ ParseEffect
<1>1. CASE Register
  BY <1>1 DEF Register, OptionsInv, ParseEffect, Parsing, TargetOK
<1>2. CASE EndFirst
  BY <1>2 DEF EndFirst, OptionsInv, ParseEffect, Parsing, TargetOK
<1>3. CASE SkipWord
  BY <1>3 DEF SkipWord, OptionsInv, ParseEffect, Parsing, TargetOK
<1>4. CASE FirstOption
  <2>1. /\ at = "first" /\ UNCHANGED <<target, value, positional>>
        /\ at' \in {"aborted", "config", "fatal", "usage", "first"}
    BY <1>4 DEF FirstOption
  <2>2. QED
    BY <2>1 DEF OptionsInv, ParseEffect, Parsing, TargetOK
<1>5. CASE EndConfig
  BY <1>5 DEF EndConfig, OptionsInv, ParseEffect, Parsing, TargetOK
<1>6. CASE ConfigLine
  <2>1. /\ at = "config" /\ UNCHANGED <<target, positional>>
        /\ at' \in {"aborted", "config"}
        /\ UNCHANGED value \/ \E option, a : Found(option.key) # {} /\ SetOption(option, a)
    BY <1>6 DEF ConfigLine
  <2>2. /\ DOMAIN value' = Variables
        /\ \A v \in Variables : Registrations[v].type = "int" => value'[v] \in Int
    <3>1. CASE UNCHANGED value
      BY <3>1 DEF OptionsInv
    <3>2. CASE \E option, a : Found(option.key) # {} /\ SetOption(option, a)
      BY <2>1, <3>2, SetOptionTyped
    <3>3. QED
      BY <2>1, <3>1, <3>2
  <2>3. QED
    BY <2>1, <2>2 DEF OptionsInv, ParseEffect, Parsing, TargetOK
<1>7. CASE SecondOption
  <2>1. /\ at = "second" /\ UNCHANGED <<target, positional>>
        /\ at' \in {"fatal", "second"}
        /\ UNCHANGED value \/ \E option, a : Found(option.key) # {} /\ SetOption(option, a)
    BY <1>7 DEF SecondOption
  <2>2. /\ DOMAIN value' = Variables
        /\ \A v \in Variables : Registrations[v].type = "int" => value'[v] \in Int
    <3>1. CASE UNCHANGED value
      BY <3>1 DEF OptionsInv
    <3>2. CASE \E option, a : Found(option.key) # {} /\ SetOption(option, a)
      BY <2>1, <3>2, SetOptionTyped
    <3>3. QED
      BY <2>1, <3>1, <3>2
  <2>3. QED
    BY <2>1, <2>2 DEF OptionsInv, ParseEffect, Parsing, TargetOK
<1>8. CASE EndSecond
  BY <1>8 DEF EndSecond, OptionsInv, ParseEffect, Parsing, TargetOK
<1>9. CASE Positional
  BY <1>9 DEF Positional, OptionsInv, ParseEffect, Parsing, TargetOK
<1>10. CASE EndRead
  BY <1>10 DEF EndRead, optionVars, OptionsInv, ParseEffect, Parsing, TargetOK
<1>11. QED
  BY <1>1, <1>2, <1>3, <1>4, <1>5, <1>6, <1>7, <1>8, <1>9, <1>10 DEF Read

-----------------------------------------------------------------------------
(* What the arguments amount to *)

LEMMA ArgvType ==
  ASSUME argv \in Arguments
  PROVE  /\ Len(argv) \in Nat /\ DOMAIN argv = 1 .. Len(argv)
         /\ \A n \in 1 .. Len(argv) :
              /\ argv[n].form \in {"option", "noKey", "dashes", "word"}
              /\ argv[n].form = "option" => Normal[argv[n].name] # Empty
<1>1. argv \in Seq(Range(argv))
  BY ParseOptionsAssumption
<1>2. Len(argv) \in Nat /\ DOMAIN argv = 1 .. Len(argv)
  BY <1>1
<1>3. ASSUME NEW n \in 1 .. Len(argv)
      PROVE  /\ argv[n].form \in {"option", "noKey", "dashes", "word"}
             /\ argv[n].form = "option" => argv[n].name \in DOMAIN Normal
  BY <1>2, ParseOptionsAssumption
<1>4. \A name \in DOMAIN Normal : Normal[name] # Empty
  BY ParseOptionsAssumption
<1>5. QED
  BY <1>2, <1>3, <1>4

LEMMA LinesType ==
  ASSUME NEW path \in DOMAIN Files
  PROVE  LET lines == Files[path]
         IN  /\ Len(lines) \in Nat /\ DOMAIN lines = 1 .. Len(lines)
             /\ \A l \in 1 .. Len(lines) :
                  /\ lines[l].form \in {"option", "noKey", "bare", "short", "blank"}
                  /\ lines[l].form = "option" => Normal[lines[l].name] # Empty
<1>1. Files[path] \in Seq(Range(Files[path]))
  BY ParseOptionsAssumption
<1>2. Len(Files[path]) \in Nat /\ DOMAIN Files[path] = 1 .. Len(Files[path])
  BY <1>1
<1>3. ASSUME NEW l \in 1 .. Len(Files[path])
      PROVE  /\ Files[path][l].form \in {"option", "noKey", "bare", "short", "blank"}
             /\ Files[path][l].form = "option" => Files[path][l].name \in DOMAIN Normal
  BY <1>2, ParseOptionsAssumption
<1>4. \A name \in DOMAIN Normal : Normal[name] # Empty
  BY ParseOptionsAssumption
<1>5. QED
  BY <1>2, <1>3, <1>4

\* Each argument means what it says, or what the option before it meant.
LEMMA MeantStep ==
  ASSUME argv \in Arguments, NEW n \in 1 .. Len(argv)
  PROVE  /\ argv[n].form = "option" => Meant(n) = [key |-> Normal[argv[n].name], text |-> argv[n].text]
         /\ argv[n].form # "option" => Meant(n) = Meant(n - 1)
<1>1. Len(argv) \in Nat
  BY ArgvType
<1>2. NamedBy(n) = NamedBy(n - 1) \cup {m \in {n} : argv[m].form = "option"}
  BY <1>1 DEF NamedBy
<1>3. CASE argv[n].form = "option"
  <2>1. n \in NamedBy(n) /\ \A m \in NamedBy(n) : m \in Nat /\ n >= m
    BY <1>1, <1>3 DEF NamedBy
  <2>2. Max(NamedBy(n)) = n
    <3> DEFINE S == NamedBy(n)
    <3> HIDE DEF S
    <3>1. n \in S /\ \A m \in S : m \in Nat /\ n >= m
      BY <2>1 DEF S
    <3>2. Max(S) \in S /\ \A m \in S : Max(S) >= m
      BY <3>1 DEF Max
    <3>3. n \in Nat /\ Max(S) \in Nat /\ Max(S) >= n /\ n >= Max(S)
      BY <3>1, <3>2
    <3>4. QED
      BY <3>3 DEF S
  <2>3. QED
    BY <1>3, <2>1, <2>2 DEF Meant
<1>4. CASE argv[n].form # "option"
  <2>1. NamedBy(n) = NamedBy(n - 1)
    BY <1>2, <1>4
  <2>2. QED
    BY <1>4, <2>1 DEF Meant
<1>5. QED
  BY <1>3, <1>4

LEMMA MeantNothing == Meant(0) = Nothing
<1>1. NamedBy(0) = {}
  BY DEF NamedBy
<1>2. QED
  BY <1>1 DEF Meant

\* A key is found in the maps when a variable was registered under it.
LEMMA FoundRegistered ==
  ASSUME TargetOK, at # "register", NEW key
  PROVE  Found(key) # {} <=> \E v \in Variables : Normal[Registrations[v].name] = key
<1>1. ASSUME NEW v \in Variables, Normal[Registrations[v].name] = key
      PROVE  Found(key) # {}
  <2>1. Registrations[v].type \in Types /\ Registrations[v].name \in DOMAIN Normal
    BY ParseOptionsAssumption
  <2>2. key \in Keys
    BY <1>1, <2>1 DEF Keys
  <2>3. target[Registrations[v].type][key] # None
    BY <1>1, <2>1, <2>2, RegisterCommonSound DEF TargetOK
  <2>4. \E n \in DOMAIN SearchOrder : SearchOrder[n] = Registrations[v].type
    BY <2>1 DEF Types, SearchOrder
  <2>5. QED
    BY <2>2, <2>3, <2>4 DEF Found
<1>2. QED
  BY <1>1, FoundPointee

\* The verdict is a matter of the arguments and the files alone.
LEMMA VerdictKept ==
  ASSUME UNCHANGED argv
  PROVE  /\ Verdict' = Verdict /\ Stops' = Stops /\ Unregistered' = Unregistered
         /\ \A n : Meant(n)' = Meant(n) /\ LeadsTo(n)' = LeadsTo(n)
<1>1. ASSUME NEW CONSTANT n
      PROVE  Meant(n)' = Meant(n)
  BY DEF Meant, NamedBy
<1>2. ASSUME NEW CONSTANT n
      PROVE  LeadsTo(n)' = LeadsTo(n)
  BY <1>1 DEF LeadsTo, Keyless
<1>3. Stops' = Stops
  BY <1>2 DEF Stops, BeforeDashes, IsOption
<1>4. Unregistered' = Unregistered
  BY <1>1 DEF Unregistered, Named, IsOption
<1>5. QED
  BY <1>1, <1>2, <1>3, <1>4 DEF Verdict

\* The first pass has read the arguments before n without an offence.
FirstRead(n) ==
  \A m \in 1 .. n : argv[m].form # "dashes" /\ (IsOption(argv[m]) => LeadsTo(m) = "first")

\* The configuration file has been read up to line n, and each line had a key.
LinesRead(n) ==
  LET lines == Files[config.file]
  IN  /\ \A l \in 1 .. n :
           /\ lines[l].form # "short"
           /\ lines[l].form = "noKey" => \E k \in 1 .. l - 1 : lines[k].form # "blank"
      /\ config.key = Empty <=> \A l \in 1 .. n : lines[l].form = "blank"

FirstInv == arg \in 1 .. Len(argv) + 1 /\ FirstRead(arg - 1) /\ last = Meant(arg - 1)

ConfigInv ==
  /\ arg \in 2 .. Len(argv) + 1 /\ FirstRead(arg - 2) /\ last = Meant(arg - 1)
  /\ IsOption(argv[arg - 1]) /\ last.key = "config"
  /\ config.file = last.text /\ config.file \in DOMAIN Files
  /\ config = [file |-> config.file, line |-> config.line, key |-> config.key, text |-> config.text]
  /\ config.line \in 1 .. Len(Files[config.file]) + 1 /\ LinesRead(config.line - 1)

SecondInv ==
  /\ Stops = {} /\ arg \in 1 .. Len(argv) + 1
  /\ \A m \in 1 .. arg - 1 :
       IsOption(argv[m]) /\ \E v \in Variables : Normal[Registrations[v].name] = Meant(m).key
  /\ arg > 1 => last = Meant(arg - 1)

ArgumentsInv ==
  /\ argv \in Arguments
  /\ at = "register" => arg = 1 /\ last = Nothing
  /\ at = "first" => FirstInv
  /\ at = "config" => ConfigInv
  /\ at = "second" => SecondInv
  /\ at \in {"positional", "parsed"} => Verdict = "parsed"

\* Where Read ends the program, the verdict is the same.
ParseVerdict == at' \in {"aborted", "fatal", "usage"} => Verdict = at'

LEMMA MinOf ==
  ASSUME NEW S \in SUBSET Nat, NEW n \in S, \A m \in S : n <= m
  PROVE  Min(S) = n
<1>1. Min(S) \in S /\ \A m \in S : Min(S) <= m
  BY DEF Min
<1>2. Min(S) \in Nat /\ n \in Nat /\ Min(S) <= n /\ n <= Min(S)
  BY <1>1
<1>3. QED
  BY <1>2

\* The first offence decides.
LEMMA FirstOffence ==
  ASSUME argv \in Arguments, NEW n \in 1 .. Len(argv), IsOption(argv[n]), FirstRead(n - 1),
         LeadsTo(n) # "first"
  PROVE  Verdict = LeadsTo(n)
<1>1. Len(argv) \in Nat /\ DOMAIN argv = 1 .. Len(argv)
  BY ArgvType
<1>2. \A m \in 1 .. n : argv[m].form # "dashes"
  <2>1. argv[n].form # "dashes"
    BY DEF IsOption
  <2>2. QED
    BY <1>1, <2>1 DEF FirstRead
<1>3. n \in Stops
  BY <1>1, <1>2 DEF Stops, BeforeDashes
<1>4. Stops \in SUBSET Nat /\ \A m \in Stops : n <= m
  <2>1. ASSUME NEW m \in Stops
        PROVE  m \in Nat /\ n <= m
    <3>1. m \in 1 .. Len(argv) /\ IsOption(argv[m]) /\ LeadsTo(m) # "first"
      BY <1>1 DEF Stops, BeforeDashes
    <3>2. m \notin 1 .. n - 1
      BY <3>1 DEF FirstRead
    <3>3. QED
      BY <1>1, <3>1, <3>2
  <2>2. QED
    BY <2>1
<1>5. Min(Stops) = n
  BY <1>3, <1>4, MinOf
<1>6. QED
  BY <1>3, <1>5 DEF Verdict

LEMMA FirstPassEnds ==
  ASSUME ArgumentsInv, EndFirst
  PROVE  SecondInv'
<1>1. /\ at = "first" /\ arg' = 1 /\ UNCHANGED argv /\ FirstInv
      /\ arg > Len(argv) \/ (arg <= Len(argv) /\ argv[arg].form = "dashes")
  BY DEF EndFirst, FirstEnds, ArgumentsInv
<1>2. Len(argv) \in Nat /\ DOMAIN argv = 1 .. Len(argv)
  BY ArgvType DEF ArgumentsInv
<1>3. ASSUME NEW n \in Stops
      PROVE  FALSE
  <2>1. n \in 1 .. Len(argv) /\ IsOption(argv[n]) /\ LeadsTo(n) # "first" /\ \A m \in 1 .. n : argv[m].form # "dashes"
    BY <1>2 DEF Stops, BeforeDashes
  <2>2. n \in 1 .. arg - 1
    BY <1>1, <1>2, <2>1 DEF FirstInv
  <2>3. QED
    BY <1>1, <2>1, <2>2 DEF FirstInv, FirstRead
<1>4. Stops' = {}
  BY <1>1, <1>3, VerdictKept
<1>5. QED
  BY <1>1, <1>2, <1>4 DEF SecondInv

\* The option at arg means what SplitLongArg makes of it.
LEMMA OptionMeant ==
  ASSUME argv \in Arguments, arg \in 1 .. Len(argv), IsOption(argv[arg]), last = Meant(arg - 1)
  PROVE  SplitLongArg(argv[arg], last) = Meant(arg)
<1>1. CASE argv[arg].form = "option"
  BY <1>1, MeantStep DEF SplitLongArg
<1>2. CASE argv[arg].form = "noKey"
  BY <1>2, MeantStep DEF SplitLongArg
<1>3. QED
  BY <1>1, <1>2 DEF IsOption

LEMMA FirstReadKept ==
  ASSUME UNCHANGED argv, NEW n, FirstRead(n)
  PROVE  FirstRead(n)'
BY VerdictKept DEF FirstRead, IsOption

LEMMA FirstPassReads ==
  ASSUME ArgumentsInv, FirstOption
  PROVE  /\ at' = "first" => FirstInv'
         /\ at' = "config" => ConfigInv'
         /\ at' \in {"first", "config", "aborted", "fatal", "usage"} /\ ParseVerdict
<1> DEFINE option == Meant(arg)
           opens == option.key = "config" /\ option.text \in DOMAIN Files
<1>1. /\ at = "first" /\ FirstInv /\ UNCHANGED argv /\ arg' = arg + 1
      /\ arg \in 1 .. Len(argv) /\ IsOption(argv[arg]) /\ Len(argv) \in Nat
  <2>1. at = "first" /\ FirstInv /\ ~FirstEnds /\ UNCHANGED argv /\ arg' = arg + 1 /\ IsOption(argv[arg])
    BY DEF FirstOption, ArgumentsInv
  <2>2. Len(argv) \in Nat
    BY ArgvType DEF ArgumentsInv
  <2>3. QED
    BY <2>1, <2>2 DEF FirstEnds, FirstInv
<1>2. SplitLongArg(argv[arg], last) = option
  BY <1>1, OptionMeant DEF ArgumentsInv, FirstInv
<1>3. /\ last' = option
      /\ config' = IF opens THEN [file |-> option.text, line |-> 1, key |-> Empty, text |-> Empty] ELSE config
      /\ at' = CASE option.key = Empty                 -> "aborted"
                 [] opens                           -> "config"
                 [] option.key = "config" /\ ~opens -> "fatal"
                 [] option.key = "help"             -> "usage"
                 [] OTHER                           -> "first"
  BY <1>2 DEF FirstOption
<1>4. last' = Meant(arg - 1)' /\ arg' - 1 = arg /\ arg' - 2 = arg - 1 /\ arg' \in 2 .. Len(argv) + 1
  BY <1>1, <1>3, VerdictKept
<1>5. FirstRead(arg - 1)
  BY <1>1 DEF FirstInv
<1>6. CASE opens
  <2>1. at' = "config" /\ config' = [file |-> option.text, line |-> 1, key |-> Empty, text |-> Empty]
    BY <1>3, <1>6
  <2>2. LinesRead(config.line - 1)'
    BY <2>1 DEF LinesRead
  <2>3. /\ config'.line \in 1 .. Len(Files[config'.file]) + 1 /\ config'.file \in DOMAIN Files
        /\ config' = [file |-> config'.file, line |-> config'.line, key |-> config'.key, text |-> config'.text]
    BY <1>6, <2>1, LinesType
  <2>4. FirstRead(arg - 2)'
    BY <1>1, <1>4, <1>5 , VerdictKept DEF FirstRead, IsOption
  <2>5. last' = Meant(arg - 1)' /\ IsOption(argv[arg - 1])' /\ last'.key = "config" /\ config'.file = last'.text
    BY <1>1, <1>3, <1>4, <1>6, <2>1
  <2>6. QED
    BY <1>1, <1>4, <2>1, <2>2, <2>3, <2>4, <2>5 DEF ConfigInv, ParseVerdict
<1>7. CASE ~opens /\ option.key \notin {Empty, "config", "help"}
  <2>1. at' = "first"
    BY <1>3, <1>7
  <2>2. LeadsTo(arg) = "first"
    BY <1>7 DEF LeadsTo
  <2>3. FirstRead(arg)
    <3>1. argv[arg].form # "dashes"
      BY <1>1 DEF IsOption
    <3>2. QED
      BY <1>1, <1>5, <2>2, <3>1 DEF FirstRead
  <2>4. FirstRead(arg - 1)'
    BY <1>1, <1>4, <2>3, VerdictKept DEF FirstRead, IsOption
  <2>5. QED
    BY <1>1, <1>4, <2>1, <2>4 DEF FirstInv, ParseVerdict
<1>8. CASE ~opens /\ option.key \in {Empty, "config", "help"}
  <2>1. at' \in {"aborted", "fatal", "usage"} /\ LeadsTo(arg) = at'
    BY <1>3, <1>8 DEF LeadsTo
  <2>2. Verdict = LeadsTo(arg)
    BY <1>1, <1>5, <2>1, FirstOffence DEF ArgumentsInv
  <2>3. QED
    BY <2>1, <2>2 DEF ParseVerdict
<1>9. QED
  BY <1>6, <1>7, <1>8

LEMMA WordSkipped ==
  ASSUME ArgumentsInv, SkipWord
  PROVE  FirstInv' /\ at' = "first" /\ UNCHANGED argv
<1>1. /\ at = "first" /\ at' = "first" /\ FirstInv /\ UNCHANGED <<argv, last>> /\ arg' = arg + 1
      /\ arg \in 1 .. Len(argv) /\ ~IsOption(argv[arg]) /\ argv[arg].form # "dashes" /\ Len(argv) \in Nat
  <2>1. at = "first" /\ at' = "first" /\ FirstInv /\ ~FirstEnds /\ UNCHANGED <<argv, last>> /\ arg' = arg + 1 /\ ~IsOption(argv[arg])
    BY DEF SkipWord, ArgumentsInv
  <2>2. Len(argv) \in Nat
    BY ArgvType DEF ArgumentsInv
  <2>3. QED
    BY <2>1, <2>2 DEF FirstEnds, FirstInv
<1>2. last = Meant(arg)
  BY <1>1, MeantStep DEF IsOption, ArgumentsInv, FirstInv
<1>3. FirstRead(arg)
  BY <1>1 DEF FirstInv, FirstRead
<1>4. arg' - 1 = arg /\ arg' \in 1 .. Len(argv) + 1
  BY <1>1
<1>5. last' = Meant(arg - 1)' /\ FirstRead(arg - 1)'
  BY <1>1, <1>2, <1>3, <1>4, VerdictKept DEF FirstRead, IsOption
<1>6. QED
  BY <1>1, <1>4, <1>5 DEF FirstInv

\* A file whose lines were all read has a key for each of them.
LEMMA FileRead ==
  ASSUME ArgumentsInv, EndConfig
  PROVE  FirstInv' /\ at' = "first" /\ UNCHANGED argv
<1>1. /\ at' = "first" /\ UNCHANGED <<argv, arg, last>> /\ ConfigInv /\ config.line > Len(Files[config.file])
  BY DEF EndConfig, ArgumentsInv
<1>2. /\ Len(argv) \in Nat /\ Len(Files[config.file]) \in Nat
      /\ DOMAIN Files[config.file] = 1 .. Len(Files[config.file])
  BY <1>1, ArgvType, LinesType DEF ArgumentsInv, ConfigInv
<1>3. config.line - 1 = Len(Files[config.file])
  BY <1>1, <1>2 DEF ConfigInv
<1>4. ~Keyless(Files[config.file])
  BY <1>1, <1>2, <1>3 DEF ConfigInv, LinesRead, Keyless
<1>5. LeadsTo(arg - 1) = "first"
  <2>1. Meant(arg - 1).key = "config" /\ Meant(arg - 1).text \in DOMAIN Files /\ ~Keyless(Files[Meant(arg - 1).text])
    BY <1>1, <1>4 DEF ConfigInv
  <2>2. "config" # Empty
    BY Zenon DEF Empty
  <2>3. QED
    BY <2>1, <2>2 DEF LeadsTo
<1>6. FirstRead(arg - 1)
  <2>1. argv[arg - 1].form # "dashes" /\ FirstRead(arg - 2) /\ arg \in 2 .. Len(argv) + 1
    BY <1>1 DEF ConfigInv, IsOption
  <2>2. \A m \in 1 .. arg - 1 : m \in 1 .. arg - 2 \/ m = arg - 1
    BY <2>1, <1>2
  <2>3. QED
    BY <1>5, <2>1, <2>2 DEF FirstRead
<1>7. last' = Meant(arg - 1)' /\ FirstRead(arg - 1)'
  BY <1>1, <1>6, VerdictKept DEF ConfigInv, FirstRead, IsOption
<1>8. QED
  BY <1>1, <1>2, <1>7 DEF FirstInv, ConfigInv

\* A line keeps what was read of the file, or is the one without a key.
LEMMA LineRead ==
  ASSUME ArgumentsInv, ConfigLine
  PROVE  /\ at' = "config" => ConfigInv'
         /\ at' \in {"config", "aborted"} /\ UNCHANGED argv /\ ParseVerdict
<1> DEFINE lines == Files[config.file]
           n == config.line
           previous == [key |-> config.key, text |-> config.text]
           option == IF lines[n].form = "blank" THEN previous ELSE SplitLongArg(lines[n], previous)
<1>1. /\ at = "config" /\ ConfigInv /\ UNCHANGED <<argv, arg, last>> /\ n <= Len(lines)
      /\ config' = [config EXCEPT !.line = @ + 1, !.key = option.key, !.text = option.text]
      /\ at' = IF lines[n].form # "blank" /\ option.key = Empty THEN "aborted" ELSE "config"
  BY DEF ConfigLine, ArgumentsInv
<1>2. /\ Len(lines) \in Nat /\ DOMAIN lines = 1 .. Len(lines) /\ n \in 1 .. Len(lines) /\ Len(argv) \in Nat
      /\ lines[n].form \in {"option", "noKey", "bare", "short", "blank"}
      /\ lines[n].form = "option" => Normal[lines[n].name] # Empty
  BY <1>1, LinesType, ArgvType DEF ConfigInv, ArgumentsInv
<1>3. config' = [file |-> config.file, line |-> n + 1, key |-> option.key, text |-> option.text]
  <2> HIDE DEF option
  <2> QED BY <1>1 DEF ConfigInv
<1>4. LinesRead(n - 1)
  BY <1>1 DEF ConfigInv
<1>5. "?" # Empty /\ "config" # Empty
  BY Zenon DEF Empty
<1>6. CASE lines[n].form # "blank" /\ option.key = Empty
  <2>1. lines[n].form = "short" \/ (lines[n].form = "noKey" /\ config.key = Empty)
    BY <1>2, <1>5, <1>6 DEF SplitLongArg
  <2>2. Keyless(lines)
    <3>1. n - 1 \in Nat
      BY <1>2
    <3>2. CASE lines[n].form = "short"
      BY <1>2, <3>2 DEF Keyless
    <3>3. CASE lines[n].form = "noKey" /\ config.key = Empty
      BY <1>2, <1>4, <3>3 DEF Keyless, LinesRead
    <3>4. QED
      BY <2>1, <3>2, <3>3
  <2>3. LeadsTo(arg - 1) = "aborted"
    <3>1. Meant(arg - 1).key = "config" /\ Meant(arg - 1).text \in DOMAIN Files /\ Keyless(Files[Meant(arg - 1).text])
      BY <1>1, <2>2 DEF ConfigInv
    <3>2. QED
      BY <1>5, <3>1 DEF LeadsTo
  <2>4. Verdict = "aborted"
    <3>1. arg - 1 \in 1 .. Len(argv) /\ IsOption(argv[arg - 1]) /\ FirstRead((arg - 1) - 1)
      BY <1>1, <1>2 DEF ConfigInv
    <3>2. QED
      BY <2>3, <3>1, FirstOffence DEF ArgumentsInv
  <2>5. QED
    BY <1>1, <1>6, <2>4 DEF ParseVerdict
<1>7. CASE ~(lines[n].form # "blank" /\ option.key = Empty)
  <2>1. at' = "config"
    BY <1>1, <1>7
  <2>2. option.key = Empty <=> (config.key = Empty /\ lines[n].form = "blank")
    BY <1>2, <1>5, <1>7 DEF SplitLongArg
  <2>3. /\ lines[n].form # "short"
        /\ lines[n].form = "noKey" => config.key # Empty
    BY <1>2, <1>7 DEF SplitLongArg, Nothing
  <2>4. \A l \in 1 .. n : l \in 1 .. n - 1 \/ l = n
    BY <1>2
  <2>5. /\ \A l \in 1 .. n :
             /\ lines[l].form # "short"
             /\ lines[l].form = "noKey" => \E k \in 1 .. l - 1 : lines[k].form # "blank"
        /\ option.key = Empty <=> \A l \in 1 .. n : lines[l].form = "blank"
    <3> HIDE DEF option
    <3>1. config.key # Empty => \E k \in 1 .. n - 1 : lines[k].form # "blank"
      BY <1>4 DEF LinesRead
    <3>2. n \in 1 .. n /\ 1 .. n - 1 \subseteq 1 .. n
      BY <1>2
    <3>3. QED
      BY <1>4, <2>2, <2>3, <2>4, <3>1, <3>2 DEF LinesRead
  <2>6. config'.file = config.file /\ config'.key = option.key /\ config'.line - 1 = n /\ config'.line = n + 1
    <3> HIDE DEF option
    <3> QED BY <1>2, <1>3
  <2>7. LinesRead(config.line - 1)'
    <3> HIDE DEF option
    <3> QED BY <2>5, <2>6 DEF LinesRead
  <2>8. /\ config' = [file |-> config'.file, line |-> config'.line, key |-> config'.key, text |-> config'.text]
        /\ config'.line \in 1 .. Len(Files[config'.file]) + 1
    <3> HIDE DEF option
    <3> QED BY <1>2, <1>3, <2>6
  <2>9. FirstRead(arg - 2)' /\ last' = Meant(arg - 1)'
    BY <1>1, VerdictKept DEF ConfigInv, FirstRead, IsOption
  <2>10. ConfigInv'
    BY <1>1, <2>6, <2>7, <2>8, <2>9 DEF ConfigInv, IsOption
  <2>11. QED
    BY <1>1, <2>1, <2>10 DEF ParseVerdict
<1>8. QED
  BY <1>6, <1>7

LEMMA SecondPassReads ==
  ASSUME TargetOK, ArgumentsInv, SecondOption
  PROVE  /\ at' = "second" => SecondInv'
         /\ at' \in {"second", "fatal"} /\ UNCHANGED argv /\ ParseVerdict
<1>1. /\ at = "second" /\ SecondInv /\ UNCHANGED argv /\ arg' = arg + 1
      /\ arg <= Len(argv) /\ IsOption(argv[arg])
      /\ last' = SplitLongArg(argv[arg], last)
      /\ at' = IF Found(SplitLongArg(argv[arg], last).key) # {} THEN "second" ELSE "fatal"
  BY DEF SecondOption, ArgumentsInv
<1>2. /\ Len(argv) \in Nat /\ DOMAIN argv = 1 .. Len(argv) /\ arg \in 1 .. Len(argv)
      /\ argv \in Arguments
  BY <1>1, ArgvType DEF ArgumentsInv, SecondInv
<1>3. SplitLongArg(argv[arg], last) = Meant(arg)
  <2>1. CASE arg > 1
    BY <1>1, <1>2, <2>1, OptionMeant DEF SecondInv
  <2>2. CASE arg = 1 /\ argv[arg].form = "option"
    BY <1>2, <2>2, MeantStep DEF SplitLongArg
  <2>3. CASE arg = 1 /\ argv[arg].form = "noKey"
    <3>1. Meant(1) = Nothing
      BY <1>2, <2>3, MeantStep, MeantNothing
    <3>2. LeadsTo(1) = "aborted"
      <4>1. "config" # Empty /\ "help" # Empty
        BY Zenon DEF Empty
      <4>2. Meant(1).key = Empty
        BY <3>1 DEF Nothing
      <4>3. QED
        BY <4>1, <4>2 DEF LeadsTo
    <3>3. 1 \in Stops
      BY <1>2, <2>3, <3>2 DEF Stops, BeforeDashes, IsOption
    <3>4. QED
      BY <1>1, <3>3 DEF SecondInv
  <2>4. QED
    BY <1>1, <1>2, <2>1, <2>2, <2>3 DEF IsOption
<1>4. Found(Meant(arg).key) # {} <=> \E v \in Variables : Normal[Registrations[v].name] = Meant(arg).key
  BY <1>1, FoundRegistered
<1>5. CASE Found(Meant(arg).key) # {}
  <2>1. arg' - 1 = arg /\ arg' \in 1 .. Len(argv) + 1
    BY <1>1, <1>2
  <2>2. \A m \in 1 .. arg :
          IsOption(argv[m]) /\ \E v \in Variables : Normal[Registrations[v].name] = Meant(m).key
    <3>1. \A m \in 1 .. arg : m \in 1 .. arg - 1 \/ m = arg
      BY <1>2
    <3>2. QED
      BY <1>1, <1>4, <1>5, <3>1 DEF SecondInv
  <2>3. last' = Meant(arg - 1)' /\ Stops' = {}
    BY <1>1, <1>3, <2>1, VerdictKept DEF SecondInv
  <2>4. \A m \in 1 .. arg' - 1 :
          IsOption(argv'[m]) /\ \E v \in Variables : Normal[Registrations[v].name] = Meant(m)'.key
    BY <1>1, <2>1, <2>2, VerdictKept DEF IsOption
  <2>5. SecondInv'
    BY <1>1, <2>1, <2>3, <2>4 DEF SecondInv, IsOption
  <2>6. QED
    BY <1>1, <1>3, <1>5, <2>5 DEF ParseVerdict
<1>6. CASE Found(Meant(arg).key) = {}
  <2>1. \A m \in 1 .. arg : IsOption(argv[m])
    <3>1. \A m \in 1 .. arg : m \in 1 .. arg - 1 \/ m = arg
      BY <1>2
    <3>2. QED
      BY <1>1, <3>1 DEF SecondInv
  <2>2. arg \in Unregistered
    BY <1>2, <1>4, <1>6, <2>1 DEF Unregistered, Named
  <2>3. Verdict = "fatal" /\ at' = "fatal"
    BY <1>1, <1>3, <1>6, <2>2 DEF SecondInv, Verdict
  <2>4. QED
    BY <1>1, <2>3 DEF ParseVerdict
<1>7. QED
  BY <1>5, <1>6

LEMMA OptionsEnd ==
  ASSUME ArgumentsInv, EndSecond
  PROVE  at' = "positional" /\ UNCHANGED argv /\ Verdict = "parsed"
<1>1. /\ at = "second" /\ SecondInv /\ at' = "positional" /\ UNCHANGED argv
      /\ arg > Len(argv) \/ (arg <= Len(argv) /\ ~IsOption(argv[arg]))
  BY DEF EndSecond, ArgumentsInv
<1>2. Len(argv) \in Nat /\ DOMAIN argv = 1 .. Len(argv)
  BY ArgvType DEF ArgumentsInv
<1>3. ASSUME NEW n \in Unregistered
      PROVE  FALSE
  <2>1. /\ n \in 1 .. Len(argv) /\ \A m \in 1 .. n : IsOption(argv[m])
        /\ \A v \in Variables : Normal[Registrations[v].name] # Meant(n).key
    BY <1>2 DEF Unregistered, Named
  <2>2. n \in 1 .. arg - 1
    BY <1>1, <1>2, <2>1 DEF SecondInv
  <2>3. QED
    BY <1>1, <2>1, <2>2 DEF SecondInv
<1>4. QED
  BY <1>1, <1>3 DEF SecondInv, Verdict

LEMMA ArgumentsStay ==
  ASSUME ArgumentsInv, UNCHANGED <<at, argv, arg, last, config>>
  PROVE  ArgumentsInv'
<1>1. /\ Verdict' = Verdict /\ Stops' = Stops
      /\ \A n : Meant(n)' = Meant(n) /\ LeadsTo(n)' = LeadsTo(n)
  BY VerdictKept
<1>2. FirstInv => FirstInv'
  BY <1>1 DEF FirstInv, FirstRead, IsOption
<1>3. ConfigInv => ConfigInv'
  BY <1>1 DEF ConfigInv, FirstRead, LinesRead, IsOption
<1>4. SecondInv => SecondInv'
  BY <1>1 DEF SecondInv, IsOption
<1>5. QED
  BY <1>1, <1>2, <1>3, <1>4 DEF ArgumentsInv

LEMMA ArgumentsStep ==
  ASSUME TargetOK, ArgumentsInv, Register \/ Read
  PROVE  ArgumentsInv' /\ ParseVerdict /\ UNCHANGED argv
<1>1. CASE Register
  <2>1. at' = "first" /\ arg' = 1 /\ last' = Nothing /\ UNCHANGED argv
    BY <1>1 DEF Register, ArgumentsInv
  <2>2. FirstInv'
    <3>1. Len(argv) \in Nat
      BY ArgvType DEF ArgumentsInv
    <3>2. arg' - 1 = 0 /\ arg' \in 1 .. Len(argv) + 1
      BY <2>1, <3>1
    <3>3. last' = Meant(arg - 1)'
      BY <2>1, <3>2, VerdictKept, MeantNothing
    <3>4. FirstRead(arg - 1)'
      BY <3>2 DEF FirstRead
    <3>5. QED
      BY <2>1, <3>2, <3>3, <3>4 DEF FirstInv
  <2>3. QED
    BY <2>1, <2>2 DEF ArgumentsInv, ParseVerdict
<1>2. CASE EndFirst
  <2>1. at' = "second" /\ UNCHANGED argv
    BY <1>2 DEF EndFirst
  <2>2. QED
    BY <1>2, <2>1, FirstPassEnds DEF ArgumentsInv, ParseVerdict
<1>3. CASE SkipWord
  BY <1>3, WordSkipped DEF ArgumentsInv, ParseVerdict
<1>4. CASE FirstOption
  <2>1. UNCHANGED argv
    BY <1>4 DEF FirstOption
  <2>2. QED
    BY <1>4, <2>1, FirstPassReads DEF ArgumentsInv
<1>5. CASE EndConfig
  BY <1>5, FileRead DEF ArgumentsInv, ParseVerdict
<1>6. CASE ConfigLine
  BY <1>6, LineRead DEF ArgumentsInv
<1>7. CASE SecondOption
  BY <1>7, SecondPassReads DEF ArgumentsInv
<1>8. CASE EndSecond
  BY <1>8, OptionsEnd, VerdictKept DEF ArgumentsInv, ParseVerdict
<1>9. CASE Positional
  <2>1. at = "positional" /\ at' = at /\ UNCHANGED argv
    BY <1>9 DEF Positional
  <2>2. QED
    BY <2>1, VerdictKept DEF ArgumentsInv, ParseVerdict
<1>10. CASE EndRead
  <2>1. at = "positional" /\ at' = "parsed" /\ UNCHANGED argv
    BY <1>10 DEF EndRead, optionVars
  <2>2. QED
    BY <2>1, VerdictKept DEF ArgumentsInv, ParseVerdict
<1>11. QED
  BY <1>1, <1>2, <1>3, <1>4, <1>5, <1>6, <1>7, <1>8, <1>9, <1>10 DEF Read

-----------------------------------------------------------------------------
(* What is known of the options and the files at each stage *)

Looping == {"loop", "reset", "rebuild", "construct", "input", "decode", "write", "next"}
PastFeatures == Looping \cup {"cleanup", "clearRegister", "exited"}
PastSymbols == PastFeatures \cup {"features"}
PastModel == PastSymbols \cup {"symbols"}
PastCascade == PastModel \cup {"transModel"}
PastOutput == PastCascade \cup {"cascade"}
PastMain == PastOutput \cup {"output"}

Opening == Parsing \cup {"output", "cascade", "transModel", "symbols", "features"}

IsCascade(c) == c = [fsts |-> c.fsts, tmp |-> c.tmp]

FilesInv ==
  /\ world \in Worlds /\ IsCascade(cascade)
  /\ at \in PastMain => Len(positional) = 4 /\ Option("decoder-type") \in EntryNames
  /\ at \in PastOutput => world.writable
  /\ at \in PastCascade => FALSE \notin ToSet(world.fsts) /\ cascade.fsts = Components
  /\ at \in PastModel => world.transModel
  /\ at \in PastSymbols => world.symbols \/ Option("word-symbols-table") = ""
  /\ at \in PastFeatures => world.features

\* The first turn of the loop, which there is for any utterance at all, looks at the
\* period, at the number of components and at the start state.
Composed == at \in {"construct", "input", "decode", "write", "next"} \/ num > 0
Constructed == at \in {"input", "decode", "write", "next"} \/ num > 0

NoReader == reader = [stream |-> <<>>, key |-> "", rows |-> 0, done |-> FALSE]

LoopInv ==
  /\ num \in Nat
  /\ at \in Opening => num = 0 /\ NoReader
  /\ at = "loop" /\ num = 0 => (reader.done <=> world.stream = <<>>)
  /\ at \in PastFeatures \ Looping /\ num = 0 => world.stream = <<>>
  /\ at \in Looping \ {"loop"} \/ num > 0 => world.stream # <<>> /\ Period # 0
  /\ Composed => Len(world.fsts) \in {1, 2}
  /\ Constructed => world.start

Failed == {"usage", "fatal", "aborted", "crashed"}

OutcomeInv ==
  /\ at \notin Parsing \cup {"usage", "fatal", "aborted"} => Verdict = "parsed"
  /\ at \in {"usage", "fatal"} => Verdict = at \/ (Verdict = "parsed" /\ ~Usable)
  /\ at = "usage" => Verdict = at \/ Len(positional) # 4
  /\ at = "aborted" => Verdict = at
  /\ at = "crashed" => ~Usable /\ (~world.transModel \/ (Period = 0 /\ world.stream # <<>>))

\* The program fails before the first record is written.
FreshInv ==
  /\ num = 0 /\ at # "next" => archive.records = <<>>
  /\ at \in Failed => num = 0

EndInv == OptionsInv /\ ArgumentsInv /\ FilesInv /\ LoopInv /\ OutcomeInv /\ FreshInv

LEMMA OptionsStay ==
  ASSUME UNCHANGED <<target, value>>, NEW CONSTANT name
  PROVE  Option(name)' = Option(name)
BY DEF Option, Pointee, TypeOf, Found

LEMMA OptionsKept ==
  ASSUME UNCHANGED <<target, value>>
  PROVE  /\ Option("decoder-type")' = Option("decoder-type")
         /\ Option("word-symbols-table")' = Option("word-symbols-table")
         /\ Period' = Period
BY OptionsStay DEF Period

\* SearchOptions::Check touches the lattice beam alone.
LEMMA MainOptionsKept ==
  ASSUME OptionsInv, at = "parsed", UNCHANGED target, CheckOptions
  PROVE  /\ Option("decoder-type")' = Option("decoder-type")
         /\ Option("word-symbols-table")' = Option("word-symbols-table")
         /\ Period' = Period
         /\ DOMAIN value' = Variables
         /\ \A v \in Variables : Registrations[v].type = "int" => value'[v] \in Int
<1> DEFINE p == Pointee("lattice-beam")
           c == Min2(Option("lattice-beam"), Option("beam"))
<1>1. value' = [value EXCEPT ![p] = c] /\ DOMAIN value = Variables
  BY DEF CheckOptions, OptionsInv
<1>2. /\ p \in Variables /\ Registrations[p].type = "float"
      /\ Pointee("decoder-type") # p /\ Pointee("word-symbols-table") # p /\ Pointee("fst-reset-period") # p
      /\ {Pointee("decoder-type"), Pointee("word-symbols-table"), Pointee("fst-reset-period")} \subseteq Variables
  BY DriverKeys DEF OptionsInv
<1>3. ASSUME NEW CONSTANT name
      PROVE  Pointee(name)' = Pointee(name)
  BY DEF Pointee, TypeOf, Found
<1>4. ASSUME NEW CONSTANT name, Pointee(name) \in Variables \ {p}
      PROVE  Option(name)' = Option(name)
  <2> DEFINE q == Pointee(name)
  <2>1. Option(name)' = value'[q] /\ Option(name) = value[q]
    BY <1>3 DEF Option
  <2>2. q \in Variables \ {p}
    BY <1>4
  <2> HIDE DEF p, q, c
  <2>3. value'[q] = value[q]
    BY <1>1, <2>2
  <2>4. QED
    BY <2>1, <2>3
<1>5. \A v \in Variables : Registrations[v].type = "int" => value'[v] \in Int
  <2> HIDE DEF p, c
  <2> QED BY <1>1, <1>2 DEF OptionsInv
<1>6. QED
  BY <1>1, <1>2, <1>4, <1>5 DEF Period

LEMMA EndStart == Init => EndInv
<1> SUFFICES ASSUME Init
             PROVE  EndInv
  OBVIOUS
<1>1. OptionsInv
  BY ParseOptionsAssumption DEF Init, InitOptions, OptionsInv, TargetOK
<1>2. at = "register" /\ num = 0 /\ NoReader /\ world \in Worlds
  BY DEF Init, NoReader
<1>3. IsCascade(cascade)
  BY DEF Init, IsCascade
<1>4. FilesInv /\ LoopInv /\ OutcomeInv
  BY <1>2, <1>3 DEF FilesInv, LoopInv, OutcomeInv, PastMain, PastOutput, PastCascade, PastModel, PastSymbols,
         PastFeatures, Looping, Opening, Parsing, Composed, Constructed
<1>5. ArgumentsInv
  BY <1>2 DEF Init, InitOptions, ArgumentsInv
<1>6. FreshInv
  <2>1. archive.records = <<>>
    BY DEF Init
  <2>2. QED
    BY <1>2, <2>1 DEF FreshInv, Failed
<1>7. QED
  BY <1>1, <1>4, <1>5, <1>6 DEF EndInv

\* A step of the driver after the options are read and checked.
DriverStep ==
  \/ OpenWriter \/ ReadCascade \/ ReadTransModel \/ ReadSymbols \/ OpenReader
  \/ LoopTest \/ DeleteDecoder \/ Rebuild \/ NewDecoder \/ SetInput \/ DecodeFrame \/ EndDecode
  \/ WriteRecord \/ NextUtterance \/ CleanUp \/ ClearMainRegister

LEMMA NextSteps == Next => ((Register \/ Read) /\ UNCHANGED driverVars) \/ Main \/ DriverStep
BY DEF Next, DriverStep

LEMMA DriverKeeps ==
  ASSUME DriverStep
  PROVE  /\ UNCHANGED <<argv, target, value, positional, world>>
         /\ at \notin Parsing \cup Failed /\ at' \notin Parsing \cup {"usage", "aborted"}
<1> USE DEF DriverStep, optionVars, Parsing, Failed, driverVars
<1>1. CASE OpenWriter \/ ReadCascade \/ ReadTransModel \/ ReadSymbols \/ OpenReader
  BY <1>1 DEF OpenWriter, ReadCascade, ReadTransModel, NullDumps, ReadSymbols, OpenReader, Open
<1>2. CASE LoopTest \/ DeleteDecoder \/ Rebuild \/ NewDecoder \/ SetInput \/ DecodeFrame
  BY <1>2 DEF LoopTest, DeleteDecoder, Rebuild, NewDecoder, SetInput, DecodeFrame
<1>3. CASE EndDecode \/ WriteRecord \/ NextUtterance \/ CleanUp \/ ClearMainRegister
  BY <1>3 DEF EndDecode, WriteRecord, NextUtterance, CleanUp, ClearMainRegister
<1>4. QED
  BY <1>1, <1>2, <1>3

LEMMA ParseKeepsEnd ==
  ASSUME EndInv, Register \/ Read, UNCHANGED driverVars
  PROVE  EndInv'
<1>1. OptionsInv' /\ ParseEffect
  BY ParseStep DEF EndInv
<1>2. UNCHANGED <<world, num, reader, cascade>> /\ num = 0
  BY <1>1 DEF driverVars, EndInv, LoopInv, ParseEffect, Opening
<1>3. FilesInv'
  BY <1>1, <1>2 DEF EndInv, FilesInv, ParseEffect, Parsing, PastMain, PastOutput, PastCascade, PastModel,
                    PastSymbols, PastFeatures, Looping
<1>4. LoopInv'
  <2>1. NoReader' <=> NoReader
    BY <1>2 DEF NoReader
  <2>2. QED
    BY <1>1, <1>2, <2>1 DEF EndInv, LoopInv, ParseEffect, Parsing, Opening, PastFeatures, Looping, Composed, Constructed
<1>5. ArgumentsInv' /\ ParseVerdict /\ Verdict' = Verdict
  BY ArgumentsStep, VerdictKept DEF EndInv, OptionsInv
<1>6. OutcomeInv'
  BY <1>1, <1>5 DEF OutcomeInv, ParseEffect, ParseVerdict, Parsing
<1>7. FreshInv'
  <2>1. UNCHANGED archive /\ at # "next" /\ at' # "next"
    BY <1>1 DEF driverVars, ParseEffect, Parsing
  <2>2. QED
    BY <1>2, <2>1 DEF EndInv, FreshInv
<1>8. QED
  BY <1>1, <1>3, <1>4, <1>5, <1>6, <1>7 DEF EndInv

LEMMA MainKeepsEnd ==
  ASSUME EndInv, Main
  PROVE  EndInv'
<1>1. /\ at = "parsed" /\ UNCHANGED <<argv, target, positional, world, num, reader, cascade, archive>>
      /\ NoReader' <=> NoReader
      /\ \/ Len(positional) # 4 /\ at' = "usage" /\ UNCHANGED value
         \/ /\ Len(positional) = 4 /\ CheckOptions
            /\ at' = IF FindEntry(Option("decoder-type")) # NoObject THEN "output" ELSE "fatal"
  BY DEF Main, driverVars, NoReader
<1>2. Verdict = "parsed" /\ Verdict' = Verdict /\ at' \in {"usage", "output", "fatal"}
  BY <1>1, VerdictKept DEF EndInv, ArgumentsInv
<1>3. ArgumentsInv' /\ FreshInv'
  BY <1>1, <1>2 DEF EndInv, ArgumentsInv, FreshInv, LoopInv, Opening, Parsing
<1>4. CASE Len(positional) # 4 /\ at' = "usage" /\ UNCHANGED value
  <2>1. OptionsInv'
    BY <1>1, <1>4 DEF EndInv, OptionsInv, TargetOK
  <2>2. FilesInv' /\ LoopInv'
    BY <1>1, <1>4 DEF EndInv, FilesInv, LoopInv, Parsing, Opening, PastMain, PastOutput, PastCascade, PastModel,
                      PastSymbols, PastFeatures, Looping, Composed, Constructed
  <2>3. OutcomeInv'
    BY <1>1, <1>4, <1>2 DEF OutcomeInv, Usable, Parsing
  <2>4. QED
    BY <1>3, <2>1, <2>2, <2>3 DEF EndInv
<1>5. CASE /\ Len(positional) = 4 /\ CheckOptions
           /\ at' = IF FindEntry(Option("decoder-type")) # NoObject THEN "output" ELSE "fatal"
  <2>1. /\ Option("decoder-type")' = Option("decoder-type")
        /\ DOMAIN value' = Variables
        /\ \A v \in Variables : Registrations[v].type = "int" => value'[v] \in Int
    BY <1>1, <1>5, MainOptionsKept DEF EndInv
  <2>2. OptionsInv'
    BY <1>1, <1>5, <2>1 DEF EndInv, OptionsInv, TargetOK
  <2>3. /\ at' = "output" => Option("decoder-type") \in EntryNames
        /\ at' = "fatal" => Option("decoder-type") \notin EntryNames
        /\ at' \in {"output", "fatal"}
    BY <1>5 DEF FindEntry, NoObject
  <2>4. FilesInv' /\ LoopInv'
    BY <1>1, <1>5, <2>1, <2>3 DEF EndInv, FilesInv, LoopInv, Parsing, Opening, PastMain, PastOutput, PastCascade,
                      PastModel, PastSymbols, PastFeatures, Looping, Composed, Constructed
  <2>5. OutcomeInv'
    BY <1>1, <1>2, <2>1, <2>3 DEF OutcomeInv, Usable, Parsing
  <2>6. QED
    BY <1>3, <2>2, <2>4, <2>5 DEF EndInv
<1>6. QED
  BY <1>1, <1>4, <1>5

LEMMA DriverKeepsOptions ==
  ASSUME EndInv, DriverStep
  PROVE  /\ OptionsInv' /\ ArgumentsInv' /\ UNCHANGED <<positional, world>>
         /\ Verdict = "parsed" /\ Verdict' = Verdict
         /\ Option("decoder-type")' = Option("decoder-type")
         /\ Option("word-symbols-table")' = Option("word-symbols-table")
         /\ Period' = Period
         /\ Usable' <=> Usable
         /\ at' = "fatal" /\ ~Usable => OutcomeInv'
         /\ at' \notin {"fatal", "crashed"} => OutcomeInv'
<1>1. /\ UNCHANGED <<argv, target, value, positional, world>>
      /\ at \notin Parsing \cup Failed /\ at' \notin Parsing \cup {"usage", "aborted"}
  BY DriverKeeps
<1>2. ArgumentsInv' /\ Verdict = "parsed" /\ Verdict' = Verdict
  BY <1>1, VerdictKept DEF EndInv, ArgumentsInv, OutcomeInv, Parsing, Failed
<1>3. OptionsInv'
  BY <1>1 DEF EndInv, OptionsInv, TargetOK, Parsing
<1>4. /\ Option("decoder-type")' = Option("decoder-type")
      /\ Option("word-symbols-table")' = Option("word-symbols-table")
      /\ Period' = Period
  BY <1>1, OptionsKept
<1>5. Usable' <=> Usable
  BY <1>1, <1>4 DEF Usable
<1>6. QED
  BY <1>1, <1>3, <1>4, <1>5, <1>2 DEF OutcomeInv

LEMMA OpeningKeepsEnd ==
  ASSUME EndInv, DriverStep,
         OpenWriter \/ ReadCascade \/ ReadTransModel \/ ReadSymbols \/ OpenReader
  PROVE  OptionsInv' /\ ArgumentsInv' /\ FilesInv' /\ LoopInv' /\ OutcomeInv'
<1> USE DEF PastMain, PastOutput, PastCascade, PastModel, PastSymbols, PastFeatures, Looping, Opening, Parsing
<1>1. /\ OptionsInv' /\ ArgumentsInv' /\ UNCHANGED <<positional, world>>
      /\ Option("decoder-type")' = Option("decoder-type")
      /\ Option("word-symbols-table")' = Option("word-symbols-table")
      /\ Period' = Period /\ (Usable' <=> Usable) /\ Verdict = "parsed" /\ Verdict' = Verdict
      /\ at' = "fatal" /\ ~Usable => OutcomeInv'
      /\ at' \notin {"fatal", "crashed"} => OutcomeInv'
  BY DriverKeepsOptions
<1>2. Components' = Components
  BY <1>1 DEF Components
<1>3. CASE OpenWriter
  <2>1. /\ at = "output" /\ at' = (IF world.writable THEN "cascade" ELSE "fatal")
        /\ UNCHANGED <<num, reader, cascade>>
    BY <1>3 DEF OpenWriter, Open
  <2>2. FilesInv'
    BY <1>1, <1>2, <2>1 DEF EndInv, FilesInv
  <2>3. LoopInv'
    BY <1>1, <2>1 DEF EndInv, LoopInv, Composed, Constructed, NoReader
  <2>4. OutcomeInv'
    BY <1>1, <2>1 DEF Usable
  <2>5. QED
    BY <1>1, <2>2, <2>3, <2>4
<1>4. CASE ReadCascade
  <2>1. /\ at = "cascade" /\ UNCHANGED <<num, reader>>
        /\ \/ (\A n \in DOMAIN world.fsts : world.fsts[n]) /\ at' = "transModel" /\ cascade'.fsts = Components
           \/ ~(\A n \in DOMAIN world.fsts : world.fsts[n]) /\ at' = "fatal"
        /\ IsCascade(cascade')
    BY <1>4 DEF ReadCascade, IsCascade, EndInv, FilesInv
  <2>2. (\A n \in DOMAIN world.fsts : world.fsts[n]) <=> FALSE \notin ToSet(world.fsts)
    <3>1. \A n \in DOMAIN world.fsts : world.fsts[n] \in BOOLEAN
      <4>1. world.fsts \in Seq(BOOLEAN)
        BY RecognizerAssumption DEF EndInv, FilesInv
      <4>2. QED
        BY <4>1
    <3>2. QED
      BY <3>1 DEF ToSet
  <2>3. FilesInv'
    BY <1>1, <1>2, <2>1, <2>2 DEF EndInv, FilesInv
  <2>4. LoopInv'
    BY <1>1, <2>1 DEF EndInv, LoopInv, Composed, Constructed, NoReader
  <2>5. OutcomeInv'
    BY <1>1, <2>1, <2>2 DEF Usable
  <2>6. QED
    BY <1>1, <2>3, <2>4, <2>5
<1>5. CASE ReadTransModel
  <2>1. /\ at = "transModel" /\ UNCHANGED <<num, reader, cascade>>
        /\ \/ world.transModel /\ at' = "symbols"
           \/ ~world.transModel /\ at' \in {"crashed", "fatal"}
    BY <1>5 DEF ReadTransModel, NullDumps
  <2>2. FilesInv'
    BY <1>1, <1>2, <2>1 DEF EndInv, FilesInv
  <2>3. LoopInv'
    BY <1>1, <2>1 DEF EndInv, LoopInv, Composed, Constructed, NoReader
  <2>4. OutcomeInv'
    BY <1>1, <2>1 DEF OutcomeInv, Usable
  <2>5. QED
    BY <1>1, <2>2, <2>3, <2>4
<1>6. CASE ReadSymbols
  <2>1. /\ at = "symbols"
        /\ at' = (IF Option("word-symbols-table") = "" \/ world.symbols THEN "features" ELSE "fatal")
        /\ UNCHANGED <<num, reader, cascade>>
    BY <1>6 DEF ReadSymbols
  <2>2. FilesInv'
    BY <1>1, <1>2, <2>1 DEF EndInv, FilesInv
  <2>3. LoopInv'
    BY <1>1, <2>1 DEF EndInv, LoopInv, Composed, Constructed, NoReader
  <2>4. OutcomeInv'
    BY <1>1, <2>1 DEF Usable
  <2>5. QED
    BY <1>1, <2>2, <2>3, <2>4
<1>7. CASE OpenReader
  <2>1. /\ at = "features" /\ at' = (IF world.features THEN "loop" ELSE "fatal")
        /\ UNCHANGED <<num, cascade>>
        /\ reader' = IF world.features THEN ReadNextUtterance([reader EXCEPT !.stream = world.stream]) ELSE reader
    BY <1>7 DEF OpenReader, Open
  <2>2. FilesInv'
    BY <1>1, <1>2, <2>1 DEF EndInv, FilesInv
  <2>3. at' = "loop" => (reader'.done <=> world.stream = <<>>)
    <3>1. NoReader
      BY <2>1 DEF EndInv, LoopInv
    <3>2. QED
      BY <2>1, <3>1 DEF NoReader, ReadNextUtterance
  <2>4. LoopInv'
    BY <1>1, <2>1, <2>3 DEF EndInv, LoopInv, Composed, Constructed
  <2>5. OutcomeInv'
    BY <1>1, <2>1 DEF Usable
  <2>6. QED
    BY <1>1, <2>2, <2>4, <2>5
<1>8. QED
  BY <1>3, <1>4, <1>5, <1>6, <1>7

LEMMA CascadeSize ==
  ASSUME EndInv, at \in PastModel
  PROVE  Len(cascade.fsts) = Len(world.fsts)
<1>1. world.fsts \in Seq(BOOLEAN) /\ cascade.fsts = Components
  BY RecognizerAssumption DEF EndInv, FilesInv, PastCascade
<1>2. QED
  BY <1>1 DEF Components

LEMMA LoopKeepsEnd ==
  ASSUME EndInv, DriverStep,
         \/ LoopTest \/ DeleteDecoder \/ Rebuild \/ NewDecoder \/ SetInput \/ DecodeFrame \/ EndDecode
         \/ WriteRecord \/ NextUtterance \/ CleanUp \/ ClearMainRegister
  PROVE  OptionsInv' /\ ArgumentsInv' /\ FilesInv' /\ LoopInv' /\ OutcomeInv'
<1> USE DEF PastMain, PastOutput, PastCascade, PastModel, PastSymbols, PastFeatures, Looping, Opening, Parsing
<1>1. /\ OptionsInv' /\ ArgumentsInv' /\ UNCHANGED <<positional, world>>
      /\ Option("decoder-type")' = Option("decoder-type")
      /\ Option("word-symbols-table")' = Option("word-symbols-table")
      /\ Period' = Period /\ (Usable' <=> Usable) /\ Verdict = "parsed" /\ Verdict' = Verdict
      /\ at' = "fatal" /\ ~Usable => OutcomeInv'
      /\ at' \notin {"fatal", "crashed"} => OutcomeInv'
  BY DriverKeepsOptions
<1>2. Components' = Components
  BY <1>1 DEF Components
<1>3. CASE LoopTest
  <2>1. /\ at = "loop" /\ UNCHANGED <<num, reader, cascade>>
        /\ at' = CASE reader.done                       -> "cleanup"
                  [] ~reader.done /\ Period = 0         -> "crashed"
                  [] ~reader.done /\ Period # 0 /\ Due  -> "reset"
                  [] OTHER                              -> "input"
    BY <1>3 DEF LoopTest, driverVars
  <2>2. num = 0 /\ Period # 0 => Due
    <3>1. Period \in Int
      BY <2>1, DriverKeys DEF EndInv, OptionsInv, Period, Option
    <3>2. QED
      BY <3>1 DEF Due
  <2>3. /\ at' = "cleanup" => (num = 0 => world.stream = <<>>)
        /\ at' \in {"reset", "input"} => world.stream # <<>> /\ Period # 0
        /\ at' = "input" => num > 0
        /\ at' = "crashed" => Period = 0 /\ world.stream # <<>>
        /\ at' \in {"cleanup", "crashed", "reset", "input"}
    BY <2>1, <2>2 DEF EndInv, LoopInv
  <2>4. FilesInv'
    BY <1>1, <1>2, <2>1, <2>3 DEF EndInv, FilesInv
  <2>5. LoopInv'
    BY <1>1, <2>1, <2>3 DEF EndInv, LoopInv, Composed, Constructed
  <2>6. OutcomeInv'
    BY <1>1, <2>3 DEF OutcomeInv, Usable
  <2>7. QED
    BY <1>1, <2>4, <2>5, <2>6
<1>4. CASE Rebuild
  <2>1. /\ at = "rebuild" /\ UNCHANGED <<num, reader>> /\ cascade'.fsts = cascade.fsts
        /\ at' = (IF Len(cascade.fsts) \in {1, 2} THEN "construct" ELSE "fatal")
        /\ IsCascade(cascade')
    <3>1. /\ at = "rebuild" /\ UNCHANGED <<num, reader>>
          /\ cascade' = cascade \/ cascade' = [cascade EXCEPT !.tmp = <<Composition>>]
          /\ at' = (IF Len(cascade.fsts) \in {1, 2} THEN "construct" ELSE "fatal")
      BY <1>4 DEF Rebuild
    <3>2. IsCascade(cascade)
      BY DEF EndInv, FilesInv
    <3>3. IsCascade([cascade EXCEPT !.tmp = <<Composition>>]) /\ [cascade EXCEPT !.tmp = <<Composition>>].fsts = cascade.fsts
      BY <3>2 DEF IsCascade
    <3>4. QED
      BY <3>1, <3>2, <3>3
  <2>2. Len(cascade.fsts) = Len(world.fsts)
    BY <2>1, CascadeSize
  <2>3. FilesInv'
    BY <1>1, <1>2, <2>1 DEF EndInv, FilesInv
  <2>4. LoopInv'
    BY <1>1, <2>1, <2>2 DEF EndInv, LoopInv, Composed, Constructed
  <2>5. OutcomeInv'
    BY <1>1, <2>1, <2>2 DEF Usable, EndInv, LoopInv
  <2>6. QED
    BY <1>1, <2>3, <2>4, <2>5
<1>5. CASE NewDecoder
  <2>1. /\ at = "construct" /\ UNCHANGED <<num, reader, cascade>>
        /\ at' = (IF world.start THEN "input" ELSE "fatal")
    BY <1>5 DEF NewDecoder
  <2>2. FilesInv'
    BY <1>1, <1>2, <2>1 DEF EndInv, FilesInv
  <2>3. LoopInv'
    BY <1>1, <2>1 DEF EndInv, LoopInv, Composed, Constructed
  <2>4. OutcomeInv'
    BY <1>1, <2>1 DEF Usable, EndInv, LoopInv
  <2>5. QED
    BY <1>1, <2>2, <2>3, <2>4
<1>6. CASE NextUtterance
  <2>1. at = "next" /\ at' = "loop" /\ num' = num + 1 /\ cascade' = cascade
    BY <1>6 DEF NextUtterance
  <2>2. FilesInv'
    BY <1>1, <1>2, <2>1 DEF EndInv, FilesInv
  <2>3. LoopInv'
    BY <1>1, <2>1 DEF EndInv, LoopInv, Composed, Constructed
  <2>4. QED
    BY <1>1, <2>1, <2>2, <2>3
<1>7. CASE DeleteDecoder \/ SetInput \/ DecodeFrame \/ EndDecode \/ WriteRecord \/ CleanUp \/ ClearMainRegister
  <2>1. /\ UNCHANGED <<num, reader, cascade>>
        /\ <<at, at'>> \in {<<"reset", "rebuild">>, <<"input", "decode">>, <<"decode", "decode">>, <<"decode", "write">>,
                           <<"write", "next">>, <<"cleanup", "clearRegister">>, <<"clearRegister", "exited">>}
    BY <1>7 DEF DeleteDecoder, SetInput, DecodeFrame, EndDecode, WriteRecord, CleanUp, ClearMainRegister
  <2>2. FilesInv'
    BY <1>1, <1>2, <2>1 DEF EndInv, FilesInv
  <2>3. LoopInv'
    BY <1>1, <2>1 DEF EndInv, LoopInv, Composed, Constructed
  <2>4. QED
    BY <1>1, <2>1, <2>2, <2>3
<1>8. QED
  BY <1>3, <1>4, <1>5, <1>6, <1>7

\* What can fail has failed before the end of the first utterance.
LEMMA DriverFreshStep ==
  ASSUME EndInv, DriverStep
  PROVE  FreshInv'
<1> USE DEF Failed
<1>1. num \in Nat
  BY DEF EndInv, LoopInv
<1>2. CASE OpenWriter \/ ReadCascade \/ ReadTransModel \/ ReadSymbols \/ OpenReader
  <2>1. at \in Opening /\ UNCHANGED <<num, archive>>
    BY <1>2 DEF OpenWriter, ReadCascade, ReadTransModel, ReadSymbols, OpenReader, Open, Opening
  <2>2. num = 0 /\ at # "next"
    BY <2>1 DEF EndInv, LoopInv, Opening, Parsing
  <2>3. QED
    BY <2>1, <2>2 DEF EndInv, FreshInv
<1>3. CASE LoopTest
  <2>1. at = "loop" /\ at' \in {"cleanup", "crashed", "reset", "input"} /\ UNCHANGED <<num, archive>>
        /\ (at' = "crashed" => Period = 0)
    BY <1>3 DEF LoopTest, driverVars
  <2>2. QED
    BY <1>1, <2>1 DEF EndInv, LoopInv, FreshInv
<1>4. CASE Rebuild
  <2>1. at = "rebuild" /\ at' = (IF Len(cascade.fsts) \in {1, 2} THEN "construct" ELSE "fatal") /\ UNCHANGED <<num, archive>>
    BY <1>4 DEF Rebuild
  <2>2. Len(cascade.fsts) = Len(world.fsts)
    BY <2>1, CascadeSize DEF PastModel, PastSymbols, PastFeatures, Looping
  <2>3. QED
    BY <1>1, <2>1, <2>2 DEF EndInv, LoopInv, Composed, FreshInv
<1>5. CASE NewDecoder
  <2>1. at = "construct" /\ at' = (IF world.start THEN "input" ELSE "fatal") /\ UNCHANGED <<num, archive>>
    BY <1>5 DEF NewDecoder
  <2>2. QED
    BY <1>1, <2>1 DEF EndInv, LoopInv, Constructed, FreshInv
<1>6. CASE DeleteDecoder \/ SetInput \/ DecodeFrame \/ EndDecode \/ CleanUp \/ ClearMainRegister
  <2>1. UNCHANGED <<num, archive>> /\ at # "next" /\ at' \notin Failed
    BY <1>6 DEF DeleteDecoder, SetInput, DecodeFrame, EndDecode, CleanUp, ClearMainRegister
  <2>2. QED
    BY <2>1 DEF EndInv, FreshInv
<1>7. CASE WriteRecord
  BY <1>7 DEF WriteRecord, FreshInv
<1>8. CASE NextUtterance
  BY <1>1, <1>8 DEF NextUtterance, FreshInv
<1>9. QED
  BY <1>2, <1>3, <1>4, <1>5, <1>6, <1>7, <1>8 DEF DriverStep

LEMMA EndStep == EndInv /\ [Next]_recognizerVars => EndInv'
<1> SUFFICES ASSUME EndInv, [Next]_recognizerVars
             PROVE  EndInv'
  OBVIOUS
<1>1. CASE (Register \/ Read) /\ UNCHANGED driverVars
  BY <1>1, ParseKeepsEnd
<1>2. CASE Main
  BY <1>2, MainKeepsEnd
<1>3. CASE DriverStep
  BY <1>3, OpeningKeepsEnd, LoopKeepsEnd, DriverFreshStep DEF DriverStep, EndInv
<1>4. CASE UNCHANGED recognizerVars
  <2>1. UNCHANGED <<at, argv, target, value, arg, last, config, positional, world, num, reader, cascade, archive>>
    BY <1>4 DEF recognizerVars, optionVars, driverVars
  <2>2. /\ Option("decoder-type")' = Option("decoder-type")
        /\ Option("word-symbols-table")' = Option("word-symbols-table")
        /\ Period' = Period
    BY <2>1, OptionsKept
  <2>3. Usable' <=> Usable
    BY <2>1, <2>2 DEF Usable
  <2>4. Verdict' = Verdict
    BY <2>1, VerdictKept
  <2>5. OptionsInv' /\ OutcomeInv' /\ FreshInv'
    BY <2>1, <2>2, <2>3, <2>4 DEF EndInv, OptionsInv, OutcomeInv, FreshInv, TargetOK
  <2>6. ArgumentsInv'
    BY <2>1, ArgumentsStay DEF EndInv
  <2>7. FilesInv'
    BY <2>1, <2>2 DEF EndInv, FilesInv, Components
  <2>8. LoopInv'
    <3>1. NoReader' <=> NoReader
      BY <2>1 DEF NoReader
    <3>2. QED
      BY <2>1, <2>2, <3>1 DEF EndInv, LoopInv, Composed, Constructed
  <2>9. QED
    BY <2>5, <2>7, <2>8, <2>6 DEF EndInv
<1>5. QED
  BY <1>1, <1>2, <1>3, <1>4, NextSteps

\* The program returns from main exactly when its options can be read and its arguments
\* and files be used; it is refused, aborted or killed for the reason the options, the
\* configuration files or the period give, and before the first record
\* (Recognizer!OutcomeJustified; ParseOptions::Read, main and CLevelDecoderMain).
THEOREM SpecOutcomeJustified == Spec => []OutcomeJustified
<1>1. EndInv => OutcomeJustified
  <2> SUFFICES ASSUME EndInv
               PROVE  OutcomeJustified
    OBVIOUS
  <2>1. ASSUME at = "exited"
        PROVE  Usable
    <3>1. /\ Len(positional) = 4 /\ Option("decoder-type") \in EntryNames
          /\ world.writable /\ world.transModel /\ world.features
          /\ FALSE \notin ToSet(world.fsts)
          /\ world.symbols \/ Option("word-symbols-table") = ""
      BY <2>1 DEF EndInv, FilesInv, PastMain, PastOutput, PastCascade, PastModel, PastSymbols, PastFeatures, Looping
    <3>2. world.stream # <<>> => Period # 0 /\ Len(world.fsts) \in {1, 2} /\ world.start
      BY <2>1 DEF EndInv, LoopInv, PastFeatures, Looping, Composed, Constructed
    <3>3. QED
      BY <3>1, <3>2 DEF Usable
  <2>2. QED
    BY <2>1 DEF EndInv, OutcomeInv, FreshInv, OutcomeJustified, Ended, Failed, Parsing
<1>2. QED
  BY <1>1, EndStart, EndStep, PTL DEF Spec

-----------------------------------------------------------------------------
(* Lifetimes *)

\* An object is named by its kind first.
IsA(object, kind) == object[1] = kind

Compositions == {<<"composition", n>> : n \in Nat}
Decoders == {<<"decoder", n>> : n \in Nat}

\* From the cascade's making on its objects are at most one composition; the decoder
\* follows an FST of the cascade, and is deleted before that is composed anew.
PointersInv ==
  /\ cascade.tmp = <<>> \/ \E c \in Compositions : cascade.tmp = <<c>>
  /\ at \in Opening => cascade.tmp = <<>>
  /\ \/ decoder = NoDecoder
     \/ decoder.self \in Decoders /\ decoder.fst \in ToSet(cascade.tmp) \cup ToSet(cascade.fsts)
  /\ at \in Opening \cup {"rebuild", "construct"} => decoder = NoDecoder
  /\ at = "construct" /\ cascade.tmp = <<>> => Len(cascade.fsts) = 1
  /\ at \in {"input", "decode", "write", "next"} \/ (at = "loop" /\ num > 0) => decoder # NoDecoder
  /\ at = "decode" => input.frontEnd = <<"frontEnd", num>>

LiveInv ==
  /\ misused = {}
  /\ at \in Parsing \cup {"output", "clearRegister"} => live = Entries
  /\ at = "cascade" => live = Entries \cup {<<"farWriter">>}
  /\ at = "transModel" => live = Entries \cup {<<"farWriter">>, <<"cascade">>} \cup ToSet(cascade.fsts)
  /\ at = "symbols" =>
       live = Entries \cup {<<"farWriter">>, <<"cascade">>, <<"transModel">>} \cup ToSet(cascade.fsts)
  /\ at = "features" => live = Entries \cup Owned
  /\ at \in (Looping \ {"decode"}) \cup {"cleanup"} => live = Entries \cup Owned \cup {<<"reader">>}
  /\ at = "decode" => live = Entries \cup Owned \cup {<<"reader">>, input.frontEnd}
  /\ at = "exited" => live = {}

LifeInv == EndInv /\ PointersInv /\ LiveInv

LEMMA ObjectKinds ==
  ASSUME EndInv, PointersInv, at \in PastCascade
  PROVE  /\ \A o \in Entries : IsA(o, "entry")
         /\ \A o \in ToSet(cascade.fsts) : IsA(o, "fst")
         /\ \A o \in ToSet(cascade.tmp) : IsA(o, "composition")
         /\ decoder.self # NoObject => decoder.self \in Decoders /\ IsA(decoder.self, "decoder")
         /\ \A o \in Owned \cup {<<"reader">>} : ~IsA(o, "entry") /\ ~IsA(o, "frontEnd")
         /\ decoder # NoDecoder => decoder.self # NoObject
<1>1. \A o \in Entries : IsA(o, "entry")
  BY DEF Entries, IsA
<1>2. \A o \in ToSet(cascade.fsts) : IsA(o, "fst")
  <2>1. cascade.fsts = Components
    BY DEF EndInv, FilesInv
  <2>2. \A n \in DOMAIN Components : Components[n] = <<"fst", n>>
    BY DEF Components
  <2>3. QED
    BY <2>1, <2>2 DEF ToSet, IsA
<1>3. \A o \in ToSet(cascade.tmp) : IsA(o, "composition")
  BY DEF PointersInv, Compositions, ToSet, IsA
<1>4. decoder.self # NoObject => decoder.self \in Decoders /\ IsA(decoder.self, "decoder")
  BY DEF PointersInv, NoDecoder, Decoders, IsA
<1>5. decoder # NoDecoder => decoder.self # NoObject
  BY DEF PointersInv, NoObject, Decoders
<1>6. \A o \in Owned \cup {<<"reader">>} : ~IsA(o, "entry") /\ ~IsA(o, "frontEnd")
  <2>1. TAKE o \in Owned \cup {<<"reader">>}
  <2>2. o \in {<<"farWriter">>, <<"cascade">>, <<"transModel">>, <<"wordSyms">>, <<"reader">>} \/ o \in ToSet(cascade.fsts)
        \/ o \in ToSet(cascade.tmp) \/ (decoder.self # NoObject /\ o = decoder.self)
    BY <2>1 DEF Owned
  <2>3. CASE o \in {<<"farWriter">>, <<"cascade">>, <<"transModel">>, <<"wordSyms">>, <<"reader">>}
    BY <2>3 DEF IsA
  <2>4. QED
    BY <2>2, <2>3, <1>2, <1>3, <1>4 DEF IsA
<1>7. QED
  BY <1>1, <1>2, <1>3, <1>4, <1>5, <1>6

LEMMA LifeStart == Init => LifeInv
<1> SUFFICES ASSUME Init
             PROVE  LifeInv
  OBVIOUS
<1>1. EndInv
  BY EndStart
<1>2. at = "register" /\ cascade.tmp = <<>> /\ decoder = NoDecoder /\ live = Entries /\ misused = {}
  BY DEF Init
<1>3. PointersInv
  BY <1>2 DEF PointersInv, Parsing, Opening
<1>5. LiveInv
  BY <1>2 DEF LiveInv, Parsing, Looping
<1>4. QED
  BY <1>1, <1>3, <1>5 DEF LifeInv

\* What Owned is a function of.
LEMMA OwnedKept ==
  ASSUME UNCHANGED <<cascade, decoder>>, Option("word-symbols-table")' = Option("word-symbols-table")
  PROVE  Owned' = Owned
BY DEF Owned

LEMMA ReadingKeepsLife ==
  ASSUME LifeInv, \/ (Register \/ Read) /\ UNCHANGED driverVars
                  \/ Main
  PROVE  PointersInv' /\ LiveInv'
<1>1. /\ at \in Parsing /\ UNCHANGED <<live, misused, cascade, decoder, num, input>>
      /\ at' \in Parsing \cup {"aborted", "fatal", "usage", "output"}
  <2>1. CASE (Register \/ Read) /\ UNCHANGED driverVars
    BY <2>1, ParseStep DEF LifeInv, EndInv, ParseEffect, driverVars
  <2>2. CASE Main
    BY <2>2 DEF Main, driverVars, Parsing
  <2>3. QED
    BY <2>1, <2>2
<1>2. PointersInv'
  BY <1>1 DEF LifeInv, PointersInv, Parsing, Opening
<1>3. LiveInv'
  BY <1>1 DEF LifeInv, LiveInv, Parsing, Looping
<1>4. QED
  BY <1>2, <1>3

LEMMA OpeningKeepsLife ==
  ASSUME LifeInv, DriverStep,
         OpenWriter \/ ReadCascade \/ ReadTransModel \/ ReadSymbols \/ OpenReader
  PROVE  PointersInv' /\ LiveInv'
<1> USE DEF Looping, Opening, Parsing
<1>1. /\ Option("word-symbols-table")' = Option("word-symbols-table")
      /\ num = 0
  <2>1. at \in Opening
    BY DEF OpenWriter, ReadCascade, ReadTransModel, ReadSymbols, OpenReader, Open
  <2>2. QED
    BY <2>1, DriverKeepsOptions DEF LifeInv, EndInv, LoopInv
<1>2. CASE OpenWriter
  <2>1. /\ at = "output" /\ at' = (IF world.writable THEN "cascade" ELSE "fatal")
        /\ live' = (IF world.writable THEN live \cup {<<"farWriter">>} ELSE live)
        /\ UNCHANGED <<misused, decoder, input, num, cascade>>
    BY <1>2 DEF OpenWriter, Open
  <2>2. PointersInv'
    BY <2>1 DEF LifeInv, PointersInv
  <2>3. LiveInv'
    BY <2>1 DEF LifeInv, LiveInv
  <2>4. QED
    BY <2>2, <2>3
<1>3. CASE ReadCascade
  <2>1. /\ at = "cascade" /\ UNCHANGED <<misused, decoder, input, num>>
        /\ \/ at' = "transModel" /\ cascade' = [fsts |-> Components, tmp |-> <<>>]
              /\ live' = live \cup {<<"cascade">>} \cup ToSet(Components)
           \/ at' = "fatal" /\ UNCHANGED <<live, cascade>>
    BY <1>3 DEF ReadCascade
  <2>2. PointersInv'
    BY <2>1, <1>1 DEF LifeInv, PointersInv
  <2>3. LiveInv'
    BY <2>1 DEF LifeInv, LiveInv
  <2>4. QED
    BY <2>2, <2>3
<1>4. CASE ReadTransModel
  <2>1. /\ at = "transModel" /\ UNCHANGED <<misused, decoder, input, num, cascade>>
        /\ \/ at' = "symbols" /\ live' = live \cup {<<"transModel">>}
           \/ at' \in {"crashed", "fatal"}
    BY <1>4 DEF ReadTransModel, NullDumps
  <2>2. PointersInv'
    BY <2>1, <1>1 DEF LifeInv, PointersInv
  <2>3. LiveInv'
    BY <2>1 DEF LifeInv, LiveInv
  <2>4. QED
    BY <2>2, <2>3
<1>5. CASE ReadSymbols
  <2>1. /\ at = "symbols" /\ UNCHANGED <<misused, decoder, input, num, cascade>>
        /\ \/ at' = "features" /\ live' = live \cup (IF Option("word-symbols-table") = "" THEN {} ELSE {<<"wordSyms">>})
           \/ at' = "fatal"
    BY <1>5 DEF ReadSymbols
  <2>2. PointersInv'
    BY <2>1, <1>1 DEF LifeInv, PointersInv
  <2>3. Owned' = Owned
    BY <2>1, <1>1, OwnedKept
  <2>4. cascade.tmp = <<>> /\ decoder.self = NoObject
    <3>1. cascade.tmp = <<>> /\ decoder = NoDecoder
      BY <2>1 DEF LifeInv, PointersInv
    <3>2. QED
      BY <3>1 DEF NoDecoder
  <2>5. Owned = {<<"farWriter">>, <<"cascade">>, <<"transModel">>} \cup ToSet(cascade.fsts)
                \cup (IF Option("word-symbols-table") = "" THEN {} ELSE {<<"wordSyms">>})
    BY <2>4 DEF Owned, ToSet
  <2>6. LiveInv'
    BY <2>1, <2>3, <2>5 DEF LifeInv, LiveInv
  <2>7. QED
    BY <2>2, <2>6
<1>6. CASE OpenReader
  <2>1. /\ at = "features" /\ at' = (IF world.features THEN "loop" ELSE "fatal")
        /\ live' = (IF world.features THEN live \cup {<<"reader">>} ELSE live)
        /\ UNCHANGED <<misused, decoder, input, num, cascade>>
    BY <1>6 DEF OpenReader, Open
  <2>2. PointersInv'
    BY <2>1, <1>1 DEF LifeInv, PointersInv
  <2>3. Owned' = Owned
    BY <2>1, <1>1, OwnedKept
  <2>4. LiveInv'
    BY <2>1, <2>3 DEF LifeInv, LiveInv
  <2>5. QED
    BY <2>2, <2>4
<1>7. QED
  BY <1>2, <1>3, <1>4, <1>5, <1>6

\* Everything a search follows is live.
LEMMA FollowedLive ==
  ASSUME LifeInv, at = "decode"
  PROVE  Followed \subseteq live
<1>1. live = Entries \cup Owned \cup {<<"reader">>, input.frontEnd}
  BY DEF LifeInv, LiveInv, Looping
<1>2. decoder # NoDecoder
  BY DEF LifeInv, PointersInv
<1>3. decoder.self # NoObject
  BY <1>2, ObjectKinds DEF LifeInv, PastCascade, PastModel, PastSymbols, PastFeatures, Looping
<1>4. {decoder.self, <<"transModel">>} \cup ToSet(cascade.tmp) \cup ToSet(cascade.fsts) \subseteq Owned
  BY <1>3 DEF Owned
<1>5. decoder.fst \in ToSet(cascade.tmp) \cup ToSet(cascade.fsts)
  BY <1>2 DEF LifeInv, PointersInv
<1>6. QED
  BY <1>1, <1>4, <1>5 DEF Followed

LEMMA LoopKeepsLife ==
  ASSUME LifeInv, DriverStep, LoopTest \/ DeleteDecoder \/ Rebuild \/ NewDecoder
  PROVE  PointersInv' /\ LiveInv'
<1> USE DEF Looping, Opening, Parsing
<1>1. /\ Option("word-symbols-table")' = Option("word-symbols-table")
      /\ num \in Nat
  BY DriverKeepsOptions DEF LifeInv, EndInv, LoopInv
<1>2. at \in PastCascade
  BY DEF LoopTest, DeleteDecoder, Rebuild, NewDecoder, PastCascade, PastModel, PastSymbols, PastFeatures
<1>3. CASE LoopTest
  <2>1. /\ at = "loop" /\ UNCHANGED <<live, misused, cascade, decoder, input, num>>
        /\ at' \in {"cleanup", "crashed", "reset", "input"}
        /\ at' = "input" => Period # 0 /\ ~Due
    BY <1>3 DEF LoopTest, driverVars
  <2>2. at' = "input" => num > 0
    <3>1. Period \in Int
      BY <2>1, DriverKeys DEF LifeInv, EndInv, OptionsInv, Period, Option
    <3>2. num = 0 /\ Period # 0 => Due
      BY <3>1 DEF Due
    <3>3. QED
      BY <1>1, <2>1, <3>2
  <2>3. Owned' = Owned
    BY <1>1, <2>1, OwnedKept
  <2>4. PointersInv'
    BY <2>1, <2>2 DEF LifeInv, PointersInv
  <2>5. LiveInv'
    BY <2>1, <2>3 DEF LifeInv, LiveInv
  <2>6. QED
    BY <2>4, <2>5
<1>4. CASE DeleteDecoder
  <2>1. /\ at = "reset" /\ at' = "rebuild" /\ decoder' = NoDecoder /\ UNCHANGED <<cascade, input, num>>
        /\ live' = live \ ({decoder.self} \ {NoObject})
        /\ misused' = misused \cup (({decoder.self} \ {NoObject}) \ live)
    BY <1>4 DEF DeleteDecoder, Delete
  <2>2. live = Entries \cup Owned \cup {<<"reader">>} /\ misused = {}
    BY <2>1 DEF LifeInv, LiveInv
  <2>3. /\ Owned = Owned' \cup ({decoder.self} \ {NoObject})
        /\ Owned' = {<<"farWriter">>, <<"cascade">>, <<"transModel">>} \cup ToSet(cascade.tmp) \cup ToSet(cascade.fsts)
                     \cup (IF Option("word-symbols-table") = "" THEN {} ELSE {<<"wordSyms">>})
    <3>1. decoder'.self = NoObject
      BY <2>1 DEF NoDecoder
    <3>2. QED
      BY <1>1, <2>1, <3>1 DEF Owned
  <2>4. ({decoder.self} \ {NoObject}) \cap (Entries \cup Owned' \cup {<<"reader">>}) = {}
    <3>1. SUFFICES ASSUME decoder.self # NoObject
                   PROVE  decoder.self \notin Entries \cup Owned' \cup {<<"reader">>}
      OBVIOUS
    <3>2. /\ IsA(decoder.self, "decoder")
          /\ \A o \in Entries : IsA(o, "entry")
          /\ \A o \in ToSet(cascade.fsts) : IsA(o, "fst")
          /\ \A o \in ToSet(cascade.tmp) : IsA(o, "composition")
      BY <1>2, <3>1, ObjectKinds DEF LifeInv
    <3>3. decoder.self \notin {<<"farWriter">>, <<"cascade">>, <<"transModel">>, <<"wordSyms">>, <<"reader">>}
      BY <3>2 DEF IsA
    <3>4. decoder.self \notin Entries \cup ToSet(cascade.fsts) \cup ToSet(cascade.tmp)
      BY <3>2 DEF IsA
    <3>5. QED
      BY <2>3, <3>3, <3>4
  <2>5. live' = Entries \cup Owned' \cup {<<"reader">>} /\ misused' = {}
    BY <2>1, <2>2, <2>3, <2>4
  <2>6. PointersInv'
    BY <2>1 DEF LifeInv, PointersInv
  <2>7. LiveInv'
    BY <2>1, <2>5 DEF LiveInv
  <2>8. QED
    BY <2>6, <2>7
<1>5. CASE Rebuild
  <2>1. /\ at = "rebuild" /\ UNCHANGED <<decoder, input, num>> /\ decoder = NoDecoder
        /\ live = Entries \cup Owned \cup {<<"reader">>} /\ misused = {}
    BY <1>5 DEF Rebuild, LifeInv, LiveInv, PointersInv
  <2>2. decoder.self = NoObject
    BY <2>1 DEF NoDecoder
  <2>3. CASE Len(cascade.fsts) # 2
    <3>1. /\ UNCHANGED <<live, misused, cascade>> /\ at' \in {"construct", "fatal"}
          /\ at' = "construct" => Len(cascade.fsts) = 1
      BY <1>5, <2>3 DEF Rebuild
    <3>2. Owned' = Owned
      BY <1>1, <2>1, <3>1, OwnedKept
    <3>3. PointersInv'
      BY <2>1, <3>1 DEF LifeInv, PointersInv
    <3>4. LiveInv'
      BY <2>1, <3>1, <3>2 DEF LifeInv, LiveInv
    <3>5. QED
      BY <3>3, <3>4
  <2>4. CASE Len(cascade.fsts) = 2
    <3>1. /\ live' = (live \ ToSet(cascade.tmp)) \cup {Composition}
          /\ misused' = misused \cup (ToSet(cascade.tmp) \ live)
          /\ cascade' = [cascade EXCEPT !.tmp = <<Composition>>]
          /\ at' = "construct"
      BY <1>5, <2>4 DEF Rebuild
    <3>2. cascade'.fsts = cascade.fsts /\ cascade'.tmp = <<Composition>>
      <4>1. IsCascade(cascade)
        BY DEF LifeInv, EndInv, FilesInv
      <4>2. QED
        BY <3>1, <4>1 DEF IsCascade
    <3> DEFINE rest == {<<"farWriter">>, <<"cascade">>, <<"transModel">>} \cup ToSet(cascade.fsts)
                       \cup (IF Option("word-symbols-table") = "" THEN {} ELSE {<<"wordSyms">>})
    <3>3. Owned = rest \cup ToSet(cascade.tmp)
      BY <2>2 DEF Owned
    <3>4. Owned' = rest \cup {Composition}
      <4>1. ToSet(cascade'.tmp) = {Composition}
        BY <3>2 DEF ToSet
      <4>2. Owned' = {<<"farWriter">>, <<"cascade">>, <<"transModel">>} \cup ToSet(cascade'.tmp) \cup ToSet(cascade'.fsts)
                     \cup (IF decoder'.self = NoObject THEN {} ELSE {decoder'.self})
                     \cup (IF Option("word-symbols-table")' = "" THEN {} ELSE {<<"wordSyms">>})
        BY DEF Owned
      <4>3. QED
        BY <1>1, <2>1, <2>2, <3>2, <4>1, <4>2
    <3>5. ToSet(cascade.tmp) \cap (Entries \cup rest \cup {<<"reader">>}) = {}
      <4>1. /\ \A o \in Entries : IsA(o, "entry")
            /\ \A o \in ToSet(cascade.fsts) : IsA(o, "fst")
            /\ \A o \in ToSet(cascade.tmp) : IsA(o, "composition")
        BY <1>2, ObjectKinds DEF LifeInv
      <4>2. ASSUME NEW o \in ToSet(cascade.tmp)
            PROVE  o \notin Entries \cup rest \cup {<<"reader">>}
        <5>1. o \notin {<<"farWriter">>, <<"cascade">>, <<"transModel">>, <<"wordSyms">>, <<"reader">>}
          BY <4>1, <4>2 DEF IsA
        <5>2. o \notin Entries \cup ToSet(cascade.fsts)
          BY <4>1, <4>2 DEF IsA
        <5>3. QED
          BY <5>1, <5>2
      <4>3. QED
        BY <4>2
    <3> HIDE DEF rest
    <3>6. live' = Entries \cup Owned' \cup {<<"reader">>} /\ misused' = {}
      BY <2>1, <3>1, <3>3, <3>4, <3>5
    <3>7. PointersInv'
      <4>1. Composition \in Compositions
        BY <1>1 DEF Composition, Compositions
      <4>2. cascade'.tmp # <<>>
        BY <3>2
      <4>3. QED
        BY <2>1, <3>1, <3>2, <4>1, <4>2 DEF PointersInv
    <3>8. LiveInv'
      BY <3>1, <3>6 DEF LiveInv
    <3>9. QED
      BY <3>7, <3>8
  <2>5. QED
    BY <2>3, <2>4
<1>6. CASE NewDecoder
  <2>1. /\ at = "construct" /\ UNCHANGED <<misused, cascade, input, num>> /\ decoder = NoDecoder
        /\ live = Entries \cup Owned \cup {<<"reader">>} /\ misused = {}
        /\ \/ /\ at' = "input" /\ live' = live \cup {<<"decoder", num>>}
              /\ decoder' = [self |-> <<"decoder", num>>,
                             fst  |-> IF cascade.tmp = <<>> THEN cascade.fsts[1] ELSE cascade.tmp[1]]
           \/ at' = "fatal"
    BY <1>6 DEF NewDecoder, LifeInv, LiveInv, PointersInv
  <2>2. CASE at' = "fatal"
    <3>1. PointersInv'
      <4>1. UNCHANGED decoder
        BY <1>6, <2>2 DEF NewDecoder
      <4>2. QED
        BY <2>1, <2>2, <4>1 DEF LifeInv, PointersInv
    <3>2. LiveInv'
      BY <2>1, <2>2 DEF LiveInv
    <3>3. QED
      BY <3>1, <3>2
  <2>3. CASE at' = "input"
    <3>1. /\ live' = live \cup {<<"decoder", num>>}
          /\ decoder'.self = <<"decoder", num>>
          /\ decoder'.fst = IF cascade.tmp = <<>> THEN cascade.fsts[1] ELSE cascade.tmp[1]
      BY <2>1, <2>3
    <3>2. decoder'.self # NoObject /\ decoder'.self \in Decoders /\ decoder' # NoDecoder
      <4>1. <<"decoder", num>> # NoObject /\ <<"decoder", num>> \in Decoders
        BY <1>1 DEF NoObject, Decoders
      <4>2. QED
        BY <3>1, <4>1 DEF NoDecoder
    <3>3. decoder'.fst \in ToSet(cascade.tmp) \cup ToSet(cascade.fsts)
      <4>1. CASE cascade.tmp = <<>>
        <5>1. Len(cascade.fsts) = 1 /\ cascade.fsts = Components
          BY <2>1, <4>1, <1>2 DEF LifeInv, PointersInv, EndInv, FilesInv
        <5>2. 1 \in DOMAIN cascade.fsts
          <6>1. world.fsts \in Seq(BOOLEAN)
            BY RecognizerAssumption DEF LifeInv, EndInv, FilesInv
          <6>2. Len(world.fsts) \in Nat /\ Len(Components) = Len(world.fsts) /\ DOMAIN Components = 1 .. Len(world.fsts)
            BY <6>1 DEF Components
          <6>3. QED
            BY <5>1, <6>2
        <5>3. QED
          BY <3>1, <4>1, <5>2 DEF ToSet
      <4>2. CASE cascade.tmp # <<>>
        <5>1. PICK c \in Compositions : cascade.tmp = <<c>>
          BY <4>2 DEF LifeInv, PointersInv
        <5>2. QED
          BY <3>1, <4>2, <5>1 DEF ToSet
      <4>3. QED
        BY <4>1, <4>2
    <3>4. Owned' = Owned \cup {decoder'.self}
      <4>1. decoder.self = NoObject
        BY <2>1 DEF NoDecoder
      <4>2. QED
        BY <1>1, <2>1, <3>2, <4>1 DEF Owned
    <3>5. PointersInv'
      BY <2>1, <2>3, <3>2, <3>3 DEF LifeInv, PointersInv
    <3>6. LiveInv'
      BY <2>1, <2>3, <3>1, <3>4 DEF LiveInv
    <3>7. QED
      BY <3>5, <3>6
  <2>4. QED
    BY <2>1, <2>2, <2>3
<1>7. QED
  BY <1>3, <1>4, <1>5, <1>6

LEMMA DecodingKeepsLife ==
  ASSUME LifeInv, DriverStep,
         SetInput \/ DecodeFrame \/ EndDecode \/ WriteRecord \/ NextUtterance \/ CleanUp \/ ClearMainRegister
  PROVE  PointersInv' /\ LiveInv'
<1> USE DEF Looping, Opening, Parsing
<1>1. Option("word-symbols-table")' = Option("word-symbols-table") /\ num \in Nat
  BY DriverKeepsOptions DEF LifeInv, EndInv, LoopInv
<1>2. CASE SetInput
  <2>1. /\ at = "input" /\ at' = "decode" /\ UNCHANGED <<misused, cascade, decoder, num>>
        /\ live' = live \cup {<<"frontEnd", num>>} /\ input'.frontEnd = <<"frontEnd", num>>
    BY <1>2 DEF SetInput
  <2>2. Owned' = Owned
    BY <1>1, <2>1, OwnedKept
  <2>3. PointersInv'
    BY <2>1 DEF LifeInv, PointersInv
  <2>4. LiveInv'
    BY <2>1, <2>2 DEF LifeInv, LiveInv
  <2>5. QED
    BY <2>3, <2>4
<1>3. CASE DecodeFrame
  <2>1. /\ at = "decode" /\ at' = "decode" /\ UNCHANGED <<live, cascade, decoder, num>>
        /\ misused' = misused \cup (Followed \ live) /\ input' = [input EXCEPT !.index = @ + 1]
    BY <1>3 DEF DecodeFrame, Follow
  <2>2. Followed \subseteq live
    BY <2>1, FollowedLive
  <2>3. misused' = misused
    BY <2>1, <2>2
  <2>4. input'.frontEnd = input.frontEnd
    BY <2>1
  <2>5. Owned' = Owned
    BY <1>1, <2>1, OwnedKept
  <2>6. PointersInv'
    BY <2>1, <2>4 DEF LifeInv, PointersInv
  <2>7. LiveInv'
    BY <2>1, <2>3, <2>4, <2>5 DEF LifeInv, LiveInv
  <2>8. QED
    BY <2>6, <2>7
<1>4. CASE EndDecode
  <2>1. /\ at = "decode" /\ at' = "write" /\ UNCHANGED <<cascade, decoder, num>>
        /\ live' = live \ {input.frontEnd} /\ misused' = misused \cup ({input.frontEnd} \ live)
    BY <1>4 DEF EndDecode, Delete
  <2>2. live = Entries \cup Owned \cup {<<"reader">>, input.frontEnd} /\ misused = {}
    BY <2>1 DEF LifeInv, LiveInv
  <2>3. input.frontEnd \notin Entries \cup Owned \cup {<<"reader">>}
    <3>1. IsA(input.frontEnd, "frontEnd")
      BY <2>1 DEF LifeInv, PointersInv, IsA
    <3>2. /\ \A o \in Entries : IsA(o, "entry")
          /\ \A o \in Owned \cup {<<"reader">>} : ~IsA(o, "frontEnd")
      BY <2>1, ObjectKinds DEF LifeInv, PastCascade, PastModel, PastSymbols, PastFeatures
    <3>3. input.frontEnd \notin Entries
      BY <3>1, <3>2 DEF IsA
    <3>4. QED
      BY <3>1, <3>2, <3>3
  <2>4. live' = Entries \cup Owned \cup {<<"reader">>} /\ misused' = {}
    BY <2>1, <2>2, <2>3
  <2>5. Owned' = Owned
    BY <1>1, <2>1, OwnedKept
  <2>6. PointersInv'
    BY <2>1 DEF LifeInv, PointersInv
  <2>7. LiveInv'
    BY <2>1, <2>4, <2>5 DEF LiveInv
  <2>8. QED
    BY <2>6, <2>7
<1>5. CASE WriteRecord
  <2>1. /\ at = "write" /\ at' = "next" /\ UNCHANGED <<live, cascade, decoder, num>>
        /\ misused' = misused \cup ({<<"farWriter">>} \ live)
    BY <1>5 DEF WriteRecord, Follow
  <2>2. misused' = misused
    BY <2>1 DEF LifeInv, LiveInv, Owned
  <2>3. Owned' = Owned
    BY <1>1, <2>1, OwnedKept
  <2>4. PointersInv'
    BY <2>1 DEF LifeInv, PointersInv
  <2>5. LiveInv'
    BY <2>1, <2>2, <2>3 DEF LifeInv, LiveInv
  <2>6. QED
    BY <2>4, <2>5
<1>6. CASE NextUtterance
  <2>1. at = "next" /\ at' = "loop" /\ UNCHANGED <<live, misused, cascade, decoder>>
    BY <1>6 DEF NextUtterance
  <2>2. Owned' = Owned
    BY <1>1, <2>1, OwnedKept
  <2>3. PointersInv'
    BY <2>1 DEF LifeInv, PointersInv
  <2>4. LiveInv'
    BY <2>1, <2>2 DEF LifeInv, LiveInv
  <2>5. QED
    BY <2>3, <2>4
<1>7. CASE CleanUp
  <2>1. /\ at = "cleanup" /\ at' = "clearRegister" /\ UNCHANGED <<cascade, decoder, num>>
        /\ live' = live \ (Owned \cup {<<"reader">>}) /\ misused' = misused \cup ((Owned \cup {<<"reader">>}) \ live)
    BY <1>7 DEF CleanUp, Delete
  <2>2. live = Entries \cup Owned \cup {<<"reader">>} /\ misused = {}
    BY <2>1 DEF LifeInv, LiveInv
  <2>3. Entries \cap (Owned \cup {<<"reader">>}) = {}
    <3>1. /\ \A o \in Entries : IsA(o, "entry")
          /\ \A o \in Owned \cup {<<"reader">>} : ~IsA(o, "entry")
      BY <2>1, ObjectKinds DEF LifeInv, PastCascade, PastModel, PastSymbols, PastFeatures
    <3>2. QED
      BY <3>1
  <2>4. live' = Entries /\ misused' = {}
    BY <2>1, <2>2, <2>3
  <2>5. PointersInv'
    BY <2>1 DEF LifeInv, PointersInv
  <2>6. LiveInv'
    BY <2>1, <2>4 DEF LiveInv
  <2>7. QED
    BY <2>5, <2>6
<1>8. CASE ClearMainRegister
  <2>1. /\ at = "clearRegister" /\ at' = "exited" /\ UNCHANGED <<cascade, decoder, num>>
        /\ live' = live \ Entries /\ misused' = misused \cup (Entries \ live)
    BY <1>8 DEF ClearMainRegister, Delete
  <2>2. live' = {} /\ misused' = {}
    BY <2>1 DEF LifeInv, LiveInv
  <2>3. PointersInv'
    BY <2>1 DEF LifeInv, PointersInv
  <2>4. LiveInv'
    BY <2>1, <2>2 DEF LiveInv
  <2>5. QED
    BY <2>3, <2>4
<1>9. QED
  BY <1>2, <1>3, <1>4, <1>5, <1>6, <1>7, <1>8

LEMMA LifeStep == LifeInv /\ [Next]_recognizerVars => LifeInv'
<1> SUFFICES ASSUME LifeInv, [Next]_recognizerVars
             PROVE  LifeInv'
  OBVIOUS
<1>1. EndInv'
  BY EndStep DEF LifeInv
<1>2. CASE ((Register \/ Read) /\ UNCHANGED driverVars) \/ Main
  BY <1>1, <1>2, ReadingKeepsLife DEF LifeInv
<1>3. CASE DriverStep
  BY <1>1, <1>3, OpeningKeepsLife, LoopKeepsLife, DecodingKeepsLife DEF DriverStep, LifeInv
<1>4. CASE UNCHANGED recognizerVars
  <2>1. UNCHANGED <<at, target, value, live, misused, cascade, decoder, input, num>>
    BY <1>4 DEF recognizerVars, optionVars, driverVars
  <2>2. Option("word-symbols-table")' = Option("word-symbols-table")
    BY <2>1, OptionsKept
  <2>3. Owned' = Owned
    BY <2>1, <2>2, OwnedKept
  <2>4. PointersInv' /\ LiveInv'
    BY <2>1, <2>3 DEF LifeInv, PointersInv, LiveInv
  <2>5. QED
    BY <1>1, <2>4 DEF LifeInv
<1>5. QED
  BY <1>2, <1>3, <1>4, NextSteps

\* Over any number of utterances, resets and compositions, with every option and every
\* file that may be missing, no object is deleted twice or followed when it is gone, and
\* none is left when main returns (Recognizer!ObjectsWellUsed; CLevelDecoderMain,
\* Cascade::Rebuild and ~Cascade).
THEOREM SpecObjectsWellUsed == Spec => []ObjectsWellUsed
<1>1. LifeInv => ObjectsWellUsed
  <2> SUFFICES ASSUME LifeInv
               PROVE  ObjectsWellUsed
    OBVIOUS
  <2>1. misused = {} /\ (at = "exited" => live = {})
    BY DEF LifeInv, LiveInv
  <2>2. QED
    BY <2>1, FollowedLive DEF ObjectsWellUsed
<1>2. QED
  BY <1>1, LifeStart, LifeStep, PTL DEF Spec

-----------------------------------------------------------------------------
(* Keys *)

LEMMA Division ==
  ASSUME NEW b \in Nat \ {0}, NEW n \in Nat
  PROVE  /\ n \div b \in Nat /\ n % b \in 0 .. b - 1
         /\ \A m \in Nat : m <= n => m \div b <= n \div b
         /\ \A m \in Nat : m < n /\ m \div b = n \div b => m % b < n % b
<1>1. n \div b \in Nat /\ n % b \in 0 .. b - 1
  OBVIOUS
<1>2. ASSUME NEW m \in Nat, m <= n
      PROVE  m \div b <= n \div b
  BY <1>2
<1>3. ASSUME NEW m \in Nat, m < n, m \div b = n \div b
      PROVE  m % b < n % b
  BY <1>3
<1>4. QED
  BY <1>1, <1>2, <1>3

\* The function that Shifted chooses exists: it does up to 0, and up to m if up to m - 1.
LEMMA ShiftedExists ==
  ASSUME NEW n, NEW len \in Nat
  PROVE  \E f : f = [k \in 0 .. len |-> IF k = 0 THEN n ELSE f[k - 1] \div Base]
<1> DEFINE step(f, k) == IF k = 0 THEN n ELSE f[k - 1] \div Base
           T == {m \in Nat : ~\E f : f = [k \in 0 .. m |-> step(f, k)]}
<1> SUFFICES ASSUME T # {}
             PROVE  FALSE
  OBVIOUS
<1>1. T \in SUBSET Nat /\ T # {}
  OBVIOUS
<1>2. PICK m \in T : \A y \in T : m <= y
  <2> HIDE DEF T
  <2> QED BY <1>1, LeastOf
<1>3. CASE m = 0
  <2> DEFINE f == [k \in 0 .. 0 |-> n]
  <2>1. f = [k \in 0 .. m |-> step(f, k)]
    BY <1>3
  <2>2. QED
    BY <2>1
<1>4. CASE m # 0
  <2>1. m - 1 \in Nat /\ m - 1 \notin T
    <3>1. m \in Nat
      BY <1>1, <1>2
    <3>2. m - 1 \in Nat /\ ~(m <= m - 1)
      BY <1>4, <3>1
    <3> HIDE DEF T
    <3>3. QED
      BY <1>2, <3>2
  <2>2. PICK g : g = [k \in 0 .. m - 1 |-> step(g, k)]
    BY <2>1
  <2> DEFINE final == step(g, m)
             f == [k \in 0 .. m |-> IF k = m THEN final ELSE g[k]]
  <2>3. ASSUME NEW k \in 0 .. m
        PROVE  f[k] = step(f, k)
    <3>1. CASE k = 0
      BY <1>4, <2>2, <3>1
    <3>2. CASE k # 0
      <4>1. k - 1 \in 0 .. m - 1 /\ k - 1 # m
        BY <3>2
      <4>2. f[k - 1] = g[k - 1]
        BY <4>1
      <4>3. k # m => g[k] = step(g, k)
        BY <2>2
      <4>4. QED
        BY <3>2, <4>2, <4>3
    <3>3. QED
      BY <3>1, <3>2
  <2>4. f = [k \in 0 .. m |-> step(f, k)]
    BY <2>3
  <2>5. QED
    BY <2>4
<1>5. QED
  BY <1>3, <1>4

LEMMA ShiftedIs ==
  ASSUME NEW n \in Nat
  PROVE  /\ Shifted(n)[0] = n
         /\ \A k \in 1 .. Width + n + 1 : Shifted(n)[k] = Shifted(n)[k - 1] \div Base
<1> DEFINE step(f) == [k \in 0 .. Width + n + 1 |-> IF k = 0 THEN n ELSE f[k - 1] \div Base]
<1>1. \E f : f = step(f)
  <2>1. Width + n + 1 \in Nat
    BY RecognizerAssumption
  <2>2. \A len \in Nat : \E f : f = [k \in 0 .. len |-> IF k = 0 THEN n ELSE f[k - 1] \div Base]
    BY ShiftedExists
  <2>3. QED
    BY <2>1, <2>2
<1>2. Shifted(n) = CHOOSE f : f = step(f)
  BY DEF Shifted
<1>3. Shifted(n) = step(Shifted(n))
  <2> HIDE DEF step
  <2> QED BY <1>1, <1>2
<1> DEFINE f == Shifted(n)
<1>4. f = [k \in 0 .. Width + n + 1 |-> IF k = 0 THEN n ELSE f[k - 1] \div Base]
  BY <1>3
<1> HIDE DEF f
<1>5. Width + n + 1 \in Nat
  BY RecognizerAssumption
<1>6. QED
  BY <1>4, <1>5 DEF f

LEMMA ShiftedGrows ==
  ASSUME NEW m \in Nat, NEW n \in Nat, m <= n, NEW k \in 0 .. Width
  PROVE  Shifted(m)[k] \in Nat /\ Shifted(n)[k] \in Nat /\ Shifted(m)[k] <= Shifted(n)[k]
<1> DEFINE a == Shifted(m)
           b == Shifted(n)
           good(i) == a[i] \in Nat /\ b[i] \in Nat /\ a[i] <= b[i]
           T == {i \in 0 .. Width : ~good(i)}
<1> SUFFICES ASSUME T # {}
             PROVE  FALSE
  OBVIOUS
<1>1. T \in SUBSET Nat /\ T # {} /\ Width \in Nat /\ Base \in Nat \ {0}
  BY RecognizerAssumption
<1>2. PICK i \in T : \A y \in T : i <= y
  <2> HIDE DEF T
  <2> QED BY <1>1, LeastOf
<1>3. a[0] = m /\ b[0] = n
  BY ShiftedIs
<1>4. i # 0
  BY <1>2, <1>3
<1>5. i \in 1 .. Width + m + 1 /\ i \in 1 .. Width + n + 1 /\ i - 1 \in 0 .. Width /\ i - 1 \notin T
  BY <1>1, <1>2, <1>4
<1>6. good(i - 1)
  BY <1>5
<1>7. a[i] = a[i - 1] \div Base /\ b[i] = b[i - 1] \div Base
  BY <1>5, ShiftedIs
<1> HIDE DEF a, b
<1>8. good(i)
  BY <1>1, <1>6, <1>7, Division
<1>9. QED
  BY <1>2, <1>8

\* A number of at most Width digits is padded to Width.
LEMMA DigitsPadded ==
  ASSUME NEW n \in Nat, Shifted(n)[Width] = 0
  PROVE  Digits(n) = DigitsOf(n, Width)
<1> DEFINE wide(w) == Shifted(n)[w] = 0 /\ \A v \in Width .. w - 1 : Shifted(n)[v] # 0
<1>1. Width \in Nat /\ Width \in Width .. Width + n + 1
  BY RecognizerAssumption
<1>2. wide(Width)
  BY <1>1
<1>3. ASSUME NEW w \in Width .. Width + n + 1, wide(w)
      PROVE  w = Width
  BY <1>1, <1>3
<1>4. (CHOOSE w \in Width .. Width + n + 1 : wide(w)) = Width
  <2> HIDE DEF wide
  <2> QED BY <1>1, <1>2, <1>3
<1>5. QED
  BY <1>4 DEF Digits

LEMMA FarKeyIs ==
  ASSUME NEW n \in Nat, Shifted(n)[Width] = 0
  PROVE  /\ Len(FarKey(n)) = Width + 1
         /\ \A d \in 1 .. Width : FarKey(n)[d] = Shifted(n)[Width - d] % Base
         /\ FarKey(n)[Width + 1] = Base
<1> DEFINE ds == DigitsOf(n, Width)
           T == {Shifted(n)[Width - d] % Base : d \in 1 .. Width} \cup {Base}
<1>1. Width \in Nat
  BY RecognizerAssumption
<1>2. ds \in Seq(T) /\ Len(ds) = Width /\ Base \in T
  <2>1. ds = [d \in 1 .. Width |-> Shifted(n)[Width - d] % Base]
    BY DEF DigitsOf
  <2>2. ds \in [1 .. Width -> T]
    BY <2>1
  <2> HIDE DEF ds, T
  <2>3. ds \in Seq(T) /\ Len(ds) = Width
    BY <1>1, <2>2
  <2>4. Base \in T
    BY DEF T
  <2>5. QED
    BY <2>3, <2>4
<1>3. \A d \in 1 .. Width : ds[d] = Shifted(n)[Width - d] % Base
  BY DEF DigitsOf
<1>4. FarKey(n) = Append(ds, Base)
  BY DigitsPadded DEF FarKey
<1> HIDE DEF ds, T
<1>5. /\ Len(Append(ds, Base)) = Len(ds) + 1 /\ Append(ds, Base)[Len(ds) + 1] = Base
      /\ \A d \in 1 .. Len(ds) : Append(ds, Base)[d] = ds[d]
  BY <1>2, AppendProperties
<1>6. QED
  BY <1>2, <1>3, <1>4, <1>5

\* The keys of two numbers differ first in a digit that is smaller in the smaller one's.
LEMMA KeysAscend ==
  ASSUME NEW m \in Nat, NEW n \in Nat, m < n, Shifted(n)[Width] = 0
  PROVE  Before(FarKey(m), FarKey(n)) /\ ~Before(FarKey(n), FarKey(m))
<1> DEFINE a == Shifted(m)
           b == Shifted(n)
           T == {d \in 1 .. Width : a[Width - d] # b[Width - d]}
<1>1. Width \in Nat \ {0} /\ Base \in Nat \ {0} /\ m <= n
  BY RecognizerAssumption
<1>2. \A k \in 0 .. Width : a[k] \in Nat /\ b[k] \in Nat /\ a[k] <= b[k]
  BY <1>1, ShiftedGrows
<1>3. a[0] = m /\ b[0] = n /\ a[Width] = 0 /\ b[Width] = 0
  <2>1. Width \in 0 .. Width
    BY <1>1
  <2>2. a[Width] = 0
    BY <1>2, <2>1
  <2>3. QED
    BY <2>2, ShiftedIs
<1>4. \A k \in 1 .. Width : a[k] = a[k - 1] \div Base /\ b[k] = b[k - 1] \div Base
  <2>1. TAKE k \in 1 .. Width
  <2>2. k \in 1 .. Width + m + 1 /\ k \in 1 .. Width + n + 1
    BY <1>1
  <2>3. QED
    BY <2>2, ShiftedIs
<1> DEFINE x == FarKey(m)
           y == FarKey(n)
<1>5. /\ Len(x) = Width + 1 /\ Len(y) = Width + 1
      /\ \A d \in 1 .. Width : x[d] = a[Width - d] % Base /\ y[d] = b[Width - d] % Base
  BY <1>3, FarKeyIs
<1> HIDE DEF a, b, x, y
<1>6. T \in SUBSET Nat /\ T # {}
  <2>1. Width \in 1 .. Width /\ Width - Width = 0
    BY <1>1
  <2>2. Width \in T
    BY <1>3, <2>1
  <2>3. QED
    BY <2>2
<1>7. PICK d \in T : \A e \in T : d <= e
  <2> HIDE DEF T
  <2> QED BY <1>6, LeastOf
<1>8. d \in 1 .. Width /\ a[Width - d] # b[Width - d] /\ \A e \in 1 .. d - 1 : a[Width - e] = b[Width - e]
  <2>1. ASSUME NEW e \in 1 .. d - 1
        PROVE  a[Width - e] = b[Width - e]
    <3>1. e \in 1 .. Width /\ ~(d <= e)
      BY <1>1, <1>7
    <3>2. QED
      BY <1>7, <3>1
  <2>2. QED
    BY <1>7, <2>1
<1>9. a[(Width - d) + 1] = b[(Width - d) + 1]
  <2>1. CASE d = 1
    BY <1>1, <1>3, <2>1
  <2>2. CASE d # 1
    <3>1. d - 1 \in 1 .. d - 1 /\ Width - (d - 1) = (Width - d) + 1
      BY <1>1, <1>8, <2>2
    <3>2. QED
      BY <1>8, <3>1
  <2>3. QED
    BY <2>1, <2>2
<1>10. x[d] < y[d]
  <2> DEFINE k == Width - d
  <2>1. k \in 0 .. Width /\ k + 1 \in 1 .. Width /\ (k + 1) - 1 = k
    BY <1>1, <1>8
  <2>2. a[k] \in Nat /\ b[k] \in Nat /\ a[k] < b[k]
    BY <1>2, <1>8, <2>1
  <2>3. a[k] \div Base = b[k] \div Base
    BY <1>4, <1>9, <2>1
  <2>4. a[k] % Base < b[k] % Base
    <3> HIDE DEF k
    <3> QED BY <1>1, <2>2, <2>3, Division
  <2>5. QED
    BY <1>5, <1>8, <2>4
<1>11. \A e \in 1 .. d - 1 : x[e] = y[e]
  <2>1. TAKE e \in 1 .. d - 1
  <2>2. e \in 1 .. Width
    BY <1>1, <1>8
  <2>3. QED
    BY <1>5, <1>8, <2>2
<1>12. \A e \in 1 .. Width : x[e] \in Int /\ y[e] \in Int
  <2>1. TAKE e \in 1 .. Width
  <2>2. Width - e \in 0 .. Width
    BY <1>1
  <2>3. a[Width - e] \in Nat /\ b[Width - e] \in Nat
    BY <1>2, <2>2
  <2>4. a[Width - e] % Base \in Int /\ b[Width - e] % Base \in Int
    <3>1. ASSUME NEW q \in Nat
          PROVE  q % Base \in Int
      BY <1>1
    <3>2. QED
      BY <2>3, <3>1
  <2>5. QED
    BY <1>5, <2>4
<1>13. Before(x, y)
  <2>1. d \in 1 .. Len(y) /\ d <= Len(x)
    BY <1>1, <1>5, <1>8
  <2>2. QED
    BY <2>1, <1>10, <1>11 DEF Before
<1>14. ASSUME Before(y, x)
       PROVE  FALSE
  <2>1. PICK i \in 1 .. Len(x) : y[i] < x[i] /\ \A e \in 1 .. i - 1 : y[e] = x[e]
    BY <1>14 DEF Before
  <2>2. CASE i < d
    <3>1. i \in 1 .. d - 1 /\ i \in 1 .. Width
      BY <1>1, <1>5, <1>8, <2>1, <2>2
    <3>2. QED
      BY <1>11, <1>12, <2>1, <3>1
  <2>3. CASE i = d
    BY <1>8, <1>10, <1>12, <2>1, <2>3
  <2>4. CASE i > d
    <3>1. d \in 1 .. i - 1 /\ d \in 1 .. Width
      BY <1>1, <1>5, <1>8, <2>1, <2>4
    <3>2. QED
      BY <1>10, <1>12, <2>1, <3>1
  <2>5. i \in Int /\ d \in Int
    BY <1>1, <1>5, <1>8, <2>1
  <2>6. QED
    BY <2>2, <2>3, <2>4, <2>5
<1>15. QED
  BY <1>13, <1>14 DEF x, y

-----------------------------------------------------------------------------
(* Records *)

\* The reader stands at utterance num, which it has delivered, or is at the end.
ReaderFields == {"stream", "key", "rows", "done"}
IsReader(r) == r = [f \in ReaderFields |-> r[f]]

ReaderAt(r, n) ==
  /\ n \in 0 .. Len(world.stream) /\ r.done \in BOOLEAN
  /\ r.done <=> n = Len(world.stream)
  /\ r.done => r.stream = <<>>
  /\ ~r.done =>
       /\ r.key = world.stream[n + 1].key /\ r.rows = world.stream[n + 1].rows
       /\ r.stream \in Seq(Range(world.stream))
       /\ Len(r.stream) = Len(world.stream) - n - 1
       /\ \A i \in 1 .. Len(r.stream) : r.stream[i] = world.stream[n + 1 + i]

RecordOf(n) ==
  [number |-> FarKey(n - 1), key |-> world.stream[n].key, frames |-> world.stream[n].rows]

Written == IF at = "next" THEN num + 1 ELSE num

ArchiveInv == archive = [records |-> [n \in 1 .. Written |-> RecordOf(n)], error |-> FALSE]

\* What the reader holds and what was decoded of it, at each stage.
UtteranceInv ==
  /\ num \in 0 .. Len(world.stream)
  /\ at \in PastFeatures => IsReader(reader) /\ ReaderAt(reader, num)
  /\ at \in Looping \ {"loop"} => ~reader.done
  /\ at \in PastFeatures \ Looping => reader.done
  /\ at = "decode" => /\ input = [frontEnd |-> input.frontEnd, rows |-> reader.rows, index |-> input.index]
                      /\ input.index \in Int
  /\ at = "write" => input.index + 1 = reader.rows

RecordsInv == EndInv /\ ArchiveInv /\ UtteranceInv

LEMMA StreamType ==
  ASSUME EndInv
  PROVE  /\ world \in Worlds /\ world.stream \in Seq(Range(world.stream))
         /\ \A n \in DOMAIN world.stream : world.stream[n].rows \in Nat
BY RecognizerAssumption DEF EndInv, FilesInv

LEMMA RecordsStart == Init => RecordsInv
<1> SUFFICES ASSUME Init
             PROVE  RecordsInv
  OBVIOUS
<1>1. at = "register" /\ num = 0 /\ archive = [records |-> <<>>, error |-> FALSE]
  BY DEF Init
<1>2. [n \in 1 .. Written |-> RecordOf(n)] = <<>>
  BY <1>1 DEF Written
<1>3. num \in 0 .. Len(world.stream)
  BY <1>1, EndStart, StreamType
<1>4. UtteranceInv
  BY <1>1, <1>3 DEF UtteranceInv, PastFeatures, Looping
<1>5. ArchiveInv
  BY <1>1, <1>2 DEF ArchiveInv
<1>6. QED
  BY <1>4, <1>5, EndStart DEF RecordsInv

\* The reader's record after one of its fields is assigned.
LEMMA FieldSet ==
  ASSUME NEW r, IsReader(r), NEW f \in ReaderFields, NEW x
  PROVE  LET u == [r EXCEPT ![f] = x]
         IN  IsReader(u) /\ \A g \in ReaderFields : u[g] = IF g = f THEN x ELSE r[g]
<1> DEFINE u == [r EXCEPT ![f] = x]
<1>1. u = [g \in ReaderFields |-> IF g = f THEN x ELSE r[g]]
  BY DEF IsReader
<1> HIDE DEF u
<1>2. \A g \in ReaderFields : u[g] = IF g = f THEN x ELSE r[g]
  BY <1>1
<1>3. IsReader(u)
  BY <1>1, <1>2 DEF IsReader
<1>4. QED
  BY <1>2, <1>3 DEF u

LEMMA ReaderFresh ==
  ASSUME NEW r, r = [stream |-> <<>>, key |-> "", rows |-> 0, done |-> FALSE]
  PROVE  IsReader(r) /\ r.stream = <<>> /\ r.done = FALSE
BY DEF IsReader, ReaderFields

LEMMA FieldsSet ==
  ASSUME NEW r, NEW x, NEW y, NEW z
  PROVE  /\ [r EXCEPT !.stream = z, !.key = x, !.rows = y] = [[[r EXCEPT !["stream"] = z] EXCEPT !["key"] = x] EXCEPT !["rows"] = y]
         /\ [r EXCEPT !.key = x, !.rows = y] = [[r EXCEPT !["key"] = x] EXCEPT !["rows"] = y]
OBVIOUS

LEMMA ReaderFreed ==
  ASSUME NEW r, IsReader(r)
  PROVE  LET u == FreeCurrent(r) IN IsReader(u) /\ u.stream = r.stream /\ u.done = r.done
<1> DEFINE none == ""
           zero == 0
           v == [r EXCEPT !["key"] = none]
<1>1. FreeCurrent(r) = [v EXCEPT !["rows"] = zero]
  BY FieldsSet DEF FreeCurrent
<1> HIDE DEF none, zero
<1>2. IsReader(v) /\ v.stream = r.stream /\ v.done = r.done
  BY FieldSet DEF ReaderFields
<1> HIDE DEF v
<1>3. LET u == [v EXCEPT !["rows"] = zero] IN IsReader(u) /\ u.stream = v.stream /\ u.done = v.done
  BY <1>2, FieldSet DEF ReaderFields
<1>4. QED
  BY <1>1, <1>2, <1>3

LEMMA ReaderRead ==
  ASSUME NEW r, IsReader(r)
  PROVE  LET u == ReadNextUtterance(r)
         IN  /\ IsReader(u)
             /\ r.stream = <<>> => u.stream = <<>> /\ u.done = TRUE
             /\ r.stream # <<>> => /\ u.stream = Tail(r.stream) /\ u.done = r.done
                                   /\ u.key = Head(r.stream).key /\ u.rows = Head(r.stream).rows
<1>1. CASE r.stream = <<>>
  BY <1>1, FieldSet DEF ReadNextUtterance, ReaderFields
<1>2. CASE r.stream # <<>>
  <2> DEFINE t == Tail(r.stream)
             k == Head(r.stream).key
             n == Head(r.stream).rows
             v == [r EXCEPT !["stream"] = t]
             w == [v EXCEPT !["key"] = k]
  <2>1. ReadNextUtterance(r) = [w EXCEPT !["rows"] = n]
    BY <1>2, FieldsSet DEF ReadNextUtterance
  <2> HIDE DEF t, k, n
  <2>2. IsReader(v) /\ v.stream = t /\ v.done = r.done
    BY FieldSet DEF ReaderFields
  <2> HIDE DEF v
  <2>3. IsReader(w) /\ w.stream = t /\ w.done = r.done /\ w.key = k
    BY <2>2, FieldSet DEF ReaderFields
  <2> HIDE DEF w
  <2>4. LET u == [w EXCEPT !["rows"] = n] IN IsReader(u) /\ u.stream = t /\ u.done = r.done /\ u.key = k /\ u.rows = n
    BY <2>3, FieldSet DEF ReaderFields
  <2>5. QED
    BY <1>2, <2>1, <2>4 DEF t, k, n
<1>3. QED
  BY <1>1, <1>2

\* A reader before utterance n + 1 delivers it, or is done when there is none.
LEMMA ReadNextAt ==
  ASSUME EndInv, NEW n \in 0 .. Len(world.stream),
         NEW r, IsReader(r), r.done = FALSE, r.stream \in Seq(Range(world.stream)),
         Len(r.stream) = Len(world.stream) - n,
         \A i \in 1 .. Len(r.stream) : r.stream[i] = world.stream[n + i]
  PROVE  IsReader(ReadNextUtterance(r)) /\ ReaderAt(ReadNextUtterance(r), n)
<1> DEFINE s == r.stream
           u == ReadNextUtterance(r)
<1>1. Len(world.stream) \in Nat /\ n \in Nat /\ s \in Seq(Range(world.stream)) /\ Len(s) \in Nat
      /\ Len(s) = Len(world.stream) - n
      /\ \A i \in 1 .. Len(s) : s[i] = world.stream[n + i]
  BY StreamType
<1>2. /\ IsReader(u)
      /\ s = <<>> => u.stream = <<>> /\ u.done = TRUE
      /\ s # <<>> => u.stream = Tail(s) /\ u.done = FALSE /\ u.key = Head(s).key /\ u.rows = Head(s).rows
  BY ReaderRead
<1> HIDE DEF s, u
<1>3. CASE s = <<>>
  <2>1. n = Len(world.stream)
    BY <1>1, <1>3
  <2>2. ReaderAt(u, n)
    BY <1>2, <1>3, <2>1 DEF ReaderAt
  <2>3. QED
    BY <1>2, <2>2 DEF u
<1>4. CASE s # <<>>
  <2>1. /\ Len(s) > 0 /\ Head(s) = s[1]
        /\ Tail(s) \in Seq(Range(world.stream)) /\ Len(Tail(s)) = Len(s) - 1
        /\ \A i \in 1 .. Len(s) - 1 : Tail(s)[i] = s[i + 1]
    BY <1>1, <1>4
  <2>2. s[1] = world.stream[n + 1] /\ n # Len(world.stream) /\ Len(Tail(s)) = Len(world.stream) - n - 1
    BY <1>1, <2>1
  <2>3. ASSUME NEW i \in 1 .. Len(Tail(s))
        PROVE  Tail(s)[i] = world.stream[n + 1 + i]
    <3>1. i \in Nat /\ i >= 1 /\ i <= Len(s) - 1 /\ Len(s) \in Nat
      BY <1>1, <2>1
    <3>2. i + 1 \in 1 .. Len(s) /\ i \in 1 .. Len(s) - 1 /\ n + (i + 1) = n + 1 + i
      BY <1>1, <3>1
    <3>3. QED
      BY <1>1, <2>1, <3>2
  <2>4. ReaderAt(u, n)
    BY <1>2, <1>4, <2>1, <2>2, <2>3 DEF ReaderAt
  <2>5. QED
    BY <1>2, <2>4 DEF u
<1>5. QED
  BY <1>3, <1>4

LEMMA ReaderFirst ==
  ASSUME EndInv, NoReader,
         NEW r, r = ReadNextUtterance([reader EXCEPT !.stream = world.stream])
  PROVE  IsReader(r) /\ ReaderAt(r, 0)
<1> DEFINE s == world.stream
           v == [reader EXCEPT !["stream"] = s]
<1>1. s \in Seq(Range(s)) /\ Len(s) \in Nat
  BY StreamType
<1>2. IsReader(reader) /\ reader.done = FALSE
  BY ReaderFresh DEF NoReader
<1>3. r = ReadNextUtterance(v)
  OBVIOUS
<1>4. IsReader(v) /\ v.done = FALSE /\ v.stream = s
  <2> HIDE DEF s
  <2> QED BY <1>2, FieldSet DEF ReaderFields
<1> HIDE DEF v
<1>5. 0 \in 0 .. Len(s) /\ Len(s) = Len(s) - 0 /\ \A i \in 1 .. Len(s) : s[i] = s[0 + i]
  BY <1>1
<1>6. QED
  BY <1>1, <1>3, <1>4, <1>5, ReadNextAt

LEMMA ReaderNext ==
  ASSUME EndInv, num \in Nat, IsReader(reader), ReaderAt(reader, num), ~reader.done,
         NEW r, r = ReadNextUtterance(FreeCurrent(reader))
  PROVE  IsReader(r) /\ ReaderAt(r, num + 1)
<1> DEFINE v == FreeCurrent(reader)
<1>1. /\ reader.stream \in Seq(Range(world.stream)) /\ Len(reader.stream) = Len(world.stream) - num - 1
      /\ \A i \in 1 .. Len(reader.stream) : reader.stream[i] = world.stream[num + 1 + i]
      /\ num \in 0 .. Len(world.stream) /\ num # Len(world.stream) /\ Len(world.stream) \in Nat
      /\ reader.done = FALSE
  BY StreamType DEF ReaderAt
<1>2. num + 1 \in 0 .. Len(world.stream) /\ Len(reader.stream) = Len(world.stream) - (num + 1)
  BY <1>1
<1>3. IsReader(v) /\ v.stream = reader.stream /\ v.done = FALSE
  BY <1>1, ReaderFreed
<1>4. r = ReadNextUtterance(v)
  OBVIOUS
<1> HIDE DEF v
<1>5. QED
  BY <1>1, <1>2, <1>3, <1>4, ReadNextAt

LEMMA ArchiveStays ==
  ASSUME ArchiveInv, UNCHANGED <<archive, world>>, Written' = Written
  PROVE  ArchiveInv'
<1>1. ASSUME NEW n
      PROVE  RecordOf(n)' = RecordOf(n)
  BY DEF RecordOf
<1>2. [n \in 1 .. Written |-> RecordOf(n)]' = [n \in 1 .. Written |-> RecordOf(n)]
  BY <1>1
<1>3. QED
  BY <1>2 DEF ArchiveInv

\* The writer never refuses a record: its key is above the last one's.
LEMMA RecordWritten ==
  ASSUME NumbersFit, RecordsInv, WriteRecord
  PROVE  ArchiveInv'
<1> DEFINE old == [n \in 1 .. num |-> RecordOf(n)]
           record == [number |-> FarKey(num), key |-> reader.key, frames |-> input.index + 1]
<1>1. /\ at = "write" /\ at' = "next" /\ archive' = AddRecord(archive, record) /\ UNCHANGED <<world, num>>
      /\ num \in Nat /\ world \in Worlds
  BY DEF WriteRecord, RecordsInv, EndInv, LoopInv, FilesInv
<1>2. archive = [records |-> old, error |-> FALSE]
  BY <1>1 DEF RecordsInv, ArchiveInv, Written
<1>3. /\ ReaderAt(reader, num) /\ ~reader.done /\ input.index + 1 = reader.rows
      /\ Len(world.stream) \in Nat
  BY <1>1, StreamType DEF RecordsInv, UtteranceInv, PastFeatures, Looping
<1>4. num \in 0 .. Len(world.stream) - 1 /\ reader.key = world.stream[num + 1].key /\ reader.rows = world.stream[num + 1].rows
  BY <1>3 DEF ReaderAt
<1>5. record = RecordOf(num + 1)
  <2>1. (num + 1) - 1 = num
    BY <1>1
  <2>2. QED
    BY <1>3, <1>4, <2>1 DEF RecordOf
<1>6. old \in Seq({RecordOf(n) : n \in 1 .. num}) /\ Len(old) = num
  BY <1>1
<1>7. ASSUME archive.records # <<>>
      PROVE  ~Before(record.number, archive.records[Len(archive.records)].number)
  <2>1. archive.records = old /\ num > 0 /\ num - 1 \in 0 .. num - 1
    BY <1>1, <1>2, <1>6, <1>7
  <2>2. old[num].number = FarKey(num - 1)
    BY <1>1, <2>1 DEF RecordOf
  <2>3. ~Before(FarKey(num), FarKey(num - 1))
    <3>1. Shifted(num)[Width] = 0
      BY <1>1, <1>4 DEF NumbersFit
    <3>2. num - 1 \in Nat /\ num - 1 < num
      BY <1>1, <2>1
    <3>3. QED
      BY <1>1, <3>1, <3>2, KeysAscend
  <2>4. QED
    BY <1>6, <2>1, <2>2, <2>3
<1>8. AddRecord(archive, record) = [records |-> Append(old, record), error |-> FALSE]
  <2> HIDE DEF record, old
  <2>1. ~archive.error /\ archive.records = old
    BY <1>2
  <2>2. AddRecord(archive, record) = [archive EXCEPT !.records = Append(@, record)]
    BY <1>7, <2>1 DEF AddRecord
  <2>3. QED
    BY <1>2, <2>2
<1>9. Append(old, record) = [n \in 1 .. num + 1 |-> RecordOf(n)]
  <2> HIDE DEF record
  <2>1. Append(old, record) = [n \in 1 .. num + 1 |-> IF n = num + 1 THEN record ELSE old[n]]
    <3> DEFINE T == {RecordOf(n) : n \in 1 .. num} \cup {record}
    <3>1. old \in Seq(T) /\ record \in T
      BY <1>6
    <3> HIDE DEF old, T
    <3>2. /\ Append(old, record) \in [1 .. num + 1 -> T]
          /\ \A n \in 1 .. num : Append(old, record)[n] = old[n]
          /\ Append(old, record)[num + 1] = record
      <4> DEFINE app == Append(old, record)
      <4>1. /\ app \in Seq(T) /\ Len(app) = Len(old) + 1 /\ app[Len(old) + 1] = record
            /\ \A n \in 1 .. Len(old) : app[n] = old[n]
        BY <3>1, AppendProperties
      <4>2. Len(old) = num
        BY <1>6
      <4> HIDE DEF app
      <4>3. app \in [1 .. Len(app) -> T]
        BY <4>1, LenProperties
      <4>4. QED
        BY <4>1, <4>2, <4>3 DEF app
    <3>3. \A n \in 1 .. num + 1 : Append(old, record)[n] = IF n = num + 1 THEN record ELSE old[n]
      BY <1>1, <3>2
    <3>4. QED
      BY <3>2, <3>3
  <2>2. ASSUME NEW n \in 1 .. num + 1
        PROVE  (IF n = num + 1 THEN record ELSE old[n]) = RecordOf(n)
    BY <1>1, <1>5
  <2> HIDE DEF old
  <2>3. QED
    BY <2>1, <2>2
<1>10. Written' = num + 1
  BY <1>1 DEF Written
<1>11. ASSUME NEW n
       PROVE  RecordOf(n)' = RecordOf(n)
  BY <1>1 DEF RecordOf
<1>12. archive' = [records |-> [n \in 1 .. num + 1 |-> RecordOf(n)], error |-> FALSE]
  BY <1>1, <1>8, <1>9
<1>13. QED
  BY <1>10, <1>11, <1>12 DEF ArchiveInv

LEMMA ReaderStays ==
  ASSUME UNCHANGED <<reader, num, world>>
  PROVE  /\ IsReader(reader)' = IsReader(reader) /\ ReaderAt(reader, num)' = ReaderAt(reader, num)
         /\ (num \in 0 .. Len(world.stream))' <=> num \in 0 .. Len(world.stream)
BY DEF IsReader, ReaderAt

LEMMA OpeningKeepsRecords ==
  ASSUME RecordsInv,
         \/ (Register \/ Read) /\ UNCHANGED driverVars
         \/ Main
         \/ OpenWriter \/ ReadCascade \/ ReadTransModel \/ ReadSymbols \/ OpenReader
  PROVE  ArchiveInv' /\ UtteranceInv'
<1>1. /\ UNCHANGED <<archive, world, num>> /\ at \in Opening
      /\ at' \in Opening \cup {"aborted", "fatal", "usage", "crashed", "loop"}
      /\ at' = "loop" => OpenReader
  <2>1. CASE (Register \/ Read) /\ UNCHANGED driverVars
    <3>1. ParseEffect
      BY <2>1, ParseStep DEF RecordsInv, EndInv
    <3>2. QED
      BY <2>1, <3>1 DEF ParseEffect, driverVars, Opening, Parsing
  <2>2. CASE Main
    BY <2>2 DEF Main, driverVars, Opening, Parsing
  <2>3. CASE OpenWriter \/ ReadCascade \/ ReadTransModel \/ ReadSymbols
    BY <2>3 DEF OpenWriter, ReadCascade, ReadTransModel, NullDumps, ReadSymbols, Open, Opening
  <2>4. CASE OpenReader
    BY <2>4 DEF OpenReader, Open, Opening
  <2>5. QED
    BY <2>1, <2>2, <2>3, <2>4
<1>2. ArchiveInv'
  <2>1. Written' = Written
    BY <1>1 DEF Written, Opening, Parsing
  <2>2. QED
    BY <1>1, <2>1, ArchiveStays DEF RecordsInv
<1>3. CASE at' # "loop"
  BY <1>1, <1>2, <1>3 DEF RecordsInv, UtteranceInv, PastFeatures, Looping, Opening, Parsing
<1>4. CASE at' = "loop"
  <2>1. /\ OpenReader /\ at = "features" /\ world.features
        /\ reader' = ReadNextUtterance([reader EXCEPT !.stream = world.stream])
    BY <1>1, <1>4 DEF OpenReader, Open
  <2>2. EndInv /\ num = 0 /\ NoReader
    BY <1>1 DEF RecordsInv, EndInv, LoopInv
  <2>3. IsReader(reader') /\ ReaderAt(reader', 0)
    BY <2>1, <2>2, ReaderFirst
  <2>4. IsReader(reader)' /\ ReaderAt(reader, num)'
    BY <1>1, <2>2, <2>3 DEF IsReader, ReaderAt
  <2>5. QED
    BY <1>1, <1>2, <1>4, <2>4 DEF RecordsInv, UtteranceInv, PastFeatures, Looping
<1>5. QED
  BY <1>2, <1>3, <1>4

LEMMA LoopKeepsRecords ==
  ASSUME NumbersFit, RecordsInv,
         \/ LoopTest \/ DeleteDecoder \/ Rebuild \/ NewDecoder \/ SetInput \/ DecodeFrame \/ EndDecode
         \/ WriteRecord \/ NextUtterance \/ CleanUp \/ ClearMainRegister
  PROVE  ArchiveInv' /\ UtteranceInv'
<1> USE DEF RecordsInv
<1>1. CASE LoopTest \/ DeleteDecoder \/ Rebuild \/ NewDecoder \/ CleanUp \/ ClearMainRegister
  <2>1. /\ UNCHANGED <<archive, world, num, reader>>
        /\ \/ at = "loop" /\ at' = "cleanup" /\ reader.done
           \/ at = "loop" /\ at' \in {"crashed", "reset", "input"} /\ ~reader.done
           \/ at \in {"reset", "rebuild", "construct"} /\ at' \in {"rebuild", "construct", "input", "fatal"}
           \/ at \in {"cleanup", "clearRegister"} /\ at' \in {"clearRegister", "exited"}
    <3>1. CASE LoopTest
      BY <3>1 DEF LoopTest, driverVars
    <3>2. CASE DeleteDecoder \/ Rebuild \/ NewDecoder \/ CleanUp \/ ClearMainRegister
      BY <3>2 DEF DeleteDecoder, Rebuild, NewDecoder, CleanUp, ClearMainRegister
    <3>3. QED
      BY <1>1, <3>1, <3>2
  <2>2. Written' = Written
    BY <2>1 DEF Written
  <2>3. QED
    BY <2>1, <2>2, ArchiveStays, ReaderStays DEF UtteranceInv, PastFeatures, Looping
<1>2. CASE SetInput
  <2>1. /\ UNCHANGED <<archive, world, num, reader>> /\ at = "input" /\ at' = "decode"
        /\ input' = [frontEnd |-> <<"frontEnd", num>>, rows |-> reader.rows, index |-> 0]
    BY <1>2 DEF SetInput
  <2>2. Written' = Written
    BY <2>1 DEF Written
  <2>3. input'.index = 0 /\ input' = [frontEnd |-> input'.frontEnd, rows |-> reader'.rows, index |-> input'.index]
    BY <2>1
  <2>4. QED
    BY <2>1, <2>2, <2>3, ArchiveStays, ReaderStays DEF UtteranceInv, PastFeatures, Looping
<1>3. CASE DecodeFrame
  <2>1. /\ UNCHANGED <<archive, world, num, reader>> /\ at = "decode" /\ at' = "decode"
        /\ input' = [input EXCEPT !.index = @ + 1]
        /\ input = [frontEnd |-> input.frontEnd, rows |-> reader.rows, index |-> input.index]
        /\ input.index \in Int
    BY <1>3 DEF DecodeFrame, UtteranceInv
  <2>2. Written' = Written
    BY <2>1 DEF Written
  <2>3. input' = [frontEnd |-> input.frontEnd, rows |-> reader.rows, index |-> input.index + 1]
    BY <2>1
  <2>4. input'.index \in Int /\ input' = [frontEnd |-> input'.frontEnd, rows |-> reader'.rows, index |-> input'.index]
    BY <2>1, <2>3
  <2>5. QED
    BY <2>1, <2>2, <2>4, ArchiveStays, ReaderStays DEF UtteranceInv, PastFeatures, Looping
<1>4. CASE EndDecode
  <2>1. /\ UNCHANGED <<archive, world, num, reader, input>> /\ at = "decode" /\ at' = "write"
        /\ input = [frontEnd |-> input.frontEnd, rows |-> reader.rows, index |-> input.index]
        /\ input.index = input.rows - 1 /\ input.index \in Int
    BY <1>4 DEF EndDecode, Done, UtteranceInv
  <2>2. Written' = Written
    BY <2>1 DEF Written
  <2>3. reader.rows \in Nat
    <3>1. ReaderAt(reader, num) /\ ~reader.done /\ num \in Nat
      BY <2>1 DEF UtteranceInv, PastFeatures, Looping, EndInv, LoopInv
    <3>2. QED
      BY <3>1, StreamType DEF ReaderAt
  <2>4. input.index + 1 = reader.rows
    BY <2>1, <2>3
  <2>5. QED
    BY <2>1, <2>2, <2>4, ArchiveStays, ReaderStays DEF UtteranceInv, PastFeatures, Looping
<1>5. CASE WriteRecord
  <2>1. UNCHANGED <<world, num, reader>> /\ at = "write" /\ at' = "next"
    BY <1>5 DEF WriteRecord
  <2>2. QED
    BY <1>5, <2>1, RecordWritten, ReaderStays DEF UtteranceInv, PastFeatures, Looping
<1>6. CASE NextUtterance
  <2>1. /\ UNCHANGED <<archive, world>> /\ at = "next" /\ at' = "loop" /\ num' = num + 1
        /\ reader' = ReadNextUtterance(FreeCurrent(reader))
    BY <1>6 DEF NextUtterance
  <2>2. Written' = Written
    BY <2>1 DEF Written
  <2>3. EndInv /\ num \in Nat /\ IsReader(reader) /\ ReaderAt(reader, num) /\ ~reader.done
    BY <2>1 DEF UtteranceInv, PastFeatures, Looping, EndInv, LoopInv
  <2>4. IsReader(reader') /\ ReaderAt(reader', num + 1)
    BY <2>1, <2>3, ReaderNext
  <2>5. IsReader(reader)' /\ ReaderAt(reader, num)'
    BY <2>1, <2>4 DEF IsReader, ReaderAt
  <2>6. ReaderAt(reader, num)' => (num \in 0 .. Len(world.stream))'
    BY DEF ReaderAt
  <2>7. QED
    BY <2>1, <2>2, <2>5, <2>6, ArchiveStays DEF UtteranceInv, PastFeatures, Looping
<1>7. QED
  BY <1>1, <1>2, <1>3, <1>4, <1>5, <1>6

LEMMA RecordsStep == NumbersFit /\ RecordsInv /\ [Next]_recognizerVars => RecordsInv'
<1> SUFFICES ASSUME NumbersFit, RecordsInv, [Next]_recognizerVars
             PROVE  RecordsInv'
  OBVIOUS
<1>1. EndInv'
  BY EndStep DEF RecordsInv
<1>2. CASE ((Register \/ Read) /\ UNCHANGED driverVars) \/ Main \/ DriverStep
  BY <1>1, <1>2, OpeningKeepsRecords, LoopKeepsRecords DEF DriverStep, RecordsInv
<1>3. CASE UNCHANGED recognizerVars
  <2>1. UNCHANGED <<at, archive, world, num, reader, input>>
    BY <1>3 DEF recognizerVars, driverVars
  <2>2. Written' = Written
    BY <2>1 DEF Written
  <2>3. QED
    BY <1>1, <2>1, <2>2, ArchiveStays, ReaderStays DEF RecordsInv, UtteranceInv
<1>4. QED
  BY <1>2, <1>3, NextSteps

\* As long as the utterances can be numbered in Width digits, the archive holds a record
\* for each that was read, in order, of all its frames, under ascending keys
\* (Recognizer!RecordsMatchUtterances; the loop of CLevelDecoderMain and FarWriter).
THEOREM SpecRecordsMatchUtterances ==
  ASSUME NumbersFit
  PROVE  Spec => []RecordsMatchUtterances
<1>1. ASSUME RecordsInv
      PROVE  RecordsMatchUtterances
  <2>1. /\ archive.records = [n \in 1 .. Written |-> RecordOf(n)]
        /\ num \in Nat /\ Written \in Nat /\ world \in Worlds
    <3>1. archive.records = [n \in 1 .. Written |-> RecordOf(n)]
      BY <1>1 DEF RecordsInv, ArchiveInv
    <3>2. num \in Nat /\ world \in Worlds
      BY <1>1 DEF RecordsInv, EndInv, LoopInv, FilesInv
    <3>3. QED
      BY <3>1, <3>2 DEF Written
  <2>2. Len(archive.records) = Written /\ DOMAIN archive.records = 1 .. Written
    BY <2>1
  <2>3. Len(world.stream) \in Nat /\ num \in 0 .. Len(world.stream) /\ Written \in 0 .. Len(world.stream)
    <3>1. Len(world.stream) \in Nat /\ num \in 0 .. Len(world.stream)
      BY <1>1, StreamType DEF RecordsInv, UtteranceInv
    <3>2. at = "next" => num # Len(world.stream)
      BY <1>1 DEF RecordsInv, UtteranceInv, ReaderAt, PastFeatures, Looping
    <3>3. QED
      BY <3>1, <3>2 DEF Written
  <2>4. ASSUME NEW n \in DOMAIN archive.records
        PROVE  /\ archive.records[n].key = world.stream[n].key
               /\ archive.records[n].frames = world.stream[n].rows
               /\ \A m \in 1 .. n - 1 : Before(archive.records[m].number, archive.records[n].number)
    <3>1. n \in 1 .. Written /\ archive.records[n] = RecordOf(n)
      BY <2>1
    <3>2. ASSUME NEW m \in 1 .. n - 1
          PROVE  Before(archive.records[m].number, archive.records[n].number)
      <4>1. /\ archive.records[m] = RecordOf(m) /\ n - 1 \in 0 .. Len(world.stream) - 1
            /\ n - 1 \in Nat /\ m - 1 \in Nat /\ m - 1 < n - 1
        BY <2>1, <2>3, <3>1
      <4>2. Before(FarKey(m - 1), FarKey(n - 1))
        <5>1. Shifted(n - 1)[Width] = 0
          BY <2>1, <4>1 DEF NumbersFit
        <5>2. QED
          BY <4>1, <5>1, KeysAscend
      <4>3. QED
        BY <3>1, <4>1, <4>2 DEF RecordOf
    <3>3. QED
      BY <3>1, <3>2 DEF RecordOf
  <2>5. at = "exited" => num = Len(world.stream) /\ Written = num
    BY <1>1 DEF RecordsInv, UtteranceInv, ReaderAt, PastFeatures, Looping, Written
  <2>6. QED
    BY <2>2, <2>4, <2>5 DEF RecordsMatchUtterances, Written
<1>2. QED
  BY <1>1, RecordsStart, RecordsStep, PTL DEF Spec

=============================================================================
