---------------------------- MODULE MCRecognizer ----------------------------
(* Command lines, configuration files and feature files for Recognizer. *)
EXTENDS Recognizer

MCRegistrations == StandardOptions \o MainOptions \o SearchOptions

MCNormal ==
  [name \in {option.name : option \in ToSet(MCRegistrations)}
            \cup {"Fst-Reset-Period", "decoder-type", "word-symbols-table", "fst-reset-period",
                  "gen-lattice", "lattice-beam", "unknown"} |->
    CASE name \in {"Fst-Reset-Period", "fst_reset_period"} -> "fst-reset-period"
      [] name = "decoder_type"       -> "decoder-type"
      [] name = "word_symbols_table" -> "word-symbols-table"
      [] name = "gen_lattice"        -> "gen-lattice"
      [] name = "lattice_beam"       -> "lattice-beam"
      [] OTHER                       -> name]

MCNumeral == "0" :> 0 @@ "1" :> 1 @@ "2" :> 2 @@ "3x" :> 3 @@ "-2" :> -2

Set(name, text) == [form |-> "option", name |-> name, text |-> text, equal |-> TRUE]
Flag(name) == [form |-> "option", name |-> name, text |-> "", equal |-> FALSE]
NoKey == [form |-> "noKey", text |-> "1", equal |-> TRUE]
Bare == [form |-> "bare", text |-> "", equal |-> FALSE]
Short == [form |-> "short", text |-> "", equal |-> FALSE]
Blank == [form |-> "blank"]
Dashes == [form |-> "dashes"]
Word(n) == [form |-> "word", number |-> n]

MCFiles ==
  "short.conf" :> <<Blank, Set("fst_reset_period", "1"), Set("gen-lattice", "true")>> @@
  "long.conf"  :> <<Set("Fst-Reset-Period", "2"), Set("beam", "3x"), Set("fst_reset_period", "3x"),
                    Set("config", "short.conf")>> @@
  "bad.conf"   :> <<Set("beam", "wide"), Bare, Set("unknown", "1"), Set("gen_lattice", "maybe"),
                    Set("fst_reset_period", "2"), NoKey>> @@
  "keyless.conf" :> <<Blank, NoKey>> @@
  "dashes.conf"  :> <<Set("beam", "2"), Short>>

Words(n) == [w \in 1 .. n |-> Word(w)]

Good == {Set("config", "short.conf"), Set("config", "long.conf"), Set("fst_reset_period", "2"),
         Set("Fst-Reset-Period", "3x"), Set("fst_reset_period", "-2"), Flag("gen-lattice"), Set("gen_lattice", "f"),
         Set("lattice_beam", "2"), Set("word-symbols-table", "words")}

GoodArguments ==
  {<<a, b>> \o Words(4) : a, b \in Good}
  \cup {Words(4)}
  \cup {<<a, Dashes>> \o Words(3) \o <<b>> : a \in Good, b \in {Dashes, Set("config", "short.conf")}}
  \cup {<<a>> \o Words(3) \o <<b>> : a \in Good, b \in {Set("config", "long.conf"), Flag("gen-lattice")}}
  \cup {<<a>> \o Words(2) \o <<Dashes>> \o Words(2) : a \in Good}

BadArguments ==
  {<<a>> \o Words(4) : a \in {Set("decoder_type", "none"), Set("fst_reset_period", "0"),
      Set("fst_reset_period", "many"), Set("gen_lattice", "maybe"), Flag("decoder_type"),
      Set("config", "absent.conf"), Set("config", "bad.conf"), Set("unknown", "1"), NoKey, Flag("help")}}
  \cup {Words(3), <<>>, Words(3) \o <<Flag("help")>>, <<Flag("gen-lattice"), NoKey>> \o Words(4),
        Words(4) \o <<Dashes>>, <<Set("config", "short.conf"), NoKey>> \o Words(4),
        <<Set("decoder_type", "hmm_simple")>> \o Words(4), <<Set("decoder_type", "generic_lattice")>> \o Words(4),
        <<Set("config", "keyless.conf")>> \o Words(4), <<Set("config", "dashes.conf")>> \o Words(4),
        <<Set("unknown", "1"), Flag("help")>> \o Words(4), <<Flag("help"), NoKey, Set("config", "keyless.conf")>>,
        <<Set("config", "absent.conf"), Set("config", "dashes.conf")>> \o Words(4), Words(4) \o <<NoKey>>}

MCArguments == GoodArguments \cup BadArguments

\* Two utterances may have the same key and any has a row.
Utterance(key, rows) == [key |-> key, rows |-> rows]
Streams ==
  {<<>>, <<Utterance("a", 2)>>,
   <<Utterance("b", 1), Utterance("a", 2), Utterance("a", 1), Utterance("c", 2), Utterance("b", 2)>>}

World(fsts, stream) ==
  [writable |-> TRUE, fsts |-> fsts, start |-> TRUE, transModel |-> TRUE, symbols |-> TRUE,
   features |-> TRUE, stream |-> stream]

MCWorlds ==
  LET good == {World(fsts, stream) : fsts \in {<<TRUE>>, <<TRUE, TRUE>>}, stream \in Streams}
      some == World(<<TRUE, TRUE>>, <<Utterance("a", 1)>>)
  IN  good \cup {[some EXCEPT !.writable = FALSE], [some EXCEPT !.start = FALSE],
                 [some EXCEPT !.transModel = FALSE], [some EXCEPT !.symbols = FALSE],
                 [some EXCEPT !.features = FALSE], [some EXCEPT !.fsts = <<TRUE, FALSE>>],
                 World(<<TRUE, TRUE, TRUE>>, <<>>), World(<<TRUE, TRUE, TRUE>>, <<Utterance("a", 1)>>)}

\* The proofs' hypothesis on the number of utterances.
ASSUME NumbersFit

OneWorld == {World(<<TRUE, TRUE>>, <<Utterance("a", 1)>>)}
=============================================================================
