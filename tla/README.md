# OpenDcd in TLA+

A verification project for OpenDcd, a WFST speech decoder in C++. It models the
search core (the two token-passing decoders, the back-pointer lattice with its
mark-and-sweep collector, the reference-counted tokens and their hash list, the
advance of tokens inside HMMs), the making and lazy expansion of the search graph,
and the programs around them: options, the recogniser's main loop, the filter that
runs child processes, the printing of paths. The modules are checked with TLC on
small instances. Proved with TLAPS for every instance: the safety of the lattice and its
collector, the lists and tokens of the C-level decoder and that it is a client of the lattice as
`TokenLattice` specifies one, the list, reference counts, token paths and pruning of the
H-level decoder, how the recogniser starts, resets and records, what
`farfilter` writes, the sharing of HMMs, and the algebra of lattice weights.

## 1. Inventory

OpenDcd decodes one utterance at a time on one thread. Only `farfilter` runs
concurrently with anything: a child process and a pump thread for each command of its
chain. Elsewhere the hard behaviour is in mutable structures that are shared by pointers
(tokens -> lattice states; arcs -> search states; lists -> objects that remember
their own position), in loops that prune against thresholds they move themselves,
and in long sequences of calls on objects that survive from one frame or utterance
to the next.

| Component | State | Operations | Talks to | What makes it correct |
|---|---|---|---|---|
| Tokens (`token.h`) | back pointer, cost | `Combine`, `Expand`, `Clear`, `GcMark` | lattice | a cheaper token wins, ties keep the old one |
| Lattice (`lattice.h`) | `used_list_`, `free_list_`, counts; per state `best_arc_`, `arcs_`, `forwards_cost_`, `index_`, `marked_` | `CreateStartState`, `AddState`, `AddArc`, `GcClearMarks`/`GcMark`/`GcSweep`, `GetLattice`, `Clear`, `Check`, early mission | tokens | nothing dangles, nothing is used twice, garbage goes, traceback = lattice path |
| HMM transition model (`hmm-transition-model.h`) | topologies, the current frame | `Expand`, `GetExitWeight`, `SetInput`, `Next`, `Done` | decodable (acoustic scores) | one frame of the Viterbi recursion, in place |
| C-level decoder (`clevel-decoder.h`) | search states and arcs, `active_states_`, `active_arcs_`, epsilon queue, `search_hash_`, thresholds | `Decode`: `BeginDecode`, `ExpandActiveStates`, `Gc`, `ExpandActiveArcs`, `ExpandEpsilonArcs`, `EndDecode`, `CleanUp` | lattice, transition model, FST | finds the best path; pruning only loses; lists agree with objects; ends |
| H-level decoder (`hlevel-decoder.h`, `simple-lattice.h`, `faster-decoder-mod.cc`) | reference-counted tokens in a hash list, adaptive cutoff | `Decode`, `ProcessEmitting`, `ProcessNonemitting`, `GetCutoff`, `ClearToks` | hash list | every token freed exactly once; best token kept |
| Hash list (`hash-list*.h`) | buckets threaded through one linked list, free list | `Insert`, `Find`, `Clear`, `Delete`, `SetSize` | H-level decoder | is a map; `Clear` hands over all elements |
| Driver (`dcd-recog.cc`, `cascade.h`, `feat-readers.h`) | decoder, composed FST, reader | read, rebuild every `fst_reset_period`, decode, write | all of the above | the decoder never outlives its FST; every utterance once |
| Arc expansion (`arc-expand-fst.h`) | table of elements, cache | `Start`, `Final`, `Expand` | FST | lazily the same language as replacing arcs by HMMs |
| MBR (`mbr-decode.h`) | alpha/beta/gamma, hypothesis | edit-distance accumulation, iteration | lattices | expected edits; iteration improves |
| Options (`parse-options.*`, `config.*`) | registered options | `Register`, `ReadConfigFile`, `Read` | all | command line > file > default |
| Printing tools (`farprintnbeststrings.cc`, `fstxprintstrings.cc`) | path stack | enumerate paths | FARs | every path once with its own labels and cost |
| Lexicon and graph tools (`make-arc-types.cc`, `dcdlex.cc`, `split-self-loop-states.cc`) | label tables, cache of HMMs | make, share, write and read HMMs | files, arc expansion | each label leads to the HMM of its own window |
| FAR tools (`farfilter.cc`, ...) | child process | pipe each FST through a command | processes | one answer per question |
| Lattice weights (`kaldi-lattice-arc.h`) | - | `Plus`, `Times`, `Divide`, `Compare` | printing tools, lattices | a semiring with the path property |
| Registries, logging, platform, online tool | - | - | - | static or I/O |

The hard behaviours, each with its source line, are listed under `hazards` in
`PROJECT.json`, together with the properties that would notice them going wrong.

## 2. Modules

| Module | Models | Role |
|---|---|---|
| `Token` | `token.h`, `kMaxCost` | values |
| `Lattice` | `lattice.h` | the lattice's state and its operations, no `Next` |
| `SimpleLattice` | `simple-lattice.h` | the same interface without collection or alternatives |
| `TokenLattice` | callers of `lattice.h` | abstract specification: what a client may do to a lattice |
| `GcMark` | `State::GcMark`, early mission | the marking, call by call, against `Lattice!Reachable` |
| `TransModel`, `HmmArrays` | `hmm-transition-model.h`, `generic-transition-model.h` | `Expand` as operators; the flat arrays it reads |
| `CLevelDecoder` | `clevel-decoder.h` | the decoder: every loop of `Decode` |
| `CLevelCorrect` | - | Viterbi reference (history variable), properties, refinement mapping |
| `HashList` | `hash-list*.h` | the buckets and lists as one record, its operations as operators |
| `HLevelDecoder` | `hlevel-decoder.h`, `faster-decoder-mod.cc` | token passing over `HashList` with reference counts |
| `DecodeFaster` | `decode-faster-arcexpand.cc` | its driver: utterances, refusals, records |
| `HLevelCorrect` | - | Viterbi reference and properties of the three above |
| `ParseOptions` | `parse-options.*` | registration, configuration file, command line |
| `Recognizer` | `dcd-recog.cc`, `cascade.h`, `feat-readers.h` | the program from its command line to its exit |
| `ArcTypes` | `make-arc-types.cc`, `ReadFstArcTypes` | HMMs for labels: made, shared, written, read |
| `ArcExpandFst` | `arc-expand-fst.h` | the lazy expansion: element table and cache |
| `SearchGraph` | `arc-expand.cc`, `makeclevel.sh` | composes the two with `HmmArrays`; their properties |
| `FarFilter` | `farfilter.cc`, `lattice-filter.cc`, exec-stream | main thread, pump threads and child processes |
| `KaldiWeight` | `kaldi-lattice-arc.h` | the weight semiring |
| `AllPaths` | `farprintnbeststrings.cc`, `fstxprintstrings.cc` | both walks, stack by stack |
| `FarTools` | - | what was filtered is printed |
| `LatticeLemmas`, `TokenLatticeProofs`, `GcMarkProofs`, `CLevelProofs`, `HLevelProofs`, `RecognizerProofs`, `SearchGraphProofs`, `FarToolsProofs` | - | proofs |
| `MCTokenLattice`, `MCGcMark`, `MCCLevel`, `MCHLevel`, `MCRecognizer`, `MCGraphs`, `MCFarTools` | - | instances for TLC |

`CLevelDecoder` extends `Lattice` (its tokens and its lattice are one state) and
`TransModel`. `CLevelCorrect` instantiates `TokenLattice` with a refinement mapping:
the tokens of search states become `stateHeld`, those of search arcs `arcHeld`,
and the control point becomes `mode`. `HLevelDecoder` instantiates `HashList`,
`Recognizer` extends `ParseOptions`, `SearchGraph` and `FarTools` put components
side by side whose only contact is what one writes and the next reads.

### Correspondence

*Lattice.* A `State*` is an address of the finite set `LS`. `usedList` is
`used_list_`; `pool` is `free_list_` as a set, since which pooled object is reused
has no effect; `index[x]`, `node[x]` are the fields of the object; `outstanding` is
`num_allocs_ - num_frees_`. `node` survives freeing, as memory in the pool does.
`arcs_` is a set of arcs (the vector may hold equal arcs twice). `CombineNew` and
`CombineActive` are `TokenTpl::Combine` on an inactive and an active token, the only
caller of `AddArc`. `Reachable` gives the effect of `GcMark`, and module `GcMark` shows that
the recursion computes it. A weight is `am_weight_ + lm_weight_`. `Sweep` is
`GcSweep`, including the renumbering and the resizing. `CheckAborts` and `TokenOffList` are the three
aborts of `GcCheck`; the third passes over an arc's last token, so a token off the list may end the process or not.

*Decoder.* A step is one iteration of one loop, so that no step calls `AddArc`
twice. The loop variables and thresholds are in `loc`. `position[q]` is
`SearchState::index_`, `tokens[a]` the arc's `tokens_`, `arcActive[a]` its
`time_ != -1`; `Null` is a cleared slot of an active list. `net`, `utt` and `frame`
are the FST, the decodable and the transition model's `index_`.

| Action | Code |
|---|---|
| `BeginDecode` | `SetInput`, `BeginDecode` |
| `NextFrame` | the loop test of `Decode` |
| `ExpandActiveState`, `EndStates` | `ExpandActiveStates` (`ExpandIntoArcs`, `SetEntryToken`, `Deactivate`) |
| `Gc` | `Gc` |
| `ExpandActiveArc`, `SwapArcs` | `ExpandActiveArcs_ArcExpansion`, `SwapArcs`, `_BandPruning` with `ComputeBand` |
| `CompactArc`, `SkipSlot`, `EndArcs` | `_ListCompaction` (`ExpandToFollowingState`, `SetToken`) |
| `QueueStates`, `PopState`, `RelaxArc`, `EndRelax`, `EndEpsilon` | `ExpandEpsilonArcs` of decoder and state, `Next()` |
| `EndDecode` | `FindBestState`, `EndDecode`, `GetLattice` |
| `CleanUp` | `CleanUp` |

Abstractions: costs are integers with a saturating sum (`Plus`: `kMaxCost` is 2^31 in
a float and absorbs any small weight); search states exist from the start, where the
code creates them blank on demand; statistics, logging and profiling are left out.
Options that are off by default and not modelled: acoustic lookahead, n-best,
traceback dumps. `insertion_penalty` is part of the arcs' weights. The class of the
lattice is a template parameter of the decoder: `LatticeClasses`.

*Hash list and H-level decoder.* `toks` is the `HashList`: `elems` the memory of all
`Elem`s (key, value, `tail`), `head` and `freed` the two lists, `buckets` the pairs
(`prev_bucket`, `last_elem`), 0 is NULL. Operators take and return this record, so
that one loop body with `Find`, `Insert` and `Delete` is one action. `token` maps
the `HToken`s that exist to their fields, `ref_count_` included; `TokenDelete` is the loop of
`HTokenDelete` along back pointers. One action is the body of one outer loop: `PopState` a
state of the queue with all its epsilon arcs, `ExpandElement` an element of the old list with
all its emitting arcs, its deletion included, in the code's order. `opts.variant`
says which decoder runs: they differ in `GetCutoff`, in which element gives the first
bound and in the test for it.

*Options and recogniser.* `target` are the maps of `ParseOptions` from normalised keys to
the registered variables, `value` the variables, `argv` the arguments (each already split
into its form, name and value; `SplitLongArg` keeps the previous key and value when there is no
key). `FirstOption` and `SecondOption` are the two passes of `Read`, between which `config` says which
file is read, at which line. A line of a file need not begin with dashes: `bare` loses its first two characters, and
`short` has no more than two, so that no key is left (`assert`) or `substr` throws; both end in `aborted`. What the
passes decide is also defined without them: `Meant` is what an argument stands for, `Verdict` how `Read` ends,
by the first option that stops it (`Stops`) or one that is not registered. `NullDumps` is what a
missing transition model leads to: `DumpInfo` of the HMM model reads members through the null pointer, that of the
generic model reads none, so that the test behind it may still be reached. In `Recognizer` an object is a name
in `live` from its `new` to its `delete`; a step that follows a pointer to one that is not there puts it
in `misused`. A search reads its frames and follows the decoder, its FST, the front end
and the transition model; its inside is `CLevelDecoder`. `Due` is `num % fst_reset_period`, whose sign the
period does not change; `DigitsOf` divides by the base as often as the stream would, and `Key` pads. `world` is what the program finds:
files that do not open, a missing component or model, a network without a start, feature files.

*Search graph.* `fsts`, `log2phys`, `log2physmap` and `disambig_syms` carry the code's names; a window of
phones is a sequence and `Compute` stands for `ContextDependency::Compute`. `elements` is the state table,
`cache` what `CacheImpl` holds of a state; `Drop` is its collector, which may forget any
state. `HmmArrays` lays the acceptors out as `FromFsts` does and reads them back
with the offsets of `Expand`.

Objects of the front end, the reader and the decoders are followed; `g_program_name` (`parse-options.cc:314`), a
string that lives until the process ends, is not. The deletions at the end of `CLevelDecoderMain` follow each other
without a call that could see some of them done, and are one step.

*FAR tools.* Data are counted in units. A child is what it reads (one record or its whole input),
how many units it writes to stderr and to stdout, and whether it fails, is slow or missing.
Between the main thread and a child: an unbounded buffer, the thread, a pipe of
`PipeCapacity`, in each of three directions. A timeout of two seconds is enabled only
when neither child nor thread can move for the waiting stage or the child is slow. A thread that has
failed makes `put` (`PutBroken`) and `get` (`GetBroken`) throw. An archive that does not open is left out:
`main` looks for its arc type first (`LoadArcTypeFromFar`), and no `FarFilter` is registered for an empty one.

*Path printing.* `queue`, `current_path`, `current_cost` and `arc_iterators` are the
variables of `AllPaths`, one action per turn of its loop.

## 3. Runs

| Run | Question | Bounds |
|---|---|---|
| `token_lattice` | Is the lattice safe under any client that keeps the contract of `TokenLattice`? | 3 addresses, costs 0..2, lattice beam 2 |
| `gc_mark` | Does the recursion mark what it should, and is the early mission's prefix common? | all lattices on 4 states, 0 to 2 tokens |
| `clevel_exact` | Without pruning, are all costs the Viterbi costs? With either class of lattice, does the traceback add up? | 16 networks, 64 utterances of 4 rows |
| `clevel_pruned` | With pruning, lattices, pool and two utterances: coherent, never too cheap? | beam 2, band 2, 3 rows |
| `clevel_refinement` | Does the decoder keep the contract of `TokenLattice`? Does it terminate? | beam 3, band 2, 2 utterances |
| `hlevel` | Are counts, elements and buckets exact at every step? Is the result the best path, and every utterance recorded or refused? | 4 graphs, both decoders, beam none, 1 or 2, two utterances of two rows |
| `recognizer` | From the command line to the exit: options, openings that fail, lifetimes over resets, records | about 120 command lines, periods -2, 0 to 3 and 32, up to 5 utterances |
| `graphs` | Do sharing, lazy expansion and flat arrays agree with the HMM each label stands for? | tables of 3 windows, 3 phones, 3 networks, 5 calls, 5 frames |
| `tools` | Does the exchange with children end with whole answers in order, is every path printed once? | chains of 1 to 3 commands of 6 kinds, pipes of 1 unit, 4 FSTs |
| `clevel_epsilon_cycle` | (violated) Does the epsilon expansion end on a cycle? | two states |
| `clevel_backoff` | (violated) Does the back-off find the best state? | no final state |
| `arc_expand_index` | (violated) Does an element's index name its arc? | a network sorted by input label |

*Why the bounds are enough.* Three lattice states give a start, an interior and a
frontier state with two ways into the latter; a fourth adds interleavings but no
new shape (it was run once without `gc_check`, with the same result). Four
states in `gc_mark` contain every shape of sharing between best arcs and lattice
arcs below two tokens, and the list orders put each state last.
The diamond network reaches a state through a direct epsilon arc and
then more cheaply through a longer path, with a negative weight in some
instances, after it was already expanded; its loops emit, so tokens recombine. The
parallel network needs three frames to cross its left-to-right HMM and has a
shorter competitor. Two utterances on one decoder exercise pools and stale fields.
`MaxCost` (1000) is far above any cost of an instance and stands for `kMaxCost`.
The last row of an utterance is never read (see below), so it is fixed.

In `hlevel` the table starts with two buckets and is resized while it is empty
between frames; five states in two buckets collide, and the block of elements runs out.
One graph has a diamond of epsilon arcs whose cheap side is found late, the other a loop of
epsilon arcs and no final state. In `recognizer` two digits to base three pad as
five to base ten do, and the counter passes a power of the base; periods of 1, 2
and 3 put resets between, on and after the last utterance. In `graphs` a phone has one
HMM in two or three contexts, of which two are tied, and a third phone has another
size; five frames let a token loop in and leave a three-state HMM. In `tools` a
pipe of one unit blocks as often as a pipe can.

*Deadlock* is not checked: every one of these programs stops.

*Fairness.* `FairSpec` of the C-level decoder and of the recogniser is weak fairness of the
whole next-state relation: one thread
runs the loops, blocks on nothing, and has no choice but to take the next step. `HFairSpec` says the same of
the H-level decoder without `ENABLED` (either it has been destroyed or it steps again and again).
In `FarTools` the main thread, each child and each pump thread are scheduled by the
operating system: weak fairness of each, so none moves another along.

### What the violated runs show

- `clevel_epsilon_cycle`: every arrival below the threshold requeues the destination,
  improved or not (`clevel-decoder.h:437`), so a cycle of epsilon arcs is followed
  for ever unless the beam ends it: the cost added by a cycle does not change a
  state's cost, so the beam does not. `SearchState::Init` refuses only negative
  self-loops.
- `clevel_backoff`: the second loop of `FindBestState` stores an accept cost and
  compares it with a cost (line 986).
- `arc_expand_index`: `i++` counts the arcs that are expanded, and the lookup seeks among all
  (`arc-expand-fst.h:197`). The passing run has epsilon arcs behind the others.

### Observations without a run of their own

Met while translating; the models follow the code in each.

- C-level decoder: `SwapArcs(0, -1)` when no arc survives a frame (`clevel-decoder.h:1201`); the
  last feature row is never scored (752), while the driver counts it (`dcd-recog.cc:204`); at
  least `max_arcs + 1` arcs survive the band, as the compaction keeps ties; an
  arc stays in `arcs_` after a better arrival has moved the lattice beam away from it; an
  early mission does not look at the visit count of the start state (`lattice.h:420`), and reads
  the back of an empty list when a collection leaves nothing (411, `undefined` in `GcMark`).
- Lattices: `DeleteState` stores at `used_list_[-1]` when the destructor empties the pool
  (`lattice.h:337`); `SimpleLattice::NumStates` never decreases; the decoder type
  `hmm_simple` with `gen_lattice` writes empty lattices.
- HMMs: an acceptor of another size than 2, 4 or 6 gets no entry in `types_`, so that all later
  labels are off by one; with transition ids for labels the arcs of one state differ, and the flat
  arrays keep the first (`LeftToRightIsGeneric` is about pdf labels); `Read` and `Write` of
  the binary form do not keep what `Expand` needs.
- Arc expansion: `Final` on a state whose arcs are cached expands it again and its arcs
  are there twice (`arc-expand-fst.h:133`), the same language.
- Arc types: the writer for FARs writes nothing and its failure is not looked at;
  `ReadFstArcTypes` uses an FST before it tests the pointer (`utils.h:129`).
- Options: unreadable values only log, as `LOG(ERROR)` goes on (`parse-options.cc:561`);
  `KALDI_ASSERT` is empty (`text-utils.h:38`).
- Recogniser: `DumpInfo` is called on a model that could not be read (`dcd-recog.cc:113`, harmless only for the
  generic model, whose body is empty); a period of 0
  divides by zero (147); a feature file cut off in a matrix delivers no rows; an
  utterance of no rows is never done (`feat-readers.h:219`); from 10^5 utterances on
  the keys are out of order and the archive writer drops the records.
- FAR tools: `close_in` is not called, so a command that reads to the end of its input times
  out and the exception ends the tool; exit codes are not asked for; with `--text` a
  short answer is a record like any other; a null FST is copied when a command ends early
  (`farfilter.cc:51`).
- Printing: `fstxprintstrings` pops the last label and not its cost (100), so costs of
  later paths are those of longer ones (`PathsPrinted` claims its labels, and the
  costs of the other tool); neither adds final weights.
- Lexicon: `dcdlex` looks for the arc of a phone with `Seek(phone)`, which seeks a position
  (`dcdlex.cc:94`), and its order on entries is not a strict one.

## 4. Proofs

Every safety property of the runs `token_lattice`, `clevel_refinement`, `recognizer` and `tools` is
proved or named in section 5, for every choice of costs, labels, networks, files and command lines the
assumptions allow:

| Module | Theorems | What they establish |
|---|---|---|
| `TokenLatticeProofs` | `SpecTypeOK`, `SpecTokensLive`, `SpecBackPointersLive`, `SpecNoAliasing` | memory safety: no token and no back pointer of a live state leads to a freed one, no object is used twice |
| | `SpecIndexesArePositions`, `SpecAllocationsBalance`, `SpecGcCollects` | the numbers emitted are 0 .. n-1, neither `Clear` nor `GcCheck` aborts, a collection is complete |
| | `SpecAcyclic`, `SpecOneStart`, `SpecForwardsCostJustified`, `SpecBestArcInLattice` | recursions and tracebacks end, at one start, along lattice arcs, with costs that add up |
| `GcMarkProofs` | `SpecMarksReachable` | the calls of `GcMark` mark what `Reachable` says, the set the theorems above rest on |
| | `SpecMarksAreReferences` | a visit count is the number of tokens, best arcs and lattice arcs that lead to the state; the recursion meets no state twice on its stack |
| `CLevelProofs` | `SpecSInv`, `SpecListsCoherent`, `SpecTokensMatchLattice` | lists and objects agree through all loops of `Decode`; every search state's token has its own lattice state, at its cost |
| | `SpecImplementsTokenLattice` | every step of the decoder is a step `TokenLattice` allows, or one it does not see |
| `HLevelProofs` | `HElementsAccounted`, `HTableFinds` | the hash list loses no element, has none twice and finds what it holds, while the old list is walked |
| | `HRefCountsExact` | a token's count is what points to it: none is deleted in use, none leaks |
| | `HTokenPathsAreReal` | tokens lead back along a path of the graph with their weight, one emitting arc for each frame |
| | `HBestExpansionSurvives` | a pass that prunes with a bound it tightens itself keeps the best expansion of the tokens below the cut-off |
| `RecognizerProofs` | `SpecOutcomeJustified`, `SpecObjectsWellUsed`, `SpecRecordsMatchUtterances` | the program returns exactly when it should, and stops otherwise for the reason its options and files give, before the first record; no object is used when gone or left behind; the archive holds the utterances read, in order |
| `SearchGraphProofs` | `SpecSharingIsInvisible` | each label leads to the HMM of its own window, whatever is shared |
| | `SpecExpansionIsEager` | a state expanded on demand has the arcs of the network with every arc replaced by its HMM |
| `FarToolsProofs` | `SpecAnswersMatchQuestions` | what `farfilter` writes under a key is what the whole chain makes of that key's FST |
| | `PlusLaws`, `TimesLaws`, `CompareMonotone`, `Distributive`, `DivideInverts` | lattice weights are a commutative, idempotent semiring with the path property |

Assumptions on the constants are named where they are declared, and TLC evaluates those stated with ASSUME:

- `LatticeAssumption`, `TokenLatticeAssumption`: types of the constants. `ArcTypesAssumption`: label tables start with
  epsilon, their other windows are disambiguation symbols or have a phone with a topology, and transitions lead to
  states of it. `SearchGraphAssumption`: arcs of a network lead to its states.
- `EpsilonsLast`, `HmmsAreLong`: the hypotheses of `SpecExpansionIsEager`. Without the first the code is wrong (the run
  `arc_expand_index`); the second is what the code assumes aloud ("Assume the epsilon/disambiguation has 2 states",
  `arc-expand-fst.h:103`). `MCGraphs` has TLC evaluate both for its instance.
- `GcMarkAssumption`: the lattices a collection starts from are finite and do not dangle, which is
  `BackPointersLive` and `TokensLive`. `GcMarkAcyclic`: their back pointers have no cycle, which is `SpecAcyclic`.
- `DecoderAssumption`: networks, utterances and options are of their types. `EpsilonAcyclic`: the states
  of each network can be numbered so that epsilon arcs lead upwards (what
  happens otherwise is `clevel_epsilon_cycle`). It is a hypothesis of the refinement, not of the lists.
- `HLevelAssumption`: states of a graph are numbers (they are hashed), arcs lead to states of it, and the
  sizes of hash and block are positive. `HLevelCosts`: costs are integers, and each row of the features has one for
  every label that emits; the options that prune are natural numbers, 0 included (a negative beam would cut off the
  best token itself).
- `ParseOptionsAssumption`, `RecognizerAssumption`: the worlds the program may find, keys of at least one digit
  to a base of at least two. `NumbersFit`: no utterance's number has more digits than the key, which
  the archive of `SpecRecordsMatchUtterances` needs and the program does not test (see the observations).
- `FarFilterAssumption`: every chain has a command, archives hold FSTs of known size, and commands
  answer FSTs with FSTs.

`SpecImplementsTokenLattice` is about the class with collection (`LatticeClasses \subseteq {"Lattice"}`) and all
integers below `MaxCost` for costs (`Costs`, which only the abstract specification quantifies over). With `prune_eps` it
needs `[]CostsInRange`: the best cost plus the beam stays up to `kMaxCost`, 2^31. Beyond it `AddArc` would
record no best arc, and the state entered would look like a start. No utterance comes near. The theorems about `TokenLattice` hold of the decoder
through it: what they say of `stateHeld`, `arcHeld` and the lattice is true of
the tokens of search states and arcs under the mapping of `CLevelCorrect`.

*Memory safety.* The inductive invariant `IInv` joins the four properties with the
balance `outstanding = Len(usedList)`. It is needed whole: that a sweep frees no held
state needs the marked set to be closed inside `Used`, which needs `BackPointersLive`;
that a new state destroys no back pointer needs `NoAliasing` (a fresh object is
not in use, so overwriting its fields changes no live state); and `NoAliasing` after a
sweep rests on facts about compaction: the compacted list holds exactly the
marked members of the old one, in order and once (`LatticeLemmas`: the rank of a
position is strictly monotone at members, and every rank up to the last is taken).

*Numbers.* `IndexesArePositions` is inductive beside `IInv`: after a sweep the ranks
are the indexes, whatever `SortLists` makes of the order, and a new state takes the
next one. That `GcCheck` finds each state at its index is the same lemma
(`SweepIndexes`). `GcCollects` follows because `Reachable` is the least closed set: the
survivors that have a reason to survive are closed themselves.

*Paths.* `PathInv` adds `Acyclic`: every set of live states has a member pointing to
no other of the set. It is what makes `OneStart` inductive: an arc into the start
would have to leave a state that descends from it, and every state does (a closed
set has a member without predecessors), while a client follows no such arc
(`EnterActive`). A collection keeps the start for the same reason. `Acyclic` survives a
new arc by splitting a set along what is reachable from the arc's source.

*Marking.* A state is marked only when its call returns, so the marked states alone are
not closed on the way. The inductive invariant (`Marking`) says who answers for a
predecessor of a call that has not returned: it is marked, the call has still to visit it,
or the call above on the stack is that visit; likewise for the tokens. Each step of the recursion
is a lemma on stacks (`TakenToken`, `TakenPredecessor`, `VisitedMarked`, `VisitedUnmarked`,
`Returned`). With the stack empty the marked set is closed, holds the tokens and is reachable: it is the
least closed set. That the recursion returns at all needs `SpecAcyclic`.

*Visit counts.* `CountInv` adds that the back pointers are acyclic and that there are numbers `t`, how many of its
predecessors each state has visited and how many tokens have been taken, such that `Counted` holds: what a call has left
are the predecessors after the `t`-th; a marked state has visited all of its own, one neither marked nor on
the stack none; each call was made on a predecessor of the state below it; and the mark of a state, plus one while
it is on the stack, is the number of visits made to it. The chain of predecessors and the absence of cycles give that
no state is on the stack twice (`NoneTwice`), without which a state would be marked 1 by each of its calls and
visits be lost. At the end all visits have been made, and positions of tokens and predecessors are
matched with tokens, best arcs and lattice arcs one to one (`ReferencesCounted`).

*Lists.* `SInv` of the C-level decoder has six parts. `Shape`: what the variables are made of. `StateSlots`: a search state has a
token when it is in its list, once, where `index_` says. `ArcSlots`: the same of arcs, which have no index.
`EmptySlots`: which slots the running loop has cleared, and that no other loop meets
one. `Queue`: states in the epsilon queue have tokens. `OwnStates`: a token's lattice state is
allocated, no other's, and as cheap. They need each other: that deactivating a state clears its own slot needs
`StateSlots`, that the compaction moves an arc into a cleared slot and loses none needs
`EmptySlots`, and that a better token for one state does not change another's cost needs `OwnStates`.

*Refinement.* The mapping needs `RInv` beside `SInv`: `Types`, `Frames` (a frame that is decoded has a
row of features and one after it), `Live` (tokens of arcs and back pointers lead to allocated states), and `Layers`:
within a frame no lattice state points back to one that a search state's token has now, except along
epsilon arcs, which lead upwards in `EpsilonAcyclic`'s numbering. `Layers` is what makes
`EnterActive`'s guard hold, and with it the acyclicity of the lattice: a better arrival at
a state writes into the lattice state that state already has, and if a
path from it led to the arrival's source, this would close a cycle of back pointers.
Each action is then a step of `TokenLattice` or a stutter, one lemma per action.

*Token passing.* `DecoderInv` of the H-level decoder says that there are lists `L` (the table's), `F` (freed) and
`W` (still to be walked), buckets `B` and a depth for each token such that `Store` holds, which has five parts. `Table`: the
pointers of elements run along the three lists, which share no element and leave none out; each bucket in `B` is a stretch of
`L` that ends where it says and begins after the end of its `prev`. `Rooted`: every token leads back to a first one.
`Counted`: its count is what holds it and what points to it. `Real`: its arc leaves the state of
the token before it, and its weight and depth are those of that token and the arc. `Deep`: tokens of `L`
are one frame ahead of those of `W` during a pass. They need each other: that an insertion finds the right place needs the
buckets' stretches, that `Delete` on a walked element harms neither other list needs them disjoint, and
that deleting back along a chain stops in time needs exact counts: a token of count 1 whose
successor is gone is held by no element. The one that is being placed is the exception, so `Store` has a
parameter for a token with a count that nothing accounts for yet (`NewKeeps` makes it, `EnterKeeps` settles it: inserted,
exchanged for a worse token, or dropped). While a token is expanded its element keeps it alive (`Alive`), and
that no token is left when the last element is gone is a descent along the tokens' links (`NoTokens`). None of this depends on the cut-offs. The recursive functions of the model (lists, arcs of a state, elements of a
cleared list) are followed step by step with `UpTo`, and shown to exist by `StagesExist`.

*Pruning.* The last part of `DecoderInv`, `Pruned`, is about one pass. Let `best` be the least cost to which the tokens below the
cut-off expand, fixed when the pass begins (a history variable). No token of the new list is cheaper (`Above`), nor is an
expansion of what is still walked; one of them costs `best`; and the bound `cutoff.next` is above it (`Bounded`). The bound only goes
down to an expansion plus `adaptive`, so it stays above `best` as long as `adaptive` is positive, and that is the point where
`GetCutoff` matters: a token below the cut-off leaves room in the beam (`Cuts`, by `CutoffIs` and `CutoffFasterIs` for all of their
branches). The first bound comes from the least token, or the least that emits, which lies below the cut-off if any with an
emitting arc does (`PassStarts`). For the rest, `Settled` follows a token into the list: it is placed, replaces a dearer one or gives way to a cheaper one, so
the least cost of the list does not rise.

*Recogniser.* Three inductive invariants share a base, `EndInv`, which names a stage of the program for each position and says what has been
read, opened and checked by then. Its part about the arguments, `ArgumentsInv`, relates the passes to `Verdict`: the arguments
before the current one held no offence (`FirstRead`, `LinesRead`, `SecondInv`), and `last`, which an option without a key leaves
alone, is what the last argument read stood for (`Meant`). Without `last` it is not inductive, as "--=x" repeats the option before it, be
it a configuration file. The first argument in `Stops` is then the first at which the program leaves the pass (`FirstOffence`). `FreshInv` says that nothing is
written before the first search, and that no failure lies behind it: what a reset reads again was read at the start. `LifeInv` adds the pointers: `PointersInv` gives the exact set of live
objects at every stage, so that a deletion is of a live object and the set is empty at the return; the decoder follows an
FST of the cascade in use, which is why a reset must delete the decoder before it composes
anew. `RecordsInv` adds that the reader stands at the utterance `num` counts, and that the archive is
exactly the records of the utterances before it. That the archive accepts them is the lemma `KeysAscend`:
the zero-padded keys of smaller numbers come first as strings, by the first digit in which
they differ; the digits are those of repeated division.

*Filter.* The inductive invariant `FilterInv` counts units of the last stage only: what its child has
written is in the pipe, in the buffer or read (`Counted`), at most its answer, and less only while
it runs or if it fails. Nothing need be known of the stages before, as a child's answer is to what it was sent whole, and
a child that was sent less never writes: this is where the tool relies on its commands
(`Fed`). `Passed`, what a chain makes of an FST, is a recursive function; that it exists and keeps to FSTs
is shown by the least counterexample (`LeastNumber`).

*Sharing.* The inductive invariant `SharingInv` says of every label made so far that
its entry in the table stands for it, of every cache entry that some window with its index
made the acceptor it names, and that without sharing labels and acceptors
are one to one. The argument rests on one lemma, `SameIndexSameHmm`: what
`GetHmmAsFstWithLoops` makes is a function of the phone and the pdfs, although it is
given a window. It is not inductive without the cache's part, and the cache's part needs
that the table only grows.

*Expansion.* The inductive invariant `ExpansionInv` joins `SharingInv` with three parts. `NetworkInv`: once a network is open
the tables are read and complete, so they change no more, and what the expansion sees is that network, relabelled.
`ElementsInv`: every element is a state of the network or lies inside an arc that emits, the start is the first.
`CacheInv`: every cached entry says, through the table, what its element's arcs are; it has them once, or at most twice
after `Final`. The argument for one call is `ElementLeaves`: a physical label is in `epsilons_` exactly when the
logical one is an epsilon (`TypeOfLabel`, from sharing), and as no epsilon comes before an emitting arc the
index counted is the position sought (`SourceLeaves`). That entries stay right as the table grows is
`StillExpansion`; what the recursive functions of the model compute is shown by a least counterexample
(`UpTo`), and that they exist by `StepsExist`.

*Weights.* A weight is a pair of numbers or infinite in both. `Compare` orders sums first and
first components among equal sums; `CompareMonotone` (a step keeps the order, tie-break included) gives
`Distributive`. Numbers are exact: what rounding does to equal sums is not covered.

Each proof of an invariant has one lemma per action, and the theorems follow with PTL.

## 5. Only model-checked, and why

- Liveness (`Terminates`, `EpsilonExpansionEnds`, `UtterancesEnd`, `Ends`, `FilterEnds`): fairness and
  `ENABLED` are out of the prover's reach.
- The equalities with a Viterbi recursion, of flat arrays with the generic expansion and of printed paths with
  their definitions: inductions over data (epsilon closure, HMM topology, paths).
- What early mission reads off the visit counts (`PartialIsCommon`): a filter (`SelectSeq`) over a path, whose
  lemmas take an operator as a parameter.
- `CLevelDecoder`'s `NeverFails` with all of its checks: checked, not yet proved.
- `UnprunedIsViterbi` and `ResultIsBest` of the H-level decoder: the epsilon closure of the reference and the sum along the
  result are inductions over data.
- `OptionsAsSpecified` and `PathsPrinted`: their statements are folds over argument lists and paths.

## 6. Plan

Done: the lattice and its proofs, both decoders, hash list, options, recogniser, search
graph, FAR and printing tools, weights. What is left, in order:

1. `dcdlex` as an algorithm against the set of its entries.
2. A lattice with `use_pool` off and destructors, for `DeleteState`.

A component gets one passing run, and runs are merged when their questions fit one instance.

## 7. Not modelled

- MBR decoding (`mbr-decode.h`): the code has no defined behaviour to translate. `alpha_dash` and
  `beta_dash` are built as N + 1 empty vectors with the sized ones pushed behind them (429-435), so
  `AccStats` writes outside its tables; `do_mbr_` (564) is never initialised; `edit_matrix_` is a reference to
  a default argument that is gone (206, 211); `one_best_confidences_` (350) is never cleared.
- `split-self-loop-states.cc`: one call of a Kaldi function that is not in this repository. `dcdlex.cc`: see
  the observations. `far-to-lattice.cc`, `lattice-to-far.cc`: copies, record by record.
- `kaldi-hclg-emulation-transition-model.h`: no file includes it, and it allocates a class that
  does not exist.
- Registries (static), logging, text and platform utilities (I/O and formatting), the online tool (glue
  around Kaldi code that is not in this repository), vendored code under `3rdparty` other than
  exec-stream's pump thread.
- In the C-level decoder: `SearchGc`, `ExpandEpsilonArcs2` and `DecodeFrame` are never called.
  `HashList::InsertMore`, which nothing calls.
  Destructors of lattices and decoders, except for the recogniser's objects and the tokens of the H-level decoder.
