--------------------------- MODULE HLevelDecoder ---------------------------
(***************************************************************************)
(* HLevelDecoder (hlevel-decoder.h) and FasterDecoderMod                   *)
(* (faster-decoder-mod.cc): token passing over an FST whose input labels   *)
(* are acoustic states.  A token records the arc it took and points to the *)
(* token it came from; tokens are reference counted, one count for each    *)
(* token that points to it and one for the element of the hash list that   *)
(* holds it.  The tokens of a frame are expanded in the order of the list  *)
(* while their elements are handed back to the hash list, which reuses     *)
(* them.                                                                   *)
(*                                                                         *)
(* Both decoders have the same text but for the cut-off and the token the  *)
(* first bound is taken from; opts.variant tells them apart.               *)
(***************************************************************************)
EXTENDS Integers, Sequences, SequencesExt, FiniteSets, FiniteSetsExt, TLC

CONSTANTS
  Graphs,         \* FSTs: [start, arcs, final], arcs a sequence per state
  FeatureSets,    \* utterances: sequences of acoustic cost per input label
  OptionSets,     \* [variant, beam, delta, maxActive, minActive, allowPartial]
  Huge,           \* 1e10, infinity and the maximum of a float
  FirstSize,      \* hash buckets to begin with
  HashRatio,
  BlockSize,      \* of HashList
  MaxUtterances   \* bound: utterances decoded

ASSUME HLevelAssumption ==
  /\ FirstSize \in Nat \ {0} /\ HashRatio \in Nat \ {0} /\ BlockSize \in Nat \ {0}
  /\ \A option \in OptionSets : option.minActive < option.maxActive
  /\ \A g \in Graphs :
       /\ g.start \in DOMAIN g.arcs /\ DOMAIN g.arcs \subseteq Nat
       /\ \A s \in DOMAIN g.arcs :
            /\ g.arcs[s] \in Seq(Range(g.arcs[s]))
            /\ \A i \in 1 .. Len(g.arcs[s]) : g.arcs[s][i].nextstate \in DOMAIN g.arcs

\* Costs are numbers, for every label of a graph in every row of the features.
ASSUME HLevelCosts ==
  /\ Huge \in Nat \ {0}
  /\ \A option \in OptionSets :
       /\ option.variant \in {"hlevel", "faster"} /\ {option.beam, option.delta} \subseteq Nat
       /\ {option.minActive, option.maxActive} \subseteq Nat
  /\ \A f \in FeatureSets : Len(f) \in Nat
  /\ \A g \in Graphs : \A s \in DOMAIN g.arcs : \A i \in 1 .. Len(g.arcs[s]) :
       LET arc == g.arcs[s][i]
       IN  /\ arc.weight \in Int
           /\ arc.ilabel # 0 => \A f \in FeatureSets : \A n \in 1 .. Len(f) : f[n][arc.ilabel] \in Int

VARIABLES
  graph, opts,    \* fst_, opts_
  toks,           \* toks_
  token,          \* the live tokens: [arc, prev, refs, weight]
  last,           \* the element of last_toks that is expanded next
  cutoff,         \* [weight, adaptive, next] of the pass
  queue,          \* queue_
  feats, frame,   \* the utterance and the rows of it that were expanded
  at,             \* idle, emitting, nonemitting, final, destroyed
  result,         \* what GetBestPath returned
  utterances      \* utterances begun

vars == <<graph, opts, toks, token, last, cutoff, queue, feats, frame, at, result, utterances>>

H == INSTANCE HashList

Null == H!Null

States == DOMAIN graph.arcs
Arcs(s) == graph.arcs[s]
Emits(arc) == arc.ilabel # 0
Final(s) == graph.final[s]

-----------------------------------------------------------------------------
(* Tokens *)

Fresh(tk) == CHOOSE t \in 1 .. Cardinality(DOMAIN tk) + 1 : t \notin DOMAIN tk

\* tk with one more token, Fresh(tk).
Added(tk, new) == [t \in DOMAIN tk \cup {Fresh(tk)} |-> IF t \in DOMAIN tk THEN tk[t] ELSE new]

\* (mutant) the weight of the arc is forgotten.
NewTokenAcousticOnly(tk, arc, ac, prev) ==
  Added([tk EXCEPT ![prev].refs = @ + 1],
        [arc |-> arc, prev |-> prev, refs |-> 1, weight |-> tk[prev].weight + ac])

\* A token for the arc from prev.
NewToken(tk, arc, ac, prev) ==
  Added([tk EXCEPT ![prev].refs = @ + 1],
        [arc |-> arc, prev |-> prev, refs |-> 1, weight |-> tk[prev].weight + arc.weight + ac])

\* The tokens from t back to the first.
Back(tk, t) == H!Links([x \in DOMAIN tk |-> tk[x].prev], t)

\* (mutant) deletes t alone.
TokenDeleteOne(tk, t) ==
  IF tk[t].refs = 1 THEN Restrict(tk, DOMAIN tk \ {t}) ELSE [tk EXCEPT ![t].refs = @ - 1]

\* Deletes t and the tokens behind it up to the first that is still referenced.
TokenDelete(tk, t) ==
  LET path == Back(tk, t)
      n    == SelectInSeq(path, LAMBDA x : tk[x].refs > 1)
      kept == DOMAIN tk \ Range(IF n = 0 THEN path ELSE SubSeq(path, 1, n - 1))
  IN  [x \in kept |-> IF n # 0 /\ x = path[n] THEN [tk[x] EXCEPT !.refs = @ - 1] ELSE tk[x]]

-----------------------------------------------------------------------------
(* Passing a token on *)

Value(h, e) == h.elems[e].val

\* (mutant) the first token to enter a state stays.
EnterFirst(s, t) ==
  LET state == s.token[t].arc.nextstate
  IN  IF H!Find(s.toks, state) = Null
        THEN [s EXCEPT !.toks = H!Insert(s.toks, state, t), !.changed = Append(@, state)]
        ELSE [s EXCEPT !.token = TokenDelete(s.token, t)]

\* The new token t enters the state its arc leads to: it is inserted, replaces a
\* worse token there, or is dropped.
Enter(s, t) ==
  LET state == s.token[t].arc.nextstate
      found == H!Find(s.toks, state)
      old   == Value(s.toks, found)
  IN  CASE found = Null ->
             [s EXCEPT !.toks = H!Insert(s.toks, state, t), !.changed = Append(@, state)]
        [] found # Null /\ s.token[t].weight < s.token[old].weight ->
             [s EXCEPT !.toks = H!SetVal(s.toks, found, t), !.token = TokenDelete(s.token, old),
                       !.changed = Append(@, state)]
        [] OTHER -> [s EXCEPT !.token = TokenDelete(s.token, t)]

\* One emitting arc from token t.
EmitArc(s, t, arc) ==
  LET ac     == feats[frame + 1][arc.ilabel]
      weight == arc.weight + s.token[t].weight + ac
  IN  IF ~Emits(arc) \/ weight >= s.next THEN s
      ELSE Enter([s EXCEPT !.token = NewToken(s.token, arc, ac, t),
                           !.next = IF weight + cutoff.adaptive < @ THEN weight + cutoff.adaptive ELSE @],
                 Fresh(s.token))

\* All the arcs of a state, in order.
EmitArcs(s, t, arcs) ==
  LET after[n \in 0 .. Len(arcs)] == IF n = 0 THEN s ELSE EmitArc(after[n - 1], t, arcs[n])
  IN  after[Len(arcs)]

\* One epsilon arc from token t.
EpsilonArc(s, t, arc) ==
  IF Emits(arc) \/ s.token[t].weight + arc.weight > cutoff.next THEN s
  ELSE Enter([s EXCEPT !.token = NewToken(s.token, arc, 0, t)], Fresh(s.token))

EpsilonArcs(s, t, arcs) ==
  LET after[n \in 0 .. Len(arcs)] == IF n = 0 THEN s ELSE EpsilonArc(after[n - 1], t, arcs[n])
  IN  after[Len(arcs)]

-----------------------------------------------------------------------------
(* Pruning *)

Plus(a, b) == IF a >= Huge \/ b >= Huge THEN Huge ELSE a + b

Weights(list) == [i \in DOMAIN list |-> token[Value(toks, list[i])].weight]

\* The first index of an element of S with the least cost, 0 for an empty S.
FirstLeast(S, cost) ==
  IF S = {} THEN 0
  ELSE CHOOSE i \in S : \A j \in S : cost[i] < cost[j] \/ (cost[i] = cost[j] /\ i <= j)

\* nth_element: the n-th of the costs in order, counted from 0.
Nth(cost, n) == Min({c \in Range(cost) : Cardinality({i \in DOMAIN cost : cost[i] <= c}) > n})

\* HLevelDecoder: the tighter of the beam and the token number maxActive.
GetCutoff(list) ==
  LET w    == Weights(list)
      best == IF list = <<>> THEN Huge ELSE Min(Range(w))
  IN  IF Len(w) <= opts.maxActive THEN [weight |-> Plus(best, opts.beam), adaptive |-> opts.beam]
      ELSE LET ans == Min({Plus(best, opts.beam), Nth(w, opts.maxActive)})
           IN  [weight |-> ans, adaptive |-> Min({opts.beam, ans - best + opts.delta})]

\* FasterDecoderMod: maxActive tightens the beam, minActive widens it.
GetCutoffFaster(list) ==
  LET w    == Weights(list)
      best == IF list = <<>> THEN Huge ELSE Min(Range(w))
      beam == Plus(best, opts.beam)
      max  == IF Len(w) > opts.maxActive THEN Nth(w, opts.maxActive) ELSE Huge
      min  == IF Len(w) <= opts.minActive THEN Huge
              ELSE IF opts.minActive = 0 THEN best ELSE Nth(w, opts.minActive)
      At(c) == [weight |-> c, adaptive |-> IF c = Huge THEN Huge ELSE c - best + opts.delta]
  IN  CASE max < beam                 -> At(max)
        [] max >= beam /\ min > beam -> At(min)
        [] OTHER                      -> [weight |-> beam, adaptive |-> opts.beam]

\* The token whose emitting arcs give the first bound: the best one, ...
BestElem(list) == FirstLeast(DOMAIN list, Weights(list))

\* ... or the best one in a state that emits.
BestElemFaster(list) ==
  FirstLeast({i \in DOMAIN list : \E a \in Range(Arcs(toks.elems[list[i]].key)) : Emits(a)}, Weights(list))

\* (mutant) the beam is left out.
FirstBoundTight(list, best, adaptive, fr) ==
  IF best = 0 THEN Huge
  ELSE Min({Huge} \cup
           {a.weight + Weights(list)[best] + feats[fr][a.ilabel] :
              a \in {b \in Range(Arcs(toks.elems[list[best]].key)) : Emits(b)}})

\* The bound on the cut-off of the next frame.
FirstBound(list, best, adaptive, fr) ==
  IF best = 0 THEN Huge
  ELSE Min({Huge} \cup
           {Plus(a.weight + Weights(list)[best] + feats[fr][a.ilabel], adaptive) :
              a \in {b \in Range(Arcs(toks.elems[list[best]].key)) : Emits(b)}})

-----------------------------------------------------------------------------
(* Decoding *)

Init ==
  /\ graph \in Graphs /\ opts \in OptionSets
  /\ toks = H!SetSize(H!New, FirstSize) /\ token = <<>> /\ last = Null
  /\ cutoff = [weight |-> 0, adaptive |-> 0, next |-> Huge]
  /\ queue = <<>> /\ feats = <<>> /\ frame = 0 /\ at = "idle"
  /\ result = [found |-> FALSE] /\ utterances = 0

\* Releases the tokens and the elements of a cleared list.
ClearToks(s, list) ==
  LET after[n \in 0 .. Len(list)] ==
        IF n = 0 THEN s
        ELSE LET r == after[n - 1]
             IN  [toks |-> H!Delete(r.toks, list[n]), token |-> TokenDelete(r.token, Value(s.toks, list[n]))]
  IN  after[Len(list)]

Cleared == ClearToks([toks |-> H!Clear(toks), token |-> token], H!List(toks))

\* The states that ProcessNonemitting begins with.
Keys(h) == [i \in DOMAIN H!List(h) |-> h.elems[H!List(h)[i]].key]

Decode ==
  /\ at = "idle" /\ utterances < MaxUtterances
  /\ LET dummy == [ilabel |-> 0, olabel |-> 0, weight |-> 0, nextstate |-> graph.start]
     IN  /\ token' = Added(Cleared.token, [arc |-> dummy, prev |-> Null, refs |-> 1, weight |-> 0])
         /\ toks' = H!Insert(Cleared.toks, graph.start, Fresh(Cleared.token))
  /\ queue' = Keys(toks')
  /\ cutoff' = [cutoff EXCEPT !.next = Huge]
  /\ feats' \in FeatureSets /\ frame' = 0 /\ utterances' = utterances + 1
  /\ at' = "nonemitting"
  /\ UNCHANGED <<graph, opts, last, result>>

\* (mutant) the source is queued again with what it changed.
ChangedAndSource(s, state) == Append(s.changed, state)

\* The states that are queued after one was expanded.
Changed(s, state) == s.changed

\* Takes a state off the stack and expands its epsilon arcs.
PopState ==
  /\ at = "nonemitting" /\ queue # <<>>
  /\ LET state == queue[Len(queue)]
         t     == Value(toks, H!Find(toks, state))
         s0    == [toks |-> toks, token |-> token, changed |-> <<>>]
         s     == IF token[t].weight > cutoff.next THEN s0
                  ELSE EpsilonArcs(s0, t, Arcs(state))
     IN  /\ toks' = s.toks /\ token' = s.token
         /\ queue' = Front(queue) \o Changed(s, state)
  /\ UNCHANGED <<graph, opts, last, cutoff, feats, frame, at, result, utterances>>

PossiblyResizeHash(h, n) == IF n * HashRatio > h.size THEN H!SetSize(h, n * HashRatio) ELSE h

\* The list is taken from the table, c are its cut-offs and best the index of the
\* token whose arcs give the first bound.
StartPass(list, c, best) ==
  /\ toks' = PossiblyResizeHash(H!Clear(toks), Len(list))
  /\ cutoff' = [weight |-> c.weight, adaptive |-> c.adaptive,
                next |-> FirstBound(list, best, c.adaptive, frame + 1)]
  /\ last' = toks.head
  /\ at' = "emitting"
  /\ UNCHANGED <<graph, opts, token, queue, feats, frame, result, utterances>>

BeginEmitting ==
  /\ at = "nonemitting" /\ queue = <<>> /\ frame < Len(feats)
  /\ LET list == H!List(toks)
     IN  \/ opts.variant = "hlevel" /\ StartPass(list, GetCutoff(list), BestElem(list))
         \/ opts.variant = "faster" /\ StartPass(list, GetCutoffFaster(list), BestElemFaster(list))

\* Expands the emitting arcs of one token and gives its element back.
ExpandElement ==
  /\ at = "emitting" /\ last # Null
  /\ LET t  == Value(toks, last)
         s0 == [toks |-> toks, token |-> token, next |-> cutoff.next, changed |-> <<>>]
         s  == IF token[t].weight >= cutoff.weight THEN s0
               ELSE EmitArcs(s0, t, Arcs(toks.elems[last].key))
     IN  /\ toks' = H!Delete(s.toks, last)
         /\ token' = TokenDelete(s.token, t)
         /\ cutoff' = [cutoff EXCEPT !.next = s.next]
         /\ last' = s.toks.elems[last].tail
  /\ UNCHANGED <<graph, opts, queue, feats, frame, at, result, utterances>>

EndEmitting ==
  /\ at = "emitting" /\ last = Null
  /\ queue' = Keys(toks) /\ frame' = frame + 1 /\ at' = "nonemitting"
  /\ UNCHANGED <<graph, opts, toks, token, last, cutoff, feats, result, utterances>>

\* (mutant) final weights are never used.
ReachedFinalNever == FALSE

ReachedFinal == \E s \in Range(Keys(toks)) : Final(s) < Huge

\* The index of the best token of a final state, of any state when no state is
\* final, and 0 without a token.
BestToken(list) ==
  FirstLeast(DOMAIN list,
             [i \in DOMAIN list |->
                Plus(Weights(list)[i], IF ReachedFinal THEN Final(toks.elems[list[i]].key) ELSE 0)])

\* The arcs that lead to token t, each with the acoustic cost that is the rest of
\* the difference between the weights.
Traceback(t) ==
  LET path == Reverse(Back(token, t))
  IN  [i \in 1 .. Len(path) - 1 |->
         [arc |-> token[path[i + 1]].arc,
          ac  |-> token[path[i + 1]].weight - token[path[i]].weight - token[path[i + 1]].arc.weight]]

\* The weight that is returned is that of the token alone.
GetBestPath ==
  /\ at = "nonemitting" /\ queue = <<>> /\ frame = Len(feats)
  /\ LET list == H!List(toks)
         t    == Value(toks, list[BestToken(list)])
     IN  result' = IF BestToken(list) = 0 THEN [found |-> FALSE]
                   ELSE [found |-> TRUE, weight |-> token[t].weight, arcs |-> Traceback(t),
                         final |-> IF ReachedFinal THEN Final(token[t].arc.nextstate) ELSE 0]
  /\ at' = "idle"
  /\ UNCHANGED <<graph, opts, toks, token, last, cutoff, queue, feats, frame, utterances>>

Destroy ==
  /\ at = "idle" /\ utterances = MaxUtterances
  /\ toks' = Cleared.toks /\ token' = Cleared.token /\ at' = "destroyed"
  /\ UNCHANGED <<graph, opts, last, cutoff, queue, feats, frame, result, utterances>>

=============================================================================
