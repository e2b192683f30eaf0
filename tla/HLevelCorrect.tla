---------------------------- MODULE HLevelCorrect ----------------------------
(***************************************************************************)
(* What the token passing of HLevelDecoder promises: reference counts that *)
(* are exact, a hash table that finds what its list holds, and the costs   *)
(* of a dynamic-programming reference.                                     *)
(***************************************************************************)
EXTENDS DecodeFaster

VARIABLES
  viterbi,      \* the least cost of every state after `frame` frames
  best,         \* the least cost to which the tokens of the frame expand
  turn          \* alternates, so that no step leaves everything unchanged

hvars == <<vars, driverVars, viterbi, best, turn>>

-----------------------------------------------------------------------------
(* The reference *)

\* Arcs of the graph with their sources.
AllArcs == {[src |-> s, arc |-> a] : s \in States, a \in UNION {Range(Arcs(q)) : q \in States}}
GraphArcs == {x \in AllArcs : x.arc \in Range(Arcs(x.src))}

Into(s, emitting) == {x \in GraphArcs : x.arc.nextstate = s /\ Emits(x.arc) = emitting}

\* Costs after the cheapest epsilon paths, one relaxation for each state.
Closure(cost) ==
  LET Relax(c, n) == [s \in States |-> Min({c[s]} \cup {Plus(c[x.src], x.arc.weight) : x \in Into(s, FALSE)})]
  IN  FoldLeft(Relax, cost, [n \in 1 .. Cardinality(States) |-> n])

Started == Closure([s \in States |-> IF s = graph.start THEN 0 ELSE Huge])

FrameCosts(c, row) ==
  Closure([s \in States |->
             Min({Huge} \cup {Plus(c[x.src], x.arc.weight + row[x.arc.ilabel]) : x \in Into(s, TRUE)})])

\* The least cost to which the tokens below the cut-off expand.
BestExpansion(list, row, limit) ==
  Min({Huge} \cup
      UNION {{Weights(list)[i] + a.weight + row[a.ilabel] :
                a \in {b \in Range(Arcs(toks.elems[list[i]].key)) : Emits(b)}} :
             i \in {j \in DOMAIN list : Weights(list)[j] < limit}})

HInit == DriverInit /\ viterbi = [s \in States |-> Huge] /\ best = Huge /\ turn = TRUE

HNext ==
  /\ DriverNext
  /\ viterbi' = CASE at = "idle" /\ at' = "nonemitting" -> Started
                  [] frame' = frame + 1  -> FrameCosts(viterbi, feats[frame + 1])
                  [] OTHER               -> viterbi
  /\ best' = IF at = "nonemitting" /\ at' = "emitting"
               THEN BestExpansion(H!List(toks), feats[frame + 1], cutoff'.weight)
               ELSE best
  /\ turn' = ~turn

HSpec == HInit /\ [][HNext]_hvars

\* One thread, which blocks on nothing: until it is destroyed a step is enabled, so
\* this is WF_hvars(HNext) without the ENABLED.
HFairSpec == HSpec /\ ([]<>(at = "destroyed") \/ []<><<HNext>>_hvars)

-----------------------------------------------------------------------------
(* Properties *)

Held == Range(H!List(toks)) \cup (IF at = "emitting" THEN Range(H!Chain(toks, last)) ELSE {})

\* The count of a token is the number of elements that hold it and of tokens that
\* point to it, so none is leaked and none deleted while in use (HToken,
\* HTokenDelete); a destroyed decoder has none left.
RefCountsExact ==
  /\ \A t \in DOMAIN token :
       token[t].refs = Cardinality({e \in Held : toks.elems[e].val = t})
                         + Cardinality({u \in DOMAIN token : token[u].prev = t})
  /\ at = "destroyed" => token = <<>>

\* Every element is in the table, in the list the decoder walks, or freed, and in
\* one of them only (Insert, Clear, Delete while last_toks is walked).
ElementsAccounted ==
  LET freed == Range(H!Chain(toks, toks.freed))
      walked == IF at = "emitting" THEN Range(H!Chain(toks, last)) ELSE {}
      listed == Range(H!List(toks))
  IN  /\ freed \cup walked \cup listed = DOMAIN toks.elems
      /\ Cardinality(freed) + Cardinality(walked) + Cardinality(listed) = Len(toks.elems)

\* Find returns the element of the list that has the key and NULL when none has
\* it, whatever the order of insertions, collisions, clears and resizes; every
\* element holds a token of its state, as the decoder asserts.
TableFinds ==
  /\ \A key \in States :
       {e \in Range(H!List(toks)) : toks.elems[e].key = key} = {H!Find(toks, key)} \ {Null}
  /\ \A e \in Held : token[toks.elems[e].val].arc.nextstate = toks.elems[e].key

\* The tokens from the first to t.
PathTo(t) == Reverse(Back(token, t))

\* The frame in which the last emitting arc of a path of tokens was taken.
Emitted(path) == Cardinality({i \in DOMAIN path : Emits(token[path[i]].arc)})

\* The tokens behind a token are a path of the graph from its start state, its
\* weight is the weight of that path, and the tokens of the list are as many
\* frames deep as the decoder: no pruning makes a token cheaper than it is, and
\* none is left over from an earlier frame (ProcessEmitting, ProcessNonemitting).
TokenPathsAreReal ==
  at # "idle" =>
  /\ \A t \in DOMAIN token :
       LET path == PathTo(t)
           arc(i) == token[path[i]].arc
           ac(i) == IF Emits(arc(i)) THEN feats[Emitted(SubSeq(path, 1, i))][arc(i).ilabel] ELSE 0
       IN  /\ arc(1).nextstate = graph.start
           /\ \A i \in 2 .. Len(path) :
                /\ arc(i) \in Range(Arcs(arc(i - 1).nextstate))
                /\ token[path[i]].weight = token[path[i - 1]].weight + arc(i).weight + ac(i)
  /\ \A e \in Range(H!List(toks)) :
       Emitted(PathTo(Value(toks, e))) = IF at = "emitting" THEN frame + 1 ELSE frame

Unpruned == opts.beam = Huge

\* Without pruning the token of a state has the least cost of any path to it, and
\* a state without one cannot be reached (ProcessEmitting, ProcessNonemitting).
UnprunedIsViterbi ==
  Unpruned /\ at = "nonemitting" /\ queue = <<>> =>
    \A s \in States :
      LET e == H!Find(toks, s)
      IN  viterbi[s] = IF e = Null THEN Huge ELSE token[Value(toks, e)].weight

\* The pruned pass keeps the best expansion of the tokens below the cut-off,
\* though the bound is tightened while the list is walked (ProcessEmitting).
BestExpansionSurvives ==
  at = "emitting" /\ last = Null => Min({Huge} \cup Range(Weights(H!List(toks)))) = best

\* The result is a path of the graph; without pruning its cost is the least of
\* the final states, of all states when no final state was reached (GetBestPath),
\* unless partial results are refused.  Every utterance is written or failed; what
\* is written last is the path found last, aligned with each frame.
ResultIsBest ==
  /\ at = "idle" => Len(written) + numFail = utterances
  /\ at = "idle" /\ utterances > 0 /\ Unpruned =>
    LET total(s) == Plus(viterbi[s], graph.final[s])
        finals   == {s \in States : total(s) < Huge}
        least    == IF finals # {} THEN Min({total(s) : s \in finals}) ELSE Min(Range(viterbi))
    IN  IF least = Huge \/ (finals = {} /\ ~opts.allowPartial) THEN ~result.found
        ELSE /\ result.found
             /\ result.weight + result.final = least
             /\ result.weight = FoldLeft(LAMBDA c, x : c + x.arc.weight + x.ac, 0, result.arcs)
             /\ result.arcs = <<>> \/ result.arcs[1].arc \in Range(Arcs(graph.start))
             /\ written[Len(written)] = Record(result.arcs)
             /\ Len(written[Len(written)].alignment) = Len(feats)

\* Every utterance is decoded to the end when the graph has no epsilon cycle of
\* negative weight.
UtterancesEnd == at \in {"nonemitting", "emitting"} ~> at = "idle"
=============================================================================
