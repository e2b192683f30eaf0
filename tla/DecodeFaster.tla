---------------------------- MODULE DecodeFaster ----------------------------
(***************************************************************************)
(* kaldibin/decode-faster-arcexpand.cc: one decoder is used for all the    *)
(* utterances of a table; each ends in a record of words (and one of their *)
(* alignment) or is counted as failed.  opts.allowPartial is the option    *)
(* --allow-partial.                                                        *)
(***************************************************************************)
EXTENDS HLevelDecoder

VARIABLES
  written,   \* words_writer and alignment_writer
  numFail    \* num_fail; num_success is Len(written)

driverVars == <<written, numFail>>

\* A table may hold utterances without rows, which are never decoded.
SkipEmpty ==
  /\ at = "idle" /\ utterances < MaxUtterances
  /\ numFail' = numFail + 1 /\ utterances' = utterances + 1
  /\ UNCHANGED <<graph, opts, toks, token, last, cutoff, queue, feats, frame, at, result, written>>

\* GetLinearSymbolSequence
Nonzero(labels) == SelectSeq(labels, LAMBDA l : l # 0)
Record(arcs) ==
  [words     |-> Nonzero([i \in DOMAIN arcs |-> arcs[i].arc.olabel]),
   alignment |-> Nonzero([i \in DOMAIN arcs |-> arcs[i].arc.ilabel])]

\* The traceback is not asked for: what an utterance left is refused.
Refuse ==
  /\ at = "nonemitting" /\ queue = <<>> /\ frame = Len(feats)
  /\ result' = [found |-> FALSE] /\ at' = "idle"
  /\ UNCHANGED <<graph, opts, toks, token, last, cutoff, queue, feats, frame, utterances>>

EndUtterance ==
  /\ IF opts.allowPartial \/ ReachedFinal THEN GetBestPath ELSE Refuse
  /\ IF result'.found THEN written' = Append(written, Record(result'.arcs)) /\ UNCHANGED numFail
     ELSE numFail' = numFail + 1 /\ UNCHANGED written

DriverInit == Init /\ written = <<>> /\ numFail = 0

DriverNext ==
  \/ SkipEmpty
  \/ EndUtterance
  \/ (Decode \/ PopState \/ BeginEmitting \/ ExpandElement \/ EndEmitting \/ Destroy)
     /\ UNCHANGED driverVars
=============================================================================
