------------------------------- MODULE ArcTypes -------------------------------
(***************************************************************************)
(* The arc types: one small acceptor for each input label of the search    *)
(* network, made from a Kaldi model (kaldibin/make-arc-types.cc), written  *)
(* to a file and read back, with its weights scaled (dcd/utils.h).         *)
(*                                                                         *)
(* An acceptor is [numStates, arcs]; its states are 0 .. numStates - 1,    *)
(* the first is the start, the last is final, and arcs is the sequence of  *)
(* [from, to, weight, label] in the order of the states they leave.        *)
(***************************************************************************)
EXTENDS Integers, FiniteSets, SequencesExt

CONSTANTS
  IlabelInfos,      \* the label tables: sequences of phone windows, <<>> (epsilon) first
  CentralPosition,  \* of a window, from 0
  Topology,         \* phone -> sequence of [pdfClass, transitions]
  Compute,          \* window -> pdf class -> pdf (ContextDependency::Compute)
  TransitionId,     \* phone, HMM state, pdf, transition -> transition id
  TransitionCost,   \* transition id -> -log probability
  NumTransitionIds,
  Options,          \* [logical2physical, use_trans_ids, type]
  Scales            \* the factors a reader asks for

Phone(window) == window[CentralPosition + 1]
IsDisambiguation(window) == Len(window) = 1 /\ window[1] <= 0

ASSUME ArcTypesAssumption ==
  /\ \A info \in IlabelInfos : info \in Seq(ToSet(info)) /\ Len(info) >= 1 /\ info[1] = <<>>
  /\ \A info \in IlabelInfos : \A i \in 2 .. Len(info) :
       IsDisambiguation(info[i]) \/ Phone(info[i]) \in DOMAIN Topology
  /\ \A phone \in DOMAIN Topology :
       LET entry == Topology[phone]
       IN  /\ entry \in Seq(ToSet(entry)) /\ Len(entry) > 1
           /\ \A s \in DOMAIN entry :
                /\ entry[s].transitions \in Seq(ToSet(entry[s].transitions))
                /\ \A t \in ToSet(entry[s].transitions) : t.state \in 0 .. Len(entry) - 1

VARIABLES
  ilabel_info,       \* the table this run was given
  opts,
  made,              \* "making", "written", "read" or "failed"
  fsts,              \* label -> acceptor, the first of label 0
  log2phys,          \* label -> label, the first of label 0
  log2physmap,       \* {<<phone, pdfs>>, label} of the acceptors that may be shared
  disambig_syms,
  arcs,              \* what the reader has: a sequence of acceptors as fsts
  scale

typeVars == <<ilabel_info, opts, made, fsts, log2phys, log2physmap, disambig_syms, arcs, scale>>

NoPdf == -1

Acceptor(n, sequence) == [numStates |-> n, arcs |-> sequence]
Line(label) == Acceptor(2, <<[from |-> 0, to |-> 1, weight |-> 0, label |-> label]>>)
Epsilon == Line(0)

Entry(window) == Topology[Phone(window)]

\* A transition of an HMM as an arc: labels are pdfs (from 1) or transition ids.
HmmArc(window, useTransIds, s, k) ==
  LET t        == Entry(window)[s].transitions[k]
      class    == Entry(window)[s].pdfClass
      pdf      == Compute[window][class]
      id       == TransitionId[<<Phone(window), s - 1, pdf, k>>]
      emitting == class # NoPdf
  IN  [from   |-> s - 1,
       to     |-> t.state,
       weight |-> IF emitting THEN TransitionCost[id] ELSE t.cost,
       label  |-> IF ~emitting THEN 0 ELSE IF useTransIds THEN id ELSE pdf + 1]

\* The HMM of a window with its self-loops.
GetHmmAsFstWithLoops(window, useTransIds) ==
  Acceptor(Len(Entry(window)),
           FlattenSeq([s \in DOMAIN Entry(window) |->
                         [k \in DOMAIN Entry(window)[s].transitions |->
                            HmmArc(window, useTransIds, s, k)]]))

\* The pdfs a window gives the states of its phone.
Pdfs(window) ==
  [class \in {Entry(window)[s].pdfClass : s \in DOMAIN Entry(window)} \ {NoPdf} |->
     Compute[window][class]]

\* Mutant: only the pdfs are compared.
PdfsOnly(window) == <<0, Pdfs(window)>>

\* What two windows must agree in to share an acceptor.
CacheIndex(window) == <<Phone(window), Pdfs(window)>>

TypesInit ==
  /\ ilabel_info \in IlabelInfos
  /\ opts \in Options
  /\ made = "making"
  /\ fsts = <<Epsilon>>
  /\ log2phys = <<0>>
  /\ log2physmap = {}
  /\ disambig_syms = <<>>
  /\ arcs = <<>>
  /\ scale = 1

Window == ilabel_info[Len(log2phys) + 1]
More == made = "making" /\ Len(log2phys) < Len(ilabel_info)
Shared == {entry \in log2physmap : entry[1] = CacheIndex(Window)}

Disambiguation ==
  /\ More /\ IsDisambiguation(Window)
  /\ LET symbol == NumTransitionIds + 1 + Len(disambig_syms)
     IN  /\ disambig_syms' = Append(disambig_syms, symbol)
         /\ fsts' = Append(fsts, Line(symbol))
  /\ log2phys' = Append(log2phys, 0)
  /\ UNCHANGED <<ilabel_info, opts, made, log2physmap, arcs, scale>>

Share ==
  /\ More /\ ~IsDisambiguation(Window) /\ Shared # {}
  /\ \E entry \in Shared : log2phys' = Append(log2phys, entry[2])
  /\ UNCHANGED <<ilabel_info, opts, made, fsts, log2physmap, disambig_syms, arcs, scale>>

MakeHmm ==
  /\ More /\ ~IsDisambiguation(Window) /\ Shared = {}
  /\ fsts' = Append(fsts, GetHmmAsFstWithLoops(Window, opts.use_trans_ids))
  /\ log2phys' = Append(log2phys, Len(fsts))
  /\ log2physmap' = IF opts.logical2physical
                    THEN log2physmap \cup {<<CacheIndex(Window), Len(fsts)>>} ELSE log2physmap
  /\ UNCHANGED <<ilabel_info, opts, made, disambig_syms, arcs, scale>>

\* The writer for FARs writes nothing, and nobody looks at what it returns.
WriteArcTypes ==
  /\ made = "making" /\ Len(log2phys) = Len(ilabel_info)
  /\ made' = IF opts.type = "fsts" THEN "written" ELSE "failed"
  /\ UNCHANGED <<ilabel_info, opts, fsts, log2phys, log2physmap, disambig_syms, arcs, scale>>

ScaledArc(arc, factor) == [arc EXCEPT !.weight = @ * factor]
Scaled(fst, factor) == [fst EXCEPT !.arcs = [k \in DOMAIN @ |-> ScaledArc(@[k], factor)]]

ReadFstArcTypes ==
  /\ made = "written"
  /\ scale' \in Scales
  /\ arcs' = [i \in DOMAIN fsts |-> Scaled(fsts[i], scale')]
  /\ made' = "read"
  /\ UNCHANGED <<ilabel_info, opts, fsts, log2phys, log2physmap, disambig_syms>>

MakeArcTypes == Disambiguation \/ Share \/ MakeHmm \/ WriteArcTypes \/ ReadFstArcTypes
-----------------------------------------------------------------------------
\* The network is relabelled with the table if one was written (the argument that
\* names the table is what turns sharing on); else labels are used as they are.
PhysicalLabel(label) == IF opts.logical2physical THEN log2phys[label + 1] ELSE label

\* What a label stands for: an epsilon transition (TRUE) or the HMM of its window.
IsEpsilonLabel(label) == label = 0 \/ IsDisambiguation(ilabel_info[label + 1])
AsRead(fst) == IF made = "read" THEN Scaled(fst, scale) ELSE fst
HmmOf(label) == AsRead(GetHmmAsFstWithLoops(ilabel_info[label + 1], opts.use_trans_ids))

(***************************************************************************)
(* Nobody can tell a shared acceptor: whether the network is relabelled    *)
(* (log2phys, make-arc-types.cc:210) or used as it is, each label made so  *)
(* far leads to the HMM of its own window, and the labels of epsilon and   *)
(* of the disambiguation symbols lead to two states, which the readers     *)
(* take for an epsilon transition.                                         *)
(***************************************************************************)
SharingIsInvisible ==
  made # "failed" =>
    LET table == IF made = "read" THEN arcs ELSE fsts
    IN  \A label \in 0 .. Len(log2phys) - 1 :
          LET fst == table[PhysicalLabel(label) + 1]
          IN  IF IsEpsilonLabel(label) THEN fst.numStates = 2 ELSE fst = HmmOf(label)
=============================================================================
