-------------------------- MODULE SearchGraphProofs --------------------------
(***************************************************************************)
(* Sharing acceptors is invisible for every topology, every context        *)
(* dependency and every label table: what the cache compares (a phone and  *)
(* the pdfs its windows give it) is all an acceptor is made from.  And a   *)
(* network expanded on demand has the arcs of the network expanded at once.*)
(***************************************************************************)
EXTENDS SearchGraph, FiniteSetTheorems, SequenceTheorems, WellFoundedInduction, TLAPS


Hmm(label) == GetHmmAsFstWithLoops(ilabel_info[label + 1], opts.use_trans_ids)

-----------------------------------------------------------------------------
(* The inductive invariant *)

Labels == 0 .. Len(log2phys) - 1

\* What an acceptor of the table stands for, before it is scaled.
Means(fst, label) ==
  IF IsEpsilonLabel(label) THEN \E symbol : fst = Line(symbol) ELSE fst = Hmm(label)

TablesInv ==
  /\ \E S : fsts \in Seq(S)
  /\ Len(fsts) >= 1 /\ fsts[1] = Epsilon
  /\ log2phys \in Seq(Nat) /\ Len(log2phys) >= 1

\* A label leads to an acceptor of the table that stands for it.
LabelsInv ==
  \A label \in Labels :
    /\ PhysicalLabel(label) \in 0 .. Len(fsts) - 1
    /\ Means(fsts[PhysicalLabel(label) + 1], label)

\* What may be shared was made from a window with the same index.
SharedInv ==
  \A entry \in log2physmap :
    /\ entry[2] \in 0 .. Len(fsts) - 1
    /\ \E window : /\ entry[1] = CacheIndex(window)
                   /\ fsts[entry[2] + 1] = GetHmmAsFstWithLoops(window, opts.use_trans_ids)

\* Without sharing every label has an acceptor of its own.
UnsharedInv ==
  ~opts.logical2physical => Len(fsts) = Len(log2phys) /\ log2physmap = {}

ReadInv ==
  made = "read" => arcs = [i \in DOMAIN fsts |-> Scaled(fsts[i], scale)]

SharingInv == TablesInv /\ LabelsInv /\ SharedInv /\ UnsharedInv /\ ReadInv

-----------------------------------------------------------------------------
(* Lemmas *)

\* A window's acceptor is made from its phone and its pdfs, and from nothing else.
LEMMA SameIndexSameHmm ==
  ASSUME NEW v, NEW w, NEW u, CacheIndex(v) = CacheIndex(w)
  PROVE  GetHmmAsFstWithLoops(v, u) = GetHmmAsFstWithLoops(w, u)
<1>1. Phone(v) = Phone(w) /\ Pdfs(v) = Pdfs(w)
  BY DEF CacheIndex
<1>2. Entry(v) = Entry(w)
  BY <1>1 DEF Entry
<1>3. ASSUME NEW s \in DOMAIN Entry(v), NEW k \in DOMAIN Entry(v)[s].transitions
      PROVE  HmmArc(v, u, s, k) = HmmArc(w, u, s, k)
  <2>1. CASE Entry(v)[s].pdfClass = NoPdf
    BY <1>1, <1>2, <2>1 DEF HmmArc
  <2>2. CASE Entry(v)[s].pdfClass # NoPdf
    <3> DEFINE class == Entry(v)[s].pdfClass
               classes(x) == {Entry(x)[r].pdfClass : r \in DOMAIN Entry(x)} \ {NoPdf}
    <3>1. class \in classes(v) /\ class \in classes(w)
      BY <1>2, <2>2
    <3>2. Pdfs(v)[class] = Compute[v][class] /\ Pdfs(w)[class] = Compute[w][class]
      BY <3>1 DEF Pdfs
    <3>3. Compute[v][class] = Compute[w][class]
      BY <1>1, <3>2
    <3>4. QED
      BY <1>1, <1>2, <3>3 DEF HmmArc
  <2>3. QED
    BY <2>1, <2>2
<1> DEFINE Lists(x) == [s \in DOMAIN Entry(x) |->
                          [k \in DOMAIN Entry(x)[s].transitions |-> HmmArc(x, u, s, k)]]
<1>4. Lists(v) = Lists(w)
  BY <1>2, <1>3
<1>5. /\ GetHmmAsFstWithLoops(v, u) = Acceptor(Len(Entry(v)), FlattenSeq(Lists(v)))
      /\ GetHmmAsFstWithLoops(w, u) = Acceptor(Len(Entry(w)), FlattenSeq(Lists(w)))
  BY DEF GetHmmAsFstWithLoops
<1>6. QED
  BY <1>2, <1>4, <1>5

LEMMA Appended ==
  ASSUME NEW seq, \E S : seq \in Seq(S), NEW e
  PROVE  /\ \E S : Append(seq, e) \in Seq(S)
         /\ Len(seq) \in Nat /\ Len(Append(seq, e)) = Len(seq) + 1
         /\ \A i \in 1 .. Len(seq) : Append(seq, e)[i] = seq[i]
         /\ Append(seq, e)[Len(seq) + 1] = e
<1>1. PICK S : seq \in Seq(S)
  OBVIOUS
<1>2. seq \in Seq(S \cup {e})
  BY <1>1
<1>3. Append(seq, e) \in Seq(S \cup {e})
  BY <1>2
<1>4. QED
  BY <1>2, <1>3

IsSequence(s) == \E S : s \in Seq(S)

LEMMA AppendedTo ==
  ASSUME NEW seq, IsSequence(seq), NEW e, NEW t, t = Append(seq, e)
  PROVE  /\ IsSequence(t)
         /\ Len(seq) \in Nat /\ Len(t) = Len(seq) + 1
         /\ \A i \in 1 .. Len(seq) : t[i] = seq[i]
         /\ t[Len(seq) + 1] = e
<1>1. PICK S : seq \in Seq(S)
  BY DEF IsSequence
<1>2. seq \in Seq(S \cup {e})
  BY <1>1
<1>3. t \in Seq(S \cup {e})
  BY <1>2
<1>4. IsSequence(t)
  BY <1>3 DEF IsSequence
<1>5. QED
  BY <1>2, <1>4

-----------------------------------------------------------------------------
(* Steps *)

LEMMA InitSharing == TypesInit => SharingInv
<1> SUFFICES ASSUME TypesInit PROVE SharingInv
  OBVIOUS
<1>1. fsts = <<Epsilon>> /\ log2phys = <<0>> /\ log2physmap = {} /\ made = "making"
  BY DEF TypesInit
<1>2. fsts \in Seq({Epsilon}) /\ log2phys \in Seq(Nat)
      /\ Len(fsts) = 1 /\ Len(log2phys) = 1 /\ fsts[1] = Epsilon /\ log2phys[1] = 0
  BY <1>1
<1>3. TablesInv
  BY <1>2 DEF TablesInv
<1>4. LabelsInv
  <2>1. ASSUME NEW label \in Labels
        PROVE  label = 0 /\ PhysicalLabel(label) = 0
    <3>1. label = 0
      BY <1>2 DEF Labels
    <3>2. QED
      BY <1>2, <3>1 DEF PhysicalLabel
  <2>2. Means(fsts[1], 0)
    <3>1. fsts[1] = Line(0)
      BY <1>2 DEF Epsilon
    <3>2. IsEpsilonLabel(0)
      BY DEF IsEpsilonLabel
    <3>3. QED
      BY <3>1, <3>2 DEF Means
  <2>3. ASSUME NEW label \in Labels
        PROVE  /\ PhysicalLabel(label) \in 0 .. Len(fsts) - 1
               /\ Means(fsts[PhysicalLabel(label) + 1], label)
    <3>1. label = 0 /\ PhysicalLabel(label) = 0 /\ PhysicalLabel(label) + 1 = 1
      BY <2>1
    <3>2. QED
      BY <1>2, <2>2, <3>1
  <2>4. QED
    BY <2>3 DEF LabelsInv
<1>5. SharedInv /\ UnsharedInv /\ ReadInv
  BY <1>1, <1>2 DEF SharedInv, UnsharedInv, ReadInv
<1>6. QED
  BY <1>3, <1>4, <1>5 DEF SharingInv

\* A label more: those before it keep their meaning if the old acceptors stay.
LEMMA OneLabelMore ==
  ASSUME TablesInv, LabelsInv, NEW last, last = Len(log2phys), NEW n,
         ilabel_info' = ilabel_info, opts' = opts,
         log2phys' = Append(log2phys, n),
         Len(fsts') \in Nat, Len(fsts) <= Len(fsts'),
         \A i \in 1 .. Len(fsts) : fsts'[i] = fsts[i],
         PhysicalLabel(last)' \in 0 .. Len(fsts') - 1,
         Means(fsts[PhysicalLabel(last) + 1], last)'
  PROVE  LabelsInv'
<1>1. /\ Len(log2phys) \in Nat /\ Len(fsts) \in Nat
      /\ Len(log2phys') = Len(log2phys) + 1
      /\ \A i \in 1 .. Len(log2phys) : log2phys'[i] = log2phys[i]
  BY Appended DEF TablesInv
<1>2. ASSUME NEW label \in Labels'
      PROVE  /\ PhysicalLabel(label)' \in 0 .. Len(fsts') - 1
             /\ Means(fsts[PhysicalLabel(label) + 1], label)'
  <2>1. CASE label = last
    BY <2>1
  <2>2. CASE label # last
    <3>1. label \in Labels /\ label + 1 \in 1 .. Len(log2phys)
      BY <1>1, <2>2 DEF Labels
    <3>2. PhysicalLabel(label)' = PhysicalLabel(label)
      BY <1>1, <3>1 DEF PhysicalLabel
    <3>3. /\ PhysicalLabel(label) \in 0 .. Len(fsts) - 1
          /\ Means(fsts[PhysicalLabel(label) + 1], label)
      BY <3>1 DEF LabelsInv
    <3>4. fsts'[PhysicalLabel(label)' + 1] = fsts[PhysicalLabel(label) + 1]
      <4>1. PhysicalLabel(label) + 1 \in 1 .. Len(fsts)
        BY <1>1, <3>3
      <4>2. QED
        BY <3>2, <4>1
    <3>5. Means(fsts[PhysicalLabel(label) + 1], label)'
      BY <3>3, <3>4 DEF Means, IsEpsilonLabel, Hmm
    <3>6. QED
      BY <1>1, <3>2, <3>3, <3>5
  <2>3. QED
    BY <2>1, <2>2
<1>3. QED
  BY <1>2 DEF LabelsInv

LEMMA DisambiguationKeeps ==
  ASSUME SharingInv, Disambiguation PROVE SharingInv'
<1>1. TablesInv /\ LabelsInv /\ SharedInv /\ UnsharedInv
  BY DEF SharingInv
<1>2. PICK symbol : fsts' = Append(fsts, Line(symbol))
  BY DEF Disambiguation
<1>3. /\ log2phys' = Append(log2phys, 0)
      /\ ilabel_info' = ilabel_info /\ opts' = opts /\ made' = made
      /\ log2physmap' = log2physmap
      /\ made = "making" /\ IsDisambiguation(Window)
  BY DEF Disambiguation, More
<1>4. PICK last : last = Len(log2phys)
  OBVIOUS
<1>5. /\ Len(fsts) \in Nat /\ last \in Nat /\ last >= 1
      /\ Len(fsts') = Len(fsts) + 1 /\ (\E S : fsts' \in Seq(S))
      /\ (\A i \in 1 .. Len(fsts) : fsts'[i] = fsts[i])
      /\ fsts'[Len(fsts) + 1] = Line(symbol)
  <2>1. (\E S : fsts \in Seq(S)) /\ log2phys \in Seq(Nat) /\ Len(log2phys) >= 1
    BY <1>1 DEF TablesInv
  <2>2. /\ Len(fsts) \in Nat /\ Len(fsts') = Len(fsts) + 1 /\ (\E S : fsts' \in Seq(S))
        /\ (\A i \in 1 .. Len(fsts) : fsts'[i] = fsts[i])
        /\ fsts'[Len(fsts) + 1] = Line(symbol)
    <3>1. PICK t, e : t = Append(fsts, e) /\ e = Line(symbol)
      OBVIOUS
    <3>2. IsSequence(fsts)
      BY <2>1 DEF IsSequence
    <3>3. /\ Len(fsts) \in Nat /\ Len(t) = Len(fsts) + 1 /\ IsSequence(t)
          /\ (\A i \in 1 .. Len(fsts) : t[i] = fsts[i])
          /\ t[Len(fsts) + 1] = e
      <4>1. Len(fsts) \in Nat /\ Len(t) = Len(fsts) + 1
        BY <3>1, <3>2, AppendedTo
      <4>2. IsSequence(t)
        BY <3>1, <3>2, AppendedTo
      <4>3. \A i \in 1 .. Len(fsts) : t[i] = fsts[i]
        BY <3>1, <3>2, AppendedTo
      <4>4. t[Len(fsts) + 1] = e
        BY <3>1, <3>2, AppendedTo
      <4>5. QED
        BY <4>1, <4>2, <4>3, <4>4
    <3>4. fsts' = t
      BY <1>2, <3>1
    <3>5. QED
      BY <3>1, <3>3, <3>4 DEF IsSequence
  <2>3. last \in Nat /\ last >= 1
    BY <1>4, <2>1
  <2>4. QED
    BY <2>2, <2>3
<1>6. /\ log2phys' \in Seq(Nat) /\ Len(log2phys') = last + 1
      /\ log2phys'[last + 1] = 0
  BY <1>1, <1>3, <1>4 DEF TablesInv
<1>7. TablesInv'
  BY <1>1, <1>5, <1>6 DEF TablesInv
<1>8. LabelsInv'
  <2>1. IsEpsilonLabel(last)'
    BY <1>3, <1>4 DEF IsEpsilonLabel, Window
  <2>2. CASE opts.logical2physical
    <3>1. PhysicalLabel(last)' = 0
      BY <1>3, <1>6, <2>2 DEF PhysicalLabel
    <3>2. fsts'[1] = Line(0)
      BY <1>1, <1>5 DEF TablesInv, Epsilon
    <3>3. Means(fsts[PhysicalLabel(last) + 1], last)'
      BY <2>1, <3>1, <3>2 DEF Means
    <3>4. QED
      BY <1>1, <1>3, <1>4, <1>5, <3>1, <3>3, OneLabelMore
  <2>3. CASE ~opts.logical2physical
    <3>1. PhysicalLabel(last)' = Len(fsts)
      BY <1>1, <1>3, <1>4, <2>3 DEF PhysicalLabel, UnsharedInv
    <3>2. Means(fsts[PhysicalLabel(last) + 1], last)'
      BY <1>5, <2>1, <3>1 DEF Means
    <3>3. QED
      BY <1>1, <1>3, <1>4, <1>5, <3>1, <3>2, OneLabelMore
  <2>4. QED
    BY <2>2, <2>3
<1>9. SharedInv'
  BY <1>1, <1>3, <1>5 DEF SharedInv
<1>10. UnsharedInv' /\ ReadInv'
  BY <1>1, <1>3, <1>4, <1>5, <1>6 DEF UnsharedInv, ReadInv
<1>11. QED
  BY <1>7, <1>8, <1>9, <1>10 DEF SharingInv

LEMMA ShareKeeps ==
  ASSUME SharingInv, Share PROVE SharingInv'
<1>1. TablesInv /\ LabelsInv /\ SharedInv /\ UnsharedInv
  BY DEF SharingInv
<1>2. PICK entry \in Shared : log2phys' = Append(log2phys, entry[2])
  BY DEF Share
<1>3. /\ ilabel_info' = ilabel_info /\ opts' = opts /\ made' = made
      /\ fsts' = fsts /\ log2physmap' = log2physmap
      /\ made = "making" /\ ~IsDisambiguation(Window)
  BY DEF Share, More
<1>4. entry \in log2physmap /\ entry[1] = CacheIndex(Window)
  BY DEF Shared
<1>5. PICK window : /\ entry[1] = CacheIndex(window)
                    /\ fsts[entry[2] + 1] = GetHmmAsFstWithLoops(window, opts.use_trans_ids)
  BY <1>1, <1>4 DEF SharedInv
<1>6. fsts[entry[2] + 1] = GetHmmAsFstWithLoops(Window, opts.use_trans_ids)
  <2>1. CacheIndex(window) = CacheIndex(Window)
    BY <1>4, <1>5
  <2>2. GetHmmAsFstWithLoops(window, opts.use_trans_ids)
          = GetHmmAsFstWithLoops(Window, opts.use_trans_ids)
    BY <2>1, SameIndexSameHmm
  <2>3. QED
    BY <1>5, <2>2
<1>7. PICK last : last = Len(log2phys)
  OBVIOUS
<1>8. Len(fsts) \in Nat /\ entry[2] \in 0 .. Len(fsts) - 1 /\ entry[2] \in Nat
  BY <1>1, <1>4 DEF SharedInv, TablesInv
<1>9. /\ last \in Nat /\ last >= 1
      /\ log2phys' \in Seq(Nat) /\ Len(log2phys') = last + 1
      /\ log2phys'[last + 1] = entry[2]
  BY <1>1, <1>2, <1>7, <1>8 DEF TablesInv
<1>10. opts.logical2physical
  BY <1>1, <1>4 DEF UnsharedInv
<1>11. TablesInv'
  BY <1>1, <1>3, <1>9 DEF TablesInv
<1>12. LabelsInv'
  <2>1. PhysicalLabel(last)' = entry[2]
    BY <1>3, <1>9, <1>10 DEF PhysicalLabel
  <2>2. ~IsEpsilonLabel(last)'
    BY <1>3, <1>7, <1>9 DEF IsEpsilonLabel, Window
  <2>3. Hmm(last)' = GetHmmAsFstWithLoops(Window, opts.use_trans_ids)
    BY <1>3, <1>7 DEF Hmm, Window
  <2>4. Means(fsts[PhysicalLabel(last) + 1], last)'
    BY <1>3, <1>6, <2>1, <2>2, <2>3 DEF Means
  <2>5. QED
    BY <1>1, <1>2, <1>3, <1>7, <1>8, <2>1, <2>4, OneLabelMore
<1>13. SharedInv' /\ UnsharedInv' /\ ReadInv'
  BY <1>1, <1>3, <1>10 DEF SharedInv, UnsharedInv, ReadInv
<1>14. QED
  BY <1>11, <1>12, <1>13 DEF SharingInv

LEMMA MakeHmmKeeps ==
  ASSUME SharingInv, MakeHmm PROVE SharingInv'
<1>1. TablesInv /\ LabelsInv /\ SharedInv /\ UnsharedInv
  BY DEF SharingInv
<1>2. PICK acceptor : acceptor = GetHmmAsFstWithLoops(Window, opts.use_trans_ids)
  OBVIOUS
<1>3. PICK last : last = Len(log2phys)
  OBVIOUS
<1>4. /\ fsts' = Append(fsts, acceptor)
      /\ log2phys' = Append(log2phys, Len(fsts))
      /\ log2physmap' = IF opts.logical2physical
                        THEN log2physmap \cup {<<CacheIndex(Window), Len(fsts)>>} ELSE log2physmap
      /\ ilabel_info' = ilabel_info /\ opts' = opts /\ made' = made
      /\ made = "making" /\ ~IsDisambiguation(Window)
  BY <1>2 DEF MakeHmm, More
<1>5. /\ Len(fsts) \in Nat /\ last \in Nat /\ last >= 1
      /\ Len(fsts') = Len(fsts) + 1 /\ (\E S : fsts' \in Seq(S))
      /\ (\A i \in 1 .. Len(fsts) : fsts'[i] = fsts[i])
      /\ fsts'[Len(fsts) + 1] = acceptor
  <2>1. (\E S : fsts \in Seq(S)) /\ log2phys \in Seq(Nat) /\ Len(log2phys) >= 1
    BY <1>1 DEF TablesInv
  <2>2. /\ Len(fsts) \in Nat /\ Len(fsts') = Len(fsts) + 1 /\ (\E S : fsts' \in Seq(S))
        /\ (\A i \in 1 .. Len(fsts) : fsts'[i] = fsts[i])
        /\ fsts'[Len(fsts) + 1] = acceptor
    <3>1. PICK t, e : t = Append(fsts, e) /\ e = acceptor
      OBVIOUS
    <3>2. IsSequence(fsts)
      BY <2>1 DEF IsSequence
    <3>3. /\ Len(fsts) \in Nat /\ Len(t) = Len(fsts) + 1 /\ IsSequence(t)
          /\ (\A i \in 1 .. Len(fsts) : t[i] = fsts[i])
          /\ t[Len(fsts) + 1] = e
      <4>1. Len(fsts) \in Nat /\ Len(t) = Len(fsts) + 1
        BY <3>1, <3>2, AppendedTo
      <4>2. IsSequence(t)
        BY <3>1, <3>2, AppendedTo
      <4>3. \A i \in 1 .. Len(fsts) : t[i] = fsts[i]
        BY <3>1, <3>2, AppendedTo
      <4>4. t[Len(fsts) + 1] = e
        BY <3>1, <3>2, AppendedTo
      <4>5. QED
        BY <4>1, <4>2, <4>3, <4>4
    <3>4. fsts' = t
      BY <1>4, <3>1
    <3>5. QED
      BY <3>1, <3>3, <3>4 DEF IsSequence
  <2>3. last \in Nat /\ last >= 1
    BY <1>3, <2>1
  <2>4. QED
    BY <2>2, <2>3
<1>6. /\ log2phys' \in Seq(Nat) /\ Len(log2phys') = last + 1
      /\ log2phys'[last + 1] = Len(fsts)
  BY <1>1, <1>3, <1>4, <1>5 DEF TablesInv
<1>7. TablesInv'
  BY <1>1, <1>5, <1>6 DEF TablesInv
<1>8. LabelsInv'
  <2>1. PhysicalLabel(last)' = Len(fsts)
    BY <1>1, <1>3, <1>4, <1>6 DEF PhysicalLabel, UnsharedInv
  <2>2. ~IsEpsilonLabel(last)'
    BY <1>3, <1>4, <1>5 DEF IsEpsilonLabel, Window
  <2>3. Hmm(last)' = acceptor
    BY <1>2, <1>3, <1>4 DEF Hmm, Window
  <2>4. Means(fsts[PhysicalLabel(last) + 1], last)'
    BY <1>5, <2>1, <2>2, <2>3 DEF Means
  <2>5. QED
    BY <1>1, <1>3, <1>4, <1>5, <2>1, <2>4, OneLabelMore
<1>9. SharedInv'
  <2> SUFFICES ASSUME NEW entry \in log2physmap'
               PROVE  /\ entry[2] \in 0 .. Len(fsts') - 1
                      /\ \E window :
                           /\ entry[1] = CacheIndex(window)
                           /\ fsts'[entry[2] + 1] = GetHmmAsFstWithLoops(window, opts.use_trans_ids)
    BY <1>4 DEF SharedInv
  <2>1. CASE entry \in log2physmap
    BY <1>1, <1>5, <2>1 DEF SharedInv
  <2>2. CASE entry = <<CacheIndex(Window), Len(fsts)>>
    BY <1>2, <1>5, <2>2
  <2>3. QED
    BY <1>4, <2>1, <2>2
<1>10. UnsharedInv' /\ ReadInv'
  BY <1>1, <1>3, <1>4, <1>5, <1>6 DEF UnsharedInv, ReadInv
<1>11. QED
  BY <1>7, <1>8, <1>9, <1>10 DEF SharingInv

LEMMA NothingMadeKeeps ==
  ASSUME SharingInv, UNCHANGED <<ilabel_info, opts, fsts, log2phys, log2physmap>>, ReadInv'
  PROVE  SharingInv'
<1>1. TablesInv' /\ SharedInv' /\ UnsharedInv'
  BY DEF SharingInv, TablesInv, SharedInv, UnsharedInv
<1>2. LabelsInv'
  BY DEF SharingInv, LabelsInv, Labels, PhysicalLabel, Means, IsEpsilonLabel, Hmm
<1>3. QED
  BY <1>1, <1>2 DEF SharingInv

LEMMA StepKeepsSharing ==
  ASSUME SharingInv, [MakeArcTypes]_typeVars PROVE SharingInv'
<1>1. CASE Disambiguation
  BY <1>1, DisambiguationKeeps
<1>2. CASE Share
  BY <1>2, ShareKeeps
<1>3. CASE MakeHmm
  BY <1>3, MakeHmmKeeps
<1>4. CASE WriteArcTypes
  <2>1. ReadInv'
    BY <1>4 DEF WriteArcTypes, ReadInv
  <2>2. QED
    BY <1>4, <2>1, NothingMadeKeeps DEF WriteArcTypes
<1>5. CASE ReadFstArcTypes
  <2>1. ReadInv'
    BY <1>5 DEF ReadFstArcTypes, ReadInv
  <2>2. QED
    BY <1>5, <2>1, NothingMadeKeeps DEF ReadFstArcTypes
<1>6. CASE UNCHANGED typeVars
  <2>1. ReadInv'
    BY <1>6 DEF typeVars, SharingInv, ReadInv
  <2>2. QED
    BY <1>6, <2>1, NothingMadeKeeps DEF typeVars
<1>7. QED
  BY <1>1, <1>2, <1>3, <1>4, <1>5, <1>6 DEF MakeArcTypes

-----------------------------------------------------------------------------
(* Scaling an acceptor changes neither its number of states nor what it stands for. *)
LEMMA InvisibleIfShared == SharingInv => SharingIsInvisible
<1> SUFFICES ASSUME SharingInv, made # "failed", NEW label \in Labels
             PROVE  LET table == IF made = "read" THEN arcs ELSE fsts
                        fst == table[PhysicalLabel(label) + 1]
                    IN  IF IsEpsilonLabel(label) THEN fst.numStates = 2 ELSE fst = HmmOf(label)
  BY DEF SharingIsInvisible, Labels
<1>1. /\ PhysicalLabel(label) \in 0 .. Len(fsts) - 1
      /\ Means(fsts[PhysicalLabel(label) + 1], label)
  BY DEF SharingInv, LabelsInv
<1>2. PhysicalLabel(label) + 1 \in DOMAIN fsts
  BY <1>1 DEF SharingInv, TablesInv
<1> DEFINE table == IF made = "read" THEN arcs ELSE fsts
           fst   == fsts[PhysicalLabel(label) + 1]
<1>3. table[PhysicalLabel(label) + 1] = AsRead(fst)
  BY <1>2 DEF SharingInv, ReadInv, AsRead
<1>4. CASE IsEpsilonLabel(label)
  <2>1. PICK symbol : fst = Line(symbol)
    BY <1>1, <1>4 DEF Means
  <2>2. AsRead(fst).numStates = 2
    BY <2>1 DEF AsRead, Scaled, Line, Acceptor
  <2>3. QED
    BY <1>3, <1>4, <2>2
<1>5. CASE ~IsEpsilonLabel(label)
  <2>1. fst = Hmm(label)
    BY <1>1, <1>5 DEF Means
  <2>2. AsRead(fst) = HmmOf(label)
    BY <2>1 DEF HmmOf, Hmm
  <2>3. QED
    BY <1>3, <1>5, <2>2
<1>6. QED
  BY <1>4, <1>5

(***************************************************************************)
(* In every run of make-arc-types and of the reader of what it wrote, with *)
(* or without sharing (kaldibin/make-arc-types.cc:200-240), for every      *)
(* topology, context dependency and label table: each label made so far    *)
(* leads to the scaled HMM of its own window, or to two states.            *)
(***************************************************************************)
THEOREM SpecSharingIsInvisible == Spec => []SharingIsInvisible
<1>1. Init => SharingInv
  BY InitSharing DEF Init
<1>2. SharingInv /\ [Next]_vars => SharingInv'
  <2>1. [Next]_vars => [MakeArcTypes]_typeVars
    BY DEF Next, vars, OpenNetwork, OpenHmm, FeedHmm
  <2>2. QED
    BY <2>1, StepKeepsSharing
<1>3. SharingInv => SharingIsInvisible
  BY InvisibleIfShared
<1>4. QED
  BY <1>1, <1>2, <1>3, PTL DEF Spec

-----------------------------------------------------------------------------
(* Recursive functions on numbers *)

LEMMA LeastNumber ==
  ASSUME NEW T \in SUBSET Nat, T # {}
  PROVE  \E x \in T : \A y \in T : x <= y
<1> DEFINE R == {ss \in Nat \X Nat : ss[1] < ss[2]}
<1>1. R = OpToRel(<, Nat)
  BY DEF OpToRel
<1>2. IsWellFoundedOn(R, Nat)
  BY <1>1, NatLessThanWellFounded
<1>3. PICK x \in T : \A y \in T : ~(<<y, x>> \in R)
  <2> HIDE DEF R
  <2> QED BY <1>2, WFMin
<1>4. ASSUME NEW y \in T
      PROVE  x <= y
  <2>1. ~(<<y, x>> \in R)
    BY <1>3
  <2>2. <<y, x>>[1] = y /\ <<y, x>>[2] = x /\ <<y, x>> \in Nat \X Nat
    OBVIOUS
  <2>3. ~(y < x)
    BY <2>1, <2>2
  <2>4. QED
    BY <2>3
<1>5. QED
  BY <1>4

\* What holds of 0, and of a number if of the one before, holds of all.
LEMMA UpTo ==
  ASSUME NEW n \in Nat, NEW P, 0 \in P,
         \A k \in 1 .. n : k - 1 \in P => k \in P
  PROVE  \A k \in 0 .. n : k \in P
<1> DEFINE T == {k \in 0 .. n : k \notin P}
<1> SUFFICES ASSUME T # {} PROVE FALSE
  OBVIOUS
<1>1. T \in SUBSET Nat
  OBVIOUS
<1>2. PICK k \in T : \A l \in T : k <= l
  <2> HIDE DEF T
  <2> QED BY <1>1, LeastNumber
<1>3. k \in 1 .. n
  BY <1>2
<1>4. k - 1 \in P
  BY <1>2, <1>3
<1>5. QED
  BY <1>2, <1>3, <1>4

\* f starts with base and takes the step G[k] at k.
IsRecursion(n, V, base, G, f) ==
  f \in [0 .. n -> V] /\ f[0] = base /\ \A k \in 1 .. n : f[k] = G[k][f[k - 1]]

LEMMA StepsExist ==
  ASSUME NEW n \in Nat, NEW V, NEW base \in V, NEW G \in [1 .. n -> [V -> V]]
  PROVE  \E f : IsRecursion(n, V, base, G, f)
<1> DEFINE P == {m \in 0 .. n : \E f : IsRecursion(m, V, base, G, f)}
<1>1. 0 \in P
  <2> DEFINE f == [k \in 0 .. 0 |-> base]
  <2>1. IsRecursion(0, V, base, G, f)
    BY DEF IsRecursion
  <2> HIDE DEF f
  <2>2. QED
    BY <2>1
<1>2. ASSUME NEW m \in 1 .. n, m - 1 \in P
      PROVE  m \in P
  <2>1. PICK g : IsRecursion(m - 1, V, base, G, g)
    BY <1>2
  <2> USE DEF IsRecursion
  <2>2. G[m][g[m - 1]] \in V
    <3>1. G[m] \in [V -> V] /\ g[m - 1] \in V
      BY <2>1
    <3>2. QED
      BY <3>1
  <2> DEFINE f == [k \in 0 .. m |-> IF k = m THEN G[m][g[m - 1]] ELSE g[k]]
  <2>3. f \in [0 .. m -> V] /\ f[0] = base
    BY <2>1, <2>2
  <2>4. ASSUME NEW k \in 1 .. m
        PROVE  f[k] = G[k][f[k - 1]]
    <3>1. f[k - 1] = g[k - 1]
      OBVIOUS
    <3>2. k # m => g[k] = G[k][g[k - 1]] /\ f[k] = g[k]
      BY <2>1
    <3>3. f[m] = G[m][g[m - 1]]
      OBVIOUS
    <3> HIDE DEF f
    <3>4. QED
      BY <3>1, <3>2, <3>3
  <2> HIDE DEF f
  <2>5. IsRecursion(m, V, base, G, f)
    BY <2>3, <2>4
  <2> HIDE DEF IsRecursion
  <2>6. QED
    BY <2>5
<1>3. \A k \in 0 .. n : k \in P
  <2> HIDE DEF P
  <2> QED BY <1>1, <1>2, UpTo
<1>4. QED
  BY <1>3

ArcsFromSteps(list, state, f) ==
  [k \in 0 .. Len(list) |->
     IF k = 0 THEN <<>>
     ELSE IF list[k].from = state THEN Append(f[k - 1], list[k]) ELSE f[k - 1]]

\* ArcsFrom keeps exactly the arcs that leave the state.
LEMMA ArcsFromIs ==
  ASSUME NEW S, NEW list \in Seq(S), NEW state
  PROVE  /\ ArcsFrom(list, state) \in Seq(S)
         /\ ToSet(ArcsFrom(list, state)) = {a \in ToSet(list) : a.from = state}
<1> DEFINE n == Len(list)
           f == CHOOSE g : g = ArcsFromSteps(list, state, g)
<1>1. n \in Nat /\ DOMAIN list = 1 .. n /\ \A k \in 1 .. n : list[k] \in S
  OBVIOUS
<1>2. \E g : g = ArcsFromSteps(list, state, g)
  <2> DEFINE V == Seq(S)
             G == [k \in 1 .. n |-> [v \in V |-> IF list[k].from = state THEN Append(v, list[k]) ELSE v]]
  <2>1. G \in [1 .. n -> [V -> V]] /\ <<>> \in V
    BY <1>1
  <2>2. PICK g : IsRecursion(n, V, <<>>, G, g)
    <3> HIDE DEF G, V, n
    <3> QED BY <1>1, <2>1, StepsExist
  <2> USE DEF IsRecursion
  <2>3. ASSUME NEW k \in 0 .. n
        PROVE  g[k] = IF k = 0 THEN <<>>
                      ELSE IF list[k].from = state THEN Append(g[k - 1], list[k]) ELSE g[k - 1]
    <3>1. CASE k = 0
      BY <2>2, <3>1
    <3>2. CASE k # 0
      <4>1. k \in 1 .. n /\ g[k - 1] \in V
        BY <1>1, <2>2, <3>2
      <4>2. g[k] = G[k][g[k - 1]]
        BY <2>2, <4>1
      <4>3. G[k][g[k - 1]] = IF list[k].from = state THEN Append(g[k - 1], list[k]) ELSE g[k - 1]
        BY <4>1
      <4> HIDE DEF G
      <4>4. QED
        BY <3>2, <4>2, <4>3
    <3>3. QED
      BY <3>1, <3>2
  <2>4. g = ArcsFromSteps(list, state, g)
    BY <2>2, <2>3 DEF ArcsFromSteps
  <2>5. QED
    BY <2>4
<1>3. f = ArcsFromSteps(list, state, f)
  BY <1>2
<1>4. ArcsFrom(list, state) = f[n]
  BY DEF ArcsFrom, ArcsFromSteps
<1>5. f = [k \in 0 .. n |->
             IF k = 0 THEN <<>>
             ELSE IF list[k].from = state THEN Append(f[k - 1], list[k]) ELSE f[k - 1]]
  <2> HIDE DEF f
  <2> QED BY <1>3 DEF ArcsFromSteps
<1> HIDE DEF f
<1>6. f[0] = <<>>
  BY <1>1, <1>5
<1>7. ASSUME NEW k \in 1 .. n
       PROVE  f[k] = IF list[k].from = state THEN Append(f[k - 1], list[k]) ELSE f[k - 1]
  <2> HIDE DEF n
  <2>1. k \in 0 .. n /\ k # 0
    BY <1>1
  <2>2. QED
    BY <1>5, <2>1
<1> DEFINE kept(k) == {a \in {list[l] : l \in 1 .. k} : a.from = state}
           P == {k \in 0 .. n : f[k] \in Seq(S) /\ ToSet(f[k]) = kept(k)}
<1>8. 0 \in P
  <2>1. f[0] \in Seq(S) /\ DOMAIN f[0] = {} /\ 1 .. 0 = {}
    BY <1>6
  <2>2. ToSet(f[0]) = {} /\ kept(0) = {}
    BY <2>1 DEF ToSet
  <2>3. QED
    BY <1>1, <2>1, <2>2
<1>9. ASSUME NEW k \in 1 .. n, k - 1 \in P
      PROVE  k \in P
  <2>1. f[k - 1] \in Seq(S) /\ ToSet(f[k - 1]) = kept(k - 1)
    BY <1>9
  <2>2. 1 .. k = (1 .. k - 1) \cup {k}
    OBVIOUS
  <2>3. CASE list[k].from = state
    <3>1. f[k] = Append(f[k - 1], list[k])
      BY <1>7, <2>3
    <3>2. f[k] \in Seq(S) /\ ToSet(f[k]) = ToSet(f[k - 1]) \cup {list[k]}
      <4>1. f[k] \in Seq(S) /\ Len(f[k]) = Len(f[k - 1]) + 1 /\ Len(f[k - 1]) \in Nat
        BY <1>1, <2>1, <3>1
      <4>2. /\ \A l \in 1 .. Len(f[k - 1]) : f[k][l] = f[k - 1][l]
            /\ f[k][Len(f[k - 1]) + 1] = list[k]
        BY <1>1, <2>1, <3>1
      <4>3. DOMAIN f[k] = 1 .. Len(f[k - 1]) + 1 /\ DOMAIN f[k - 1] = 1 .. Len(f[k - 1])
        BY <2>1, <4>1
      <4>4. ToSet(f[k]) = {f[k][l] : l \in 1 .. Len(f[k - 1]) + 1}
        BY <4>3 DEF ToSet
      <4>5. ToSet(f[k - 1]) = {f[k][l] : l \in 1 .. Len(f[k - 1])}
        BY <4>2, <4>3 DEF ToSet
      <4>6. 1 .. Len(f[k - 1]) + 1 = (1 .. Len(f[k - 1])) \cup {Len(f[k - 1]) + 1}
        BY <4>1
      <4>7. QED
        BY <4>1, <4>2, <4>4, <4>5, <4>6
    <3>3. kept(k) = kept(k - 1) \cup {list[k]}
      BY <2>2, <2>3
    <3>4. QED
      BY <2>1, <3>2, <3>3
  <2>4. CASE list[k].from # state
    <3>1. f[k] = f[k - 1] /\ kept(k) = kept(k - 1)
      BY <1>7, <2>2, <2>4
    <3>2. QED
      BY <2>1, <3>1
  <2>5. QED
    BY <2>3, <2>4
<1>10. \A k \in 0 .. n : k \in P
  <2> HIDE DEF P, n
  <2> QED BY <1>1, <1>8, <1>9, UpTo
<1>11. f[n] \in Seq(S) /\ ToSet(f[n]) = kept(n)
  <2>1. n \in P
    <3>1. n \in 0 .. n
      BY <1>1
    <3> HIDE DEF P, n
    <3>2. QED
      BY <1>10, <3>1
  <2>2. QED
    BY <2>1
<1>12. kept(n) = {a \in ToSet(list) : a.from = state}
  BY <1>1 DEF ToSet
<1>13. QED
  BY <1>4, <1>11, <1>12

FlattenSteps(seqs, f) ==
  [k \in 1 .. Len(seqs) |-> IF k = 1 THEN seqs[k] ELSE f[k - 1] \o seqs[k]]

LEMMA FlattenIs ==
  ASSUME NEW S, NEW seqs \in Seq(Seq(S)), Len(seqs) > 0
  PROVE  FlattenSeq(seqs) \in Seq(S)
<1> DEFINE n == Len(seqs) - 1
           f == CHOOSE g : g = FlattenSteps(seqs, g)
<1>1. n \in Nat /\ Len(seqs) = n + 1 /\ \A k \in 1 .. n + 1 : seqs[k] \in Seq(S)
  OBVIOUS
<1>2. \E g : g = FlattenSteps(seqs, g)
  <2> DEFINE V == Seq(S)
             G == [k \in 1 .. n |-> [v \in V |-> v \o seqs[k + 1]]]
  <2>1. G \in [1 .. n -> [V -> V]] /\ seqs[1] \in V
    BY <1>1
  <2>2. PICK h : IsRecursion(n, V, seqs[1], G, h)
    <3> HIDE DEF G, V, n
    <3> QED BY <1>1, <2>1, StepsExist
  <2> USE DEF IsRecursion
  <2> DEFINE g == [k \in 1 .. n + 1 |-> h[k - 1]]
  <2>3. ASSUME NEW k \in 1 .. n + 1
        PROVE  g[k] = IF k = 1 THEN seqs[k] ELSE g[k - 1] \o seqs[k]
    <3>1. CASE k = 1
      <4>1. g[1] = h[0]
        BY <1>1
      <4>2. QED
        BY <2>2, <3>1, <4>1
    <3>2. CASE k # 1
      <4>1. k - 1 \in 1 .. n /\ (k - 1) - 1 \in 0 .. n /\ (k - 1) + 1 = k
        BY <1>1, <3>2
      <4>2. h[k - 1] = G[k - 1][h[(k - 1) - 1]] /\ h[(k - 1) - 1] \in V
        BY <2>2, <4>1
      <4>3. G[k - 1][h[(k - 1) - 1]] = h[(k - 1) - 1] \o seqs[k]
        BY <4>1, <4>2
      <4>4. g[k] = h[k - 1] /\ g[k - 1] = h[(k - 1) - 1]
        BY <1>1, <4>1
      <4> HIDE DEF G, g
      <4>5. QED
        BY <3>2, <4>2, <4>3, <4>4
    <3>3. QED
      BY <3>1, <3>2
  <2>4. g = FlattenSteps(seqs, g)
    BY <1>1, <2>3 DEF FlattenSteps
  <2>5. QED
    BY <2>4
<1>3. f = FlattenSteps(seqs, f)
  BY <1>2
<1>4. FlattenSeq(seqs) = f[n + 1]
  BY DEF FlattenSeq, FlattenSteps
<1> HIDE DEF f
<1>5. ASSUME NEW k \in 1 .. n + 1
      PROVE  f[k] = IF k = 1 THEN seqs[k] ELSE f[k - 1] \o seqs[k]
  <2>1. f = [j \in 1 .. n + 1 |-> IF j = 1 THEN seqs[j] ELSE f[j - 1] \o seqs[j]]
    BY <1>1, <1>3 DEF FlattenSteps
  <2> HIDE DEF n
  <2>2. QED
    BY <2>1
<1> DEFINE P == {k \in 0 .. n : f[k + 1] \in Seq(S)}
<1>6. 0 \in P
  BY <1>1, <1>5
<1>7. ASSUME NEW k \in 1 .. n, k - 1 \in P
      PROVE  k \in P
  <2>1. f[k] \in Seq(S)
    BY <1>7
  <2> HIDE DEF n
  <2>2. k + 1 \in 1 .. n + 1 /\ k + 1 # 1 /\ (k + 1) - 1 = k
    BY <1>1
  <2>3. f[k + 1] = f[k] \o seqs[k + 1] /\ seqs[k + 1] \in Seq(S)
    BY <1>1, <1>5, <2>2
  <2>4. f[k + 1] \in Seq(S)
    BY <2>1, <2>3
  <2>5. QED
    BY <1>1, <2>4
<1>8. \A k \in 0 .. n : k \in P
  <2> HIDE DEF P, n
  <2> QED BY <1>1, <1>6, <1>7, UpTo
<1>9. n \in P
  <2>1. n \in 0 .. n
    BY <1>1
  <2> HIDE DEF P, n
  <2>2. QED
    BY <1>8, <2>1
<1>10. QED
  BY <1>4, <1>9

-----------------------------------------------------------------------------
(* The table of elements *)

LEMMA AddElementIs ==
  ASSUME NEW S, NEW table \in Seq(S), NEW e \in S
  PROVE  /\ AddElement(table, e) \in Seq(S)
         /\ Len(table) <= Len(AddElement(table, e))
         /\ \A i \in 1 .. Len(table) : AddElement(table, e)[i] = table[i]
         /\ e \in ToSet(AddElement(table, e))
<1>1. Len(table) \in Nat /\ DOMAIN table = 1 .. Len(table)
  OBVIOUS
<1>2. CASE e \in ToSet(table)
  <2>1. AddElement(table, e) = table
    BY <1>2 DEF AddElement
  <2>2. QED
    BY <1>1, <1>2, <2>1
<1>3. CASE e \notin ToSet(table)
  <2>1. AddElement(table, e) = Append(table, e)
    BY <1>3 DEF AddElement
  <2>2. /\ Append(table, e) \in Seq(S) /\ Len(Append(table, e)) = Len(table) + 1
        /\ \A i \in 1 .. Len(table) : Append(table, e)[i] = table[i]
        /\ Append(table, e)[Len(table) + 1] = e
        /\ DOMAIN Append(table, e) = 1 .. Len(table) + 1
    BY <1>1
  <2>3. e \in ToSet(Append(table, e))
    BY <1>1, <2>2 DEF ToSet
  <2>4. QED
    BY <1>1, <2>1, <2>2, <2>3
<1>4. QED
  BY <1>2, <1>3

\* t goes on where table ends.
Extends(t, table) == Len(table) <= Len(t) /\ \A i \in 1 .. Len(table) : t[i] = table[i]

LEMMA ExtendsFurther ==
  ASSUME NEW S, NEW r \in Seq(S), NEW t \in Seq(S), NEW u \in Seq(S), Extends(t, r), Extends(u, t)
  PROVE  Extends(u, r) /\ ToSet(t) \subseteq ToSet(u)
<1>1. Len(r) \in Nat /\ Len(t) \in Nat /\ Len(u) \in Nat
      /\ DOMAIN t = 1 .. Len(t) /\ DOMAIN u = 1 .. Len(u)
  OBVIOUS
<1>2. Extends(u, r)
  BY <1>1 DEF Extends
<1>3. ToSet(t) \subseteq ToSet(u)
  BY <1>1 DEF Extends, ToSet
<1>4. QED
  BY <1>2, <1>3

AddElementsSteps(table, out, f) ==
  [k \in 0 .. Len(out) |-> IF k = 0 THEN table ELSE AddElement(f[k - 1], out[k].element)]

\* The table grows at its end, and has the elements that the arcs lead to.
LEMMA AddElementsIs ==
  ASSUME NEW S, NEW table \in Seq(S), NEW out, Len(out) \in Nat,
         \A k \in 1 .. Len(out) : out[k].element \in S
  PROVE  /\ AddElements(table, out) \in Seq(S)
         /\ Extends(AddElements(table, out), table)
         /\ \A k \in 1 .. Len(out) : out[k].element \in ToSet(AddElements(table, out))
<1> DEFINE n == Len(out)
           f == CHOOSE g : g = AddElementsSteps(table, out, g)
<1>1. n \in Nat /\ \A k \in 1 .. n : out[k].element \in S
  OBVIOUS
<1>2. \E g : g = AddElementsSteps(table, out, g)
  <2> DEFINE V == Seq(S)
             G == [k \in 1 .. n |-> [v \in V |-> AddElement(v, out[k].element)]]
  <2>1. G \in [1 .. n -> [V -> V]] /\ table \in V
    BY <1>1, AddElementIs
  <2>2. PICK g : IsRecursion(n, V, table, G, g)
    <3> HIDE DEF G, V, n
    <3> QED BY <1>1, <2>1, StepsExist
  <2> USE DEF IsRecursion
  <2>3. ASSUME NEW k \in 0 .. n
        PROVE  g[k] = IF k = 0 THEN table ELSE AddElement(g[k - 1], out[k].element)
    <3>1. CASE k = 0
      BY <2>2, <3>1
    <3>2. CASE k # 0
      <4>1. k \in 1 .. n /\ g[k - 1] \in V
        BY <1>1, <2>2, <3>2
      <4>2. g[k] = G[k][g[k - 1]]
        BY <2>2, <4>1
      <4>3. G[k][g[k - 1]] = AddElement(g[k - 1], out[k].element)
        BY <4>1
      <4> HIDE DEF G
      <4>4. QED
        BY <3>2, <4>2, <4>3
    <3>3. QED
      BY <3>1, <3>2
  <2>4. g = AddElementsSteps(table, out, g)
    BY <2>2, <2>3 DEF AddElementsSteps
  <2>5. QED
    BY <2>4
<1>3. f = AddElementsSteps(table, out, f)
  BY <1>2
<1>4. AddElements(table, out) = f[n]
  BY DEF AddElements, AddElementsSteps
<1>5. f = [k \in 0 .. n |-> IF k = 0 THEN table ELSE AddElement(f[k - 1], out[k].element)]
  <2> HIDE DEF f
  <2> QED BY <1>3 DEF AddElementsSteps
<1> HIDE DEF f
<1>6. f[0] = table
  BY <1>1, <1>5
<1>7. ASSUME NEW k \in 1 .. n
      PROVE  f[k] = AddElement(f[k - 1], out[k].element)
  <2> HIDE DEF n
  <2>1. k \in 0 .. n /\ k # 0
    BY <1>1
  <2>2. QED
    BY <1>5, <2>1
<1> DEFINE has(t, k) == \A l \in 1 .. k : out[l].element \in ToSet(t)
           P == {k \in 0 .. n : f[k] \in Seq(S) /\ Extends(f[k], table) /\ has(f[k], k)}
<1> HIDE DEF n
<1>8. 0 \in P
  <2>1. Extends(table, table) /\ has(table, 0)
    BY DEF Extends
  <2> HIDE DEF has
  <2>2. QED
    BY <1>1, <1>6, <2>1
<1>9. ASSUME NEW k \in 1 .. n, k - 1 \in P
      PROVE  k \in P
  <2>1. f[k - 1] \in Seq(S) /\ Extends(f[k - 1], table) /\ has(f[k - 1], k - 1)
    BY <1>9
  <2>2. PICK e \in S : e = out[k].element
    BY <1>1
  <2>3. f[k] = AddElement(f[k - 1], e)
    BY <1>7, <2>2
  <2>4. f[k] \in Seq(S) /\ Extends(f[k], f[k - 1]) /\ e \in ToSet(f[k])
    <3>1. PICK t \in Seq(S) : t = f[k - 1]
      BY <2>1
    <3>2. /\ AddElement(t, e) \in Seq(S) /\ e \in ToSet(AddElement(t, e))
          /\ Extends(AddElement(t, e), t)
      BY ONLY e \in S, t \in Seq(S), AddElementIs DEF Extends
    <3>3. f[k] = AddElement(t, e)
      BY <2>3, <3>1
    <3>4. QED
      BY <3>1, <3>2, <3>3
  <2>5. Extends(f[k], table) /\ ToSet(f[k - 1]) \subseteq ToSet(f[k])
    <3> HIDE DEF has
    <3> QED BY <2>1, <2>4, ExtendsFurther
  <2>6. has(f[k], k)
    <3>1. TAKE l \in 1 .. k
    <3>2. CASE l = k
      BY <2>2, <2>4, <3>2
    <3>3. CASE l # k
      <4>1. l \in 1 .. k - 1
        BY <1>1, <3>3
      <4>2. QED
        BY <2>1, <2>5, <4>1
    <3>4. QED
      BY <3>2, <3>3
  <2> HIDE DEF has
  <2>7. QED
    BY <1>1, <2>4, <2>5, <2>6
<1>10. \A k \in 0 .. n : k \in P
  <2> HIDE DEF P
  <2> QED BY <1>1, <1>8, <1>9, UpTo
<1>11. n \in P
  <2>1. n \in 0 .. n
    BY <1>1
  <2> HIDE DEF P
  <2>2. QED
    BY <1>10, <2>1
<1>12. QED
  BY <1>4, <1>11 DEF n

\* Of an element in the table, StateOf is a number that stands for it.
LEMMA StateOfIs ==
  ASSUME NEW S, NEW table \in Seq(S), NEW e \in ToSet(table)
  PROVE  StateOf(table, e) + 1 \in 1 .. Len(table) /\ table[StateOf(table, e) + 1] = e
<1> DEFINE d == CHOOSE x \in DOMAIN table : table[x] = e
<1>1. \E x \in DOMAIN table : table[x] = e
  BY DEF ToSet
<1>2. d \in 1 .. Len(table) /\ table[d] = e
  BY <1>1
<1>3. StateOf(table, e) = d - 1
  BY DEF StateOf
<1> HIDE DEF d
<1>4. QED
  BY <1>2, <1>3

-----------------------------------------------------------------------------
(* Acceptors *)

IsHmmArc(a) ==
  a = [from |-> a.from, to |-> a.to, weight |-> a.weight, label |-> a.label] /\ a.to \in Nat

\* More than two states, and arcs in a sequence.
IsHmm(h) ==
  /\ h.numStates \in Nat /\ h.numStates > 2
  /\ \E S : h.arcs \in Seq(S)
  /\ \A a \in ToSet(h.arcs) : IsHmmArc(a)

LEMMA WindowsHmm ==
  ASSUME HmmsAreLong, NEW window, Phone(window) \in DOMAIN Topology, NEW u
  PROVE  /\ GetHmmAsFstWithLoops(window, u) = Acceptor(Len(Entry(window)), GetHmmAsFstWithLoops(window, u).arcs)
         /\ IsHmm(GetHmmAsFstWithLoops(window, u))
<1> DEFINE entry == Entry(window)
           n == Len(entry)
           S == {a \in [from : Int, to : Nat, weight : {HmmArc(window, u, s, k).weight : s \in 1 .. n, k \in Nat},
                        label : {HmmArc(window, u, s, k).label : s \in 1 .. n, k \in Nat}] : TRUE}
           list == [s \in DOMAIN entry |->
                      [k \in DOMAIN entry[s].transitions |-> HmmArc(window, u, s, k)]]
           h == GetHmmAsFstWithLoops(window, u)
<1>1. /\ entry \in Seq(ToSet(entry)) /\ n \in Nat /\ n > 2 /\ DOMAIN entry = 1 .. n
      /\ \A s \in 1 .. n :
           /\ entry[s].transitions \in Seq(ToSet(entry[s].transitions))
           /\ \A t \in ToSet(entry[s].transitions) : t.state \in 0 .. n - 1
  BY ArcTypesAssumption DEF Entry, HmmsAreLong
<1>2. ASSUME NEW s \in 1 .. n
      PROVE  list[s] \in Seq(S)
  <2> DEFINE ts == entry[s].transitions
  <2>1. ts \in Seq(ToSet(ts)) /\ \A t \in ToSet(ts) : t.state \in 0 .. n - 1
    BY <1>1
  <2>2. Len(ts) \in Nat /\ DOMAIN ts = 1 .. Len(ts)
    BY <2>1
  <2>3. ASSUME NEW k \in 1 .. Len(ts)
        PROVE  HmmArc(window, u, s, k) \in S
    <3>1. ts[k] \in ToSet(ts)
      BY <2>2 DEF ToSet
    <3>2. ts[k].state \in Nat
      BY <1>1, <2>1, <3>1
    <3>3. HmmArc(window, u, s, k).from = s - 1 /\ HmmArc(window, u, s, k).to = ts[k].state
      BY DEF HmmArc
    <3>4. HmmArc(window, u, s, k) =
            [from |-> HmmArc(window, u, s, k).from, to |-> HmmArc(window, u, s, k).to,
             weight |-> HmmArc(window, u, s, k).weight, label |-> HmmArc(window, u, s, k).label]
      BY DEF HmmArc
    <3>5. k \in Nat /\ s - 1 \in Int
      BY <2>2
    <3>6. QED
      BY <3>2, <3>3, <3>4, <3>5
  <2>4. list[s] = [k \in 1 .. Len(ts) |-> HmmArc(window, u, s, k)]
    BY <1>1, <2>2
  <2> HIDE DEF S, list, ts
  <2>5. QED
    BY <2>2, <2>3, <2>4
<1>3. list \in Seq(Seq(S)) /\ Len(list) > 0
  <2>1. list = [s \in 1 .. n |-> list[s]] /\ DOMAIN list = 1 .. n
    BY <1>1
  <2> HIDE DEF list, S, n
  <2>2. PICK V : V = Seq(S)
    OBVIOUS
  <2>3. \A s \in 1 .. n : list[s] \in V
    BY <1>2, <2>2
  <2>4. list \in Seq(V)
    <3>1. n \in Nat /\ list \in [1 .. n -> V]
      BY <1>1, <2>1, <2>3
    <3>2. QED
      BY <3>1
  <2>5. QED
    BY <1>1, <2>1, <2>2, <2>4
<1>4. FlattenSeq(list) \in Seq(S)
  <2> HIDE DEF list, S
  <2> QED BY <1>3, FlattenIs
<1>5. h = Acceptor(n, FlattenSeq(list))
  BY DEF GetHmmAsFstWithLoops
<1>6. h.numStates = n /\ h.arcs = FlattenSeq(list)
  <2> HIDE DEF h, n, list
  <2> QED BY <1>5 DEF Acceptor
<1>7. ASSUME NEW a \in ToSet(h.arcs)
      PROVE  IsHmmArc(a)
  <2>1. a \in S
    <3> HIDE DEF h, list, S
    <3> QED BY <1>4, <1>6 DEF ToSet
  <2>2. QED
    BY <2>1 DEF IsHmmArc
<1>8. QED
  <2> HIDE DEF h, list, S, n
  <2>1. \E T : h.arcs \in Seq(T)
    BY <1>4, <1>6
  <2>2. QED
    BY <1>1, <1>5, <1>6, <1>7, <2>1 DEF IsHmm, h, n

LEMMA ScaledIs ==
  ASSUME NEW n, NEW list, NEW factor
  PROVE  Scaled(Acceptor(n, list), factor)
           = Acceptor(n, [k \in DOMAIN list |-> ScaledArc(list[k], factor)])
<1> DEFINE h == Acceptor(n, list)
           scaled == [k \in DOMAIN list |-> ScaledArc(list[k], factor)]
<1>1. h.arcs = list
  BY DEF Acceptor
<1>2. [k \in DOMAIN h.arcs |-> ScaledArc(h.arcs[k], factor)] = scaled
  BY <1>1
<1>3. Scaled(h, factor) = [h EXCEPT !.arcs = scaled]
  <2> HIDE DEF h, scaled
  <2> QED BY <1>2 DEF Scaled
<1>4. [h EXCEPT !.arcs = scaled] = Acceptor(n, scaled)
  <2> HIDE DEF scaled
  <2> QED BY DEF Acceptor
<1>5. QED
  BY <1>3, <1>4

\* What a label stands for in the table of a reader: two states, or the HMM of its window.
LEMMA TypeOfLabel ==
  ASSUME HmmsAreLong, SharingInv, made = "read", Len(log2phys) = Len(ilabel_info),
         ilabel_info \in IlabelInfos, NEW label \in Nat, label < Len(ilabel_info)
  PROVE  /\ PhysicalLabel(label) \in 0 .. Len(arcs) - 1
         /\ IsEpsilonLabel(label) => arcs[PhysicalLabel(label) + 1].numStates = 2
         /\ ~IsEpsilonLabel(label) => /\ arcs[PhysicalLabel(label) + 1] = HmmOf(label)
                                      /\ IsHmm(HmmOf(label))
<1>1. label \in 0 .. Len(log2phys) - 1 /\ Len(ilabel_info) \in Nat
  BY ArcTypesAssumption
<1>2. SharingIsInvisible
  BY InvisibleIfShared
<1>3. LET fst == arcs[PhysicalLabel(label) + 1]
      IN  IF IsEpsilonLabel(label) THEN fst.numStates = 2 ELSE fst = HmmOf(label)
  BY <1>1, <1>2 DEF SharingIsInvisible
<1>4. PhysicalLabel(label) \in 0 .. Len(arcs) - 1
  <2>1. PhysicalLabel(label) \in 0 .. Len(fsts) - 1
    BY <1>1 DEF SharingInv, LabelsInv, Labels
  <2>2. arcs = [i \in DOMAIN fsts |-> Scaled(fsts[i], scale)]
    BY DEF SharingInv, ReadInv
  <2>3. DOMAIN fsts = 1 .. Len(fsts) /\ Len(fsts) \in Nat
    BY DEF SharingInv, TablesInv
  <2>4. arcs = [i \in 1 .. Len(fsts) |-> Scaled(fsts[i], scale)]
    BY <2>2, <2>3
  <2>5. Len(arcs) = Len(fsts)
    BY <2>3, <2>4
  <2>6. QED
    BY <2>1, <2>5
<1>5. ASSUME ~IsEpsilonLabel(label)
      PROVE  IsHmm(HmmOf(label))
  <2> DEFINE w == ilabel_info[label + 1]
             h == GetHmmAsFstWithLoops(w, opts.use_trans_ids)
  <2>1. label # 0 /\ ~IsDisambiguation(w)
    BY <1>5 DEF IsEpsilonLabel
  <2>2. label + 1 \in 2 .. Len(ilabel_info)
    BY <1>1, <2>1
  <2>3. Phone(w) \in DOMAIN Topology
    BY <2>1, <2>2, ArcTypesAssumption
  <2>4. h = Acceptor(Len(Entry(w)), h.arcs) /\ IsHmm(h)
    <3> HIDE DEF w
    <3> QED BY <2>3, WindowsHmm
  <2>5. HmmOf(label) = Scaled(h, scale)
    BY DEF HmmOf, AsRead
  <2> HIDE DEF h, w
  <2> DEFINE scaled == [k \in DOMAIN h.arcs |-> ScaledArc(h.arcs[k], scale)]
             g == Scaled(h, scale)
  <2>6. g = Acceptor(Len(Entry(w)), scaled)
    <3>1. h = Acceptor(Len(Entry(w)), h.arcs)
      BY <2>4
    <3> HIDE DEF g
    <3>2. QED
      BY <3>1, ScaledIs DEF g
  <2>7. g.numStates = h.numStates /\ g.arcs = scaled
    <3>1. h.numStates = Len(Entry(w))
      BY <2>4 DEF Acceptor
    <3> HIDE DEF scaled, g
    <3>2. QED
      BY <2>6, <3>1 DEF Acceptor
  <2>8. PICK n \in Nat : n = Len(h.arcs) /\ DOMAIN h.arcs = 1 .. n
    BY <2>4 DEF IsHmm
  <2>9. \E T : scaled \in Seq(T)
    <3>1. scaled = [k \in 1 .. n |-> scaled[k]]
      BY <2>8
    <3> DEFINE T == {scaled[k] : k \in 1 .. n}
    <3>2. scaled \in Seq(T)
      <4> HIDE DEF scaled
      <4> QED BY <3>1
    <3>3. QED
      BY <3>2
  <2>10. ASSUME NEW a \in ToSet(scaled)
         PROVE  IsHmmArc(a)
    <3>1. PICK k \in DOMAIN h.arcs : a = ScaledArc(h.arcs[k], scale)
      BY DEF ToSet
    <3>2. PICK b : b = h.arcs[k]
      OBVIOUS
    <3>3. b = [from |-> b.from, to |-> b.to, weight |-> b.weight, label |-> b.label] /\ b.to \in Nat
      BY <2>4, <3>2 DEF IsHmm, IsHmmArc, ToSet
    <3>4. a = [from |-> b.from, to |-> b.to, weight |-> b.weight * scale, label |-> b.label]
      BY <3>1, <3>2, <3>3 DEF ScaledArc
    <3>5. QED
      BY <3>3, <3>4 DEF IsHmmArc
  <2>11. QED
    <3> HIDE DEF scaled, g
    <3>1. IsHmm(g)
      BY <2>4, <2>7, <2>9, <2>10 DEF IsHmm
    <3>2. QED
      BY <2>5, <3>1 DEF g
<1>6. QED
  BY <1>3, <1>4, <1>5

-----------------------------------------------------------------------------
(* The inductive invariant of the expansion *)

\* The tables are written when every window has its label.
TablesDone ==
  /\ ilabel_info \in IlabelInfos
  /\ made \in {"written", "read"} => Len(log2phys) = Len(ilabel_info)

\* The i-th arc of a state, from 0, leads into an acceptor.
Emits(q, i) == i + 1 \in DOMAIN network.out[q] /\ ~IsEpsilonLabel(network.out[q][i + 1].ilabel)

IsElement(e) ==
  \/ \E q \in DOMAIN network.out : e = Source(q)
  \/ \E q \in DOMAIN network.out, a \in Nat, i \in Nat : e = Inside(q, a, i) /\ Emits(q, i)

Valid == {e \in [state : Nat, arcstate : Int, index : Int] : IsElement(e)}

NetworkInv ==
  /\ network = <<>> => elements = <<>> /\ cache = <<>>
  /\ network # <<>> =>
       /\ network \in Networks /\ made = "read"
       /\ fst_ = Relabel(network) /\ types = arcs
       /\ \A q \in DOMAIN network.out : \A k \in DOMAIN network.out[q] :
            network.out[q][k].ilabel < Len(ilabel_info)

ElementsInv ==
  network # <<>> => /\ elements \in Seq(Valid)
                    /\ Len(elements) > 0 => elements[1] = Source(network.start)

\* What an arc says when the states are those of a table of elements.
MeantIn(table, arc) ==
  [ilabel |-> arc.ilabel, olabel |-> arc.olabel, weight |-> arc.weight,
   to |-> Place(table[arc.nextstate + 1])]

FinalOf(e) == IF e.arcstate = NoStateId THEN network.final[e.state] ELSE Zero

\* Arcs of a state that say, among the states of a table, what an element's arcs are.
Pushes(table, e, pushed) ==
  /\ \E S : pushed \in Seq(S)
  /\ \A k \in 1 .. Len(pushed) : pushed[k].nextstate + 1 \in 1 .. Len(table)
  /\ {MeantIn(table, pushed[k]) : k \in 1 .. Len(pushed)} = ArcsOf(Place(e))

CacheEntry(pushed, final, hasFinal) ==
  [arcs |-> pushed, hasArcs |-> TRUE, final |-> final, hasFinal |-> hasFinal]

\* What the cache has of a state.  Only Final() pushes arcs twice, and only once.
IsExpansion(table, e, entry) ==
  /\ entry = CacheEntry(entry.arcs, entry.final, entry.hasFinal)
  /\ Pushes(table, e, entry.arcs)
  /\ \/ entry.hasFinal = FALSE /\ Len(entry.arcs) = Len(Leave(e))
     \/ entry.hasFinal = TRUE /\ Len(entry.arcs) <= 2 * Len(Leave(e)) /\ entry.final = FinalOf(e)

CacheInv ==
  \A s \in DOMAIN cache :
    s \in 0 .. Len(elements) - 1 /\ IsExpansion(elements, elements[s + 1], cache[s])

ExpansionInv == SharingInv /\ TablesDone /\ NetworkInv /\ ElementsInv /\ CacheInv

-----------------------------------------------------------------------------
(* What leaves an element *)

LEMMA RelabelIs ==
  ASSUME NEW net, net = [start |-> net.start, final |-> net.final, out |-> net.out]
  PROVE  /\ Relabel(net).start = net.start /\ Relabel(net).final = net.final
         /\ Relabel(net).out
              = [q \in DOMAIN net.out |-> [k \in DOMAIN net.out[q] |-> RelabelArc(net.out[q][k])]]
<1> DEFINE out == [q \in DOMAIN net.out |-> [k \in DOMAIN net.out[q] |-> RelabelArc(net.out[q][k])]]
<1>1. Relabel(net) = [net EXCEPT !.out = out]
  BY DEF Relabel
<1> HIDE DEF out
<1>2. Relabel(net) = [start |-> net.start, final |-> net.final, out |-> out]
  BY <1>1
<1>3. QED
  BY <1>2 DEF out

\* The arc of the network the expansion sees, and the type it finds for it.
LEMMA ArcAt ==
  ASSUME HmmsAreLong, ExpansionInv, network # <<>>,
         NEW q \in DOMAIN network.out, NEW k \in DOMAIN network.out[q], NEW arc, arc = network.out[q][k]
  PROVE  /\ arc.ilabel \in Nat /\ arc.nextstate \in DOMAIN network.out
         /\ fst_.out[q][k] = [ilabel |-> PhysicalLabel(arc.ilabel), olabel |-> arc.olabel,
                              weight |-> arc.weight, nextstate |-> arc.nextstate]
         /\ PhysicalLabel(arc.ilabel) \in Epsilons <=> IsEpsilonLabel(arc.ilabel)
         /\ ~IsEpsilonLabel(arc.ilabel) => /\ types[PhysicalLabel(arc.ilabel) + 1] = HmmOf(arc.ilabel)
                                           /\ IsHmm(HmmOf(arc.ilabel))
<1>1. /\ network \in Networks /\ made = "read" /\ fst_ = Relabel(network) /\ types = arcs
      /\ arc.ilabel < Len(ilabel_info)
  BY DEF ExpansionInv, NetworkInv
<1>2. /\ network = [start |-> network.start, final |-> network.final, out |-> network.out]
      /\ network.out[q] \in Seq([ilabel : Nat, olabel : Nat, weight : Int, nextstate : DOMAIN network.out])
  BY <1>1, SearchGraphAssumption
<1>3. arc \in [ilabel : Nat, olabel : Nat, weight : Int, nextstate : DOMAIN network.out]
  <2> DEFINE A == [ilabel : Nat, olabel : Nat, weight : Int, nextstate : DOMAIN network.out]
  <2>1. network.out[q] \in Seq(A)
    BY <1>2
  <2> HIDE DEF A
  <2>2. arc \in A
    BY <2>1
  <2>3. QED
    BY <2>2 DEF A
<1>4. fst_.out[q][k] = RelabelArc(arc)
  <2>1. fst_.out = [p \in DOMAIN network.out |->
                      [j \in DOMAIN network.out[p] |-> RelabelArc(network.out[p][j])]]
    BY ONLY <1>1, <1>2, RelabelIs
  <2>2. fst_.out[q] = [j \in DOMAIN network.out[q] |-> RelabelArc(network.out[q][j])]
    BY <2>1
  <2>3. QED
    BY <2>2
<1>5. RelabelArc(arc) = [ilabel |-> PhysicalLabel(arc.ilabel), olabel |-> arc.olabel,
                         weight |-> arc.weight, nextstate |-> arc.nextstate]
  BY <1>3 DEF RelabelArc
<1>6. /\ PhysicalLabel(arc.ilabel) \in 0 .. Len(arcs) - 1
      /\ IsEpsilonLabel(arc.ilabel) => arcs[PhysicalLabel(arc.ilabel) + 1].numStates = 2
      /\ ~IsEpsilonLabel(arc.ilabel) => /\ arcs[PhysicalLabel(arc.ilabel) + 1] = HmmOf(arc.ilabel)
                                        /\ IsHmm(HmmOf(arc.ilabel))
  <2>1. SharingInv /\ ilabel_info \in IlabelInfos /\ Len(log2phys) = Len(ilabel_info)
    BY <1>1 DEF ExpansionInv, TablesDone
  <2>2. arc.ilabel \in Nat
    BY <1>3
  <2>3. QED
    BY <1>1, <2>1, <2>2, TypeOfLabel
<1>7. PhysicalLabel(arc.ilabel) \in Epsilons <=> IsEpsilonLabel(arc.ilabel)
  <2>1. PhysicalLabel(arc.ilabel) \in Epsilons <=> arcs[PhysicalLabel(arc.ilabel) + 1].numStates = 2
    BY <1>1, <1>6 DEF Epsilons
  <2>2. ~IsEpsilonLabel(arc.ilabel) => arcs[PhysicalLabel(arc.ilabel) + 1].numStates # 2
    BY <1>6 DEF IsHmm
  <2>3. QED
    BY <1>6, <2>1, <2>2
<1>8. QED
  BY <1>1, <1>3, <1>4, <1>5, <1>6, <1>7

LEMMA OutIs ==
  ASSUME ExpansionInv, network # <<>>, NEW q \in DOMAIN network.out
  PROVE  /\ q \in Nat /\ Len(network.out[q]) \in Nat
         /\ DOMAIN network.out[q] = 1 .. Len(network.out[q])
         /\ DOMAIN fst_.out[q] = DOMAIN network.out[q]
         /\ fst_.final = network.final /\ fst_.start = network.start
<1>1. network \in Networks /\ fst_ = Relabel(network)
  BY DEF ExpansionInv, NetworkInv
<1>2. /\ network = [start |-> network.start, final |-> network.final, out |-> network.out]
      /\ network.out[q] \in Seq([ilabel : Nat, olabel : Nat, weight : Int, nextstate : DOMAIN network.out])
      /\ q \in Nat
  BY <1>1, SearchGraphAssumption
<1>3. Len(network.out[q]) \in Nat /\ DOMAIN network.out[q] = 1 .. Len(network.out[q])
  BY <1>2
<1>4. /\ fst_.final = network.final /\ fst_.start = network.start
      /\ fst_.out = [p \in DOMAIN network.out |->
                       [j \in DOMAIN network.out[p] |-> RelabelArc(network.out[p][j])]]
  BY ONLY <1>1, <1>2, RelabelIs
<1>5. QED
  BY <1>2, <1>3, <1>4

MeantOut(o) ==
  [ilabel |-> o.ilabel, olabel |-> o.olabel, weight |-> o.weight, to |-> Place(o.element)]

\* What Expand is to push for an element.
LeavesRightly(e) ==
  /\ Len(Leave(e)) \in Nat /\ DOMAIN Leave(e) = 1 .. Len(Leave(e))
  /\ \A k \in 1 .. Len(Leave(e)) : Leave(e)[k].element \in Valid
  /\ {MeantOut(Leave(e)[k]) : k \in 1 .. Len(Leave(e))} = ArcsOf(Place(e))

LEMMA SourceIsValid ==
  ASSUME ExpansionInv, network # <<>>, NEW q \in DOMAIN network.out
  PROVE  Source(q) \in Valid
BY OutIs DEF Source, Valid, IsElement, NoStateId

LEMMA InsideIsValid ==
  ASSUME ExpansionInv, network # <<>>, NEW q \in DOMAIN network.out, NEW a \in Nat, NEW i \in Nat, Emits(q, i)
  PROVE  Inside(q, a, i) \in Valid
<1>1. Inside(q, a, i) \in [state : Nat, arcstate : Int, index : Int]
  BY OutIs DEF Inside
<1>2. IsElement(Inside(q, a, i))
  BY DEF IsElement
<1>3. QED
  BY <1>1, <1>2 DEF Valid

LEMMA PlaceOfSource == \A q : Place(Source(q)) = <<q>>
BY DEF Place, Source, NoStateId

\* A state of the network: the arcs before an emitting one emit, so the index the
\* expansion counts is the position that FindArc seeks.
LEMMA SourceLeaves ==
  ASSUME EpsilonsLast(Networks), HmmsAreLong, ExpansionInv, network # <<>>, NEW q \in DOMAIN network.out
  PROVE  LeavesRightly(Source(q))
<1> DEFINE out == network.out[q]
           n == Len(out)
           fout == fst_.out[q]
           before(k) == {l \in 1 .. k - 1 : fout[l].ilabel \notin Epsilons}
           goes(k) == IF fout[k].ilabel \in Epsilons THEN Source(fout[k].nextstate)
                      ELSE Inside(q, 0, Cardinality(before(k)))
           leave == [k \in DOMAIN fout |->
                       [ilabel |-> 0, olabel |-> fout[k].olabel, weight |-> fout[k].weight,
                        element |-> goes(k)]]
           to(k) == IF IsEpsilonLabel(out[k].ilabel) THEN <<out[k].nextstate>> ELSE <<q, k, 0>>
<1>1. Leave(Source(q)) = leave
  BY DEF Leave, LeaveSource, Source, NoStateId
<1>2. n \in Nat /\ DOMAIN out = 1 .. n /\ DOMAIN fout = 1 .. n /\ q \in Nat
  BY OutIs
<1>3. ASSUME NEW k \in 1 .. n
      PROVE  /\ out[k].ilabel \in Nat /\ out[k].nextstate \in DOMAIN network.out
             /\ fout[k].olabel = out[k].olabel /\ fout[k].weight = out[k].weight
             /\ fout[k].nextstate = out[k].nextstate
             /\ fout[k].ilabel \in Epsilons <=> IsEpsilonLabel(out[k].ilabel)
  <2>1. PICK arc : arc = network.out[q][k]
    OBVIOUS
  <2>2. k \in DOMAIN network.out[q]
    BY <1>2
  <2>3. /\ arc.ilabel \in Nat /\ arc.nextstate \in DOMAIN network.out
        /\ fst_.out[q][k] = [ilabel |-> PhysicalLabel(arc.ilabel), olabel |-> arc.olabel,
                             weight |-> arc.weight, nextstate |-> arc.nextstate]
        /\ PhysicalLabel(arc.ilabel) \in Epsilons <=> IsEpsilonLabel(arc.ilabel)
    BY <2>1, <2>2, ArcAt
  <2>4. /\ fout[k].ilabel = PhysicalLabel(arc.ilabel) /\ fout[k].olabel = arc.olabel
        /\ fout[k].weight = arc.weight /\ fout[k].nextstate = arc.nextstate
    BY <2>3
  <2>5. QED
    BY <2>1, <2>3, <2>4
<1>4. ASSUME NEW k \in 1 .. n, NEW l \in 1 .. k - 1, ~IsEpsilonLabel(out[k].ilabel)
      PROVE  ~IsEpsilonLabel(out[l].ilabel)
  <2>1. /\ network \in Networks /\ ilabel_info \in IlabelInfos
        /\ \A j \in DOMAIN network.out[q] : network.out[q][j].ilabel < Len(ilabel_info)
    BY DEF ExpansionInv, NetworkInv, TablesDone
  <2>2. l \in DOMAIN out /\ k \in DOMAIN out /\ l < k
    BY <1>2
  <2>3. out[l].ilabel < Len(ilabel_info) /\ out[k].ilabel < Len(ilabel_info)
    BY <2>1, <2>2
  <2>4. IsEpsilonLabel(out[l].ilabel) => IsEpsilonLabel(out[k].ilabel)
    BY <2>1, <2>2, <2>3 DEF EpsilonsLast, IsEpsilonLabel
  <2>5. QED
    BY <1>4, <2>4
<1>5. ASSUME NEW k \in 1 .. n, ~IsEpsilonLabel(out[k].ilabel)
      PROVE  Cardinality(before(k)) = k - 1
  <2>1. before(k) = 1 .. k - 1
    <3>1. ASSUME NEW l \in 1 .. k - 1
          PROVE  fout[l].ilabel \notin Epsilons
      <4>1. l \in 1 .. n
        BY <1>2
      <4>2. QED
        BY <1>3, <1>4, <1>5, <4>1
    <3>2. QED
      BY <3>1
  <2>2. Cardinality(1 .. k - 1) = k - 1
    <3>1. k - 1 \in Nat /\ 1 \in Int /\ k - 1 \in Int
      BY <1>2
    <3>2. Cardinality(1 .. k - 1) = IF 1 > k - 1 THEN 0 ELSE (k - 1) - 1 + 1
      BY <3>1, FS_Interval
    <3>3. QED
      BY <3>1, <3>2
  <2>3. QED
    BY <2>1, <2>2
<1>6. ASSUME NEW k \in 1 .. n
      PROVE  goes(k) \in Valid /\ Place(goes(k)) = to(k)
  <2>1. CASE IsEpsilonLabel(out[k].ilabel)
    <3>1. goes(k) = Source(out[k].nextstate) /\ out[k].nextstate \in DOMAIN network.out
      BY <1>3, <2>1
    <3>2. goes(k) \in Valid
      BY <3>1, SourceIsValid
    <3>3. Place(goes(k)) = <<out[k].nextstate>>
      BY <3>1, PlaceOfSource
    <3>4. QED
      BY <2>1, <3>2, <3>3
  <2>2. CASE ~IsEpsilonLabel(out[k].ilabel)
    <3>1. goes(k) = Inside(q, 0, k - 1)
      BY <1>3, <1>5, <2>2
    <3>2. k - 1 \in Nat /\ (k - 1) + 1 = k /\ Emits(q, k - 1)
      BY <1>2, <2>2 DEF Emits
    <3>3. goes(k) \in Valid
      BY <3>1, <3>2, InsideIsValid
    <3>4. Place(goes(k)) = <<q, k, 0>>
      BY <3>1, <3>2 DEF Place, Inside, NoStateId
    <3>5. QED
      BY <2>2, <3>3, <3>4
  <2>3. QED
    BY <2>1, <2>2
<1> HIDE DEF goes, to
<1>7. leave = [k \in 1 .. n |-> leave[k]] /\ DOMAIN leave = 1 .. n
  BY <1>2
<1>8. ASSUME NEW k \in 1 .. n
      PROVE  /\ leave[k].element = goes(k)
             /\ MeantOut(leave[k]) = [ilabel |-> 0, olabel |-> out[k].olabel, weight |-> out[k].weight,
                                      to |-> to(k)]
  <2>1. leave[k] = [ilabel |-> 0, olabel |-> out[k].olabel, weight |-> out[k].weight, element |-> goes(k)]
    BY <1>2, <1>3
  <2> HIDE DEF leave
  <2>2. QED
    BY <1>6, <2>1 DEF MeantOut
<1>9. ArcsOf(Place(Source(q)))
        = {[ilabel |-> 0, olabel |-> out[k].olabel, weight |-> out[k].weight, to |-> to(k)] : k \in 1 .. n}
  <2>1. Place(Source(q)) = <<q>>
    BY DEF Place, Source, NoStateId
  <2>2. Len(<<q>>) = 1 /\ <<q>>[1] = q
    OBVIOUS
  <2>3. ArcsOf(<<q>>) = {[ilabel |-> 0, olabel |-> out[k].olabel, weight |-> out[k].weight, to |-> to(k)]
                           : k \in DOMAIN out}
    BY <2>2 DEF ArcsOf, to
  <2>4. QED
    BY <1>2, <2>1, <2>3
<1> HIDE DEF leave
<1>10. Len(leave) = n
  BY <1>2, <1>7
<1>11. {MeantOut(leave[k]) : k \in 1 .. n} = ArcsOf(Place(Source(q)))
  BY <1>8, <1>9
<1>12. \A k \in 1 .. n : leave[k].element \in Valid
  BY <1>6, <1>8
<1> HIDE DEF n
<1>13. QED
  BY <1>1, <1>2, <1>7, <1>10, <1>11, <1>12 DEF LeavesRightly

\* Inside an arc: the arcs of the HMM its own label stands for.
LEMMA InsideLeaves ==
  ASSUME HmmsAreLong, ExpansionInv, network # <<>>,
         NEW q \in DOMAIN network.out, NEW s \in Nat, NEW i \in Nat, Emits(q, i)
  PROVE  LeavesRightly(Inside(q, s, i))
<1> DEFINE e == Inside(q, s, i)
           arc == network.out[q][i + 1]
           hmm_ == HmmOf(arc.ilabel)
           last == hmm_.numStates - 1
           out == ArcsFrom(hmm_.arcs, s)
           goes(a) == IF a.to = last THEN Source(arc.nextstate) ELSE Inside(q, a.to, i)
           to(a) == IF a.to = last THEN <<arc.nextstate>> ELSE <<q, i + 1, a.to>>
           leave == [k \in DOMAIN out |->
                       [ilabel |-> out[k].label, olabel |-> 0, weight |-> out[k].weight,
                        element |-> goes(out[k])]]
<1>1. i + 1 \in DOMAIN network.out[q] /\ ~IsEpsilonLabel(arc.ilabel) /\ q \in Nat
  BY OutIs DEF Emits
<1>2. /\ arc.ilabel \in Nat /\ arc.nextstate \in DOMAIN network.out
      /\ fst_.out[q][i + 1] = [ilabel |-> PhysicalLabel(arc.ilabel), olabel |-> arc.olabel,
                               weight |-> arc.weight, nextstate |-> arc.nextstate]
      /\ types[PhysicalLabel(arc.ilabel) + 1] = hmm_ /\ IsHmm(hmm_)
  <2>1. PICK a : a = network.out[q][i + 1]
    OBVIOUS
  <2>2. /\ a.ilabel \in Nat /\ a.nextstate \in DOMAIN network.out
        /\ fst_.out[q][i + 1] = [ilabel |-> PhysicalLabel(a.ilabel), olabel |-> a.olabel,
                                 weight |-> a.weight, nextstate |-> a.nextstate]
        /\ ~IsEpsilonLabel(a.ilabel) => /\ types[PhysicalLabel(a.ilabel) + 1] = HmmOf(a.ilabel)
                                        /\ IsHmm(HmmOf(a.ilabel))
    BY <1>1, <2>1, ArcAt
  <2>3. QED
    BY <1>1, <2>1, <2>2
<1>3. /\ e.state = q /\ e.arcstate = s /\ e.index = i /\ e.arcstate # NoStateId
      /\ FindArc(e).ilabel = PhysicalLabel(arc.ilabel) /\ FindArc(e).nextstate = arc.nextstate
  BY <1>2 DEF Inside, NoStateId, FindArc
<1> HIDE DEF hmm_, e
<1>4. Leave(e) = leave
  <2>1. types[FindArc(e).ilabel + 1] = hmm_
    BY <1>2, <1>3
  <2>2. Leave(e) = LeaveInside(e)
    BY <1>3 DEF Leave
  <2>3. QED
    BY <1>3, <2>1, <2>2 DEF LeaveInside
<1>5. PICK S : hmm_.arcs \in Seq(S)
  BY <1>2 DEF IsHmm
<1>6. out \in Seq(S) /\ ToSet(out) = {a \in ToSet(hmm_.arcs) : a.from = s}
  BY <1>5, ArcsFromIs
<1> HIDE DEF out
<1> DEFINE n == Len(out)
<1>7. n \in Nat /\ DOMAIN out = 1 .. n /\ ToSet(out) = {out[k] : k \in 1 .. n}
  BY <1>6 DEF ToSet
<1>8. ASSUME NEW a \in ToSet(out)
      PROVE  goes(a) \in Valid /\ Place(goes(a)) = to(a)
  <2>1. a.to \in Nat
    BY <1>2, <1>6 DEF IsHmm, IsHmmArc
  <2>2. CASE a.to = last
    <3>1. goes(a) \in Valid
      BY <1>2, <2>2, SourceIsValid
    <3>2. Place(goes(a)) = <<arc.nextstate>>
      BY <2>2 DEF Place, Source, NoStateId
    <3>3. QED
      BY <2>2, <3>1, <3>2
  <2>3. CASE a.to # last
    <3>1. goes(a) \in Valid
      BY <2>1, <2>3, InsideIsValid
    <3>2. Place(goes(a)) = <<q, i + 1, a.to>>
      BY <2>1, <2>3 DEF Place, Inside, NoStateId
    <3>3. QED
      BY <2>3, <3>1, <3>2
  <2>4. QED
    BY <2>2, <2>3
<1> HIDE DEF goes, to
<1>9. leave = [k \in 1 .. n |-> leave[k]] /\ DOMAIN leave = 1 .. n
  BY <1>7
<1>10. ASSUME NEW k \in 1 .. n
       PROVE  /\ leave[k].element = goes(out[k])
              /\ MeantOut(leave[k]) = [ilabel |-> out[k].label, olabel |-> 0, weight |-> out[k].weight,
                                       to |-> to(out[k])]
  <2>1. leave[k] = [ilabel |-> out[k].label, olabel |-> 0, weight |-> out[k].weight,
                    element |-> goes(out[k])]
    BY <1>7
  <2>2. out[k] \in ToSet(out)
    BY <1>7
  <2> HIDE DEF leave
  <2>3. QED
    BY <1>8, <2>1, <2>2 DEF MeantOut
<1> DEFINE meant(a) == [ilabel |-> a.label, olabel |-> 0, weight |-> a.weight, to |-> to(a)]
<1>11. ArcsOf(Place(e)) = {meant(a) : a \in ToSet(out)}
  <2>1. Place(e) = <<q, i + 1, s>>
    BY <1>3 DEF Place
  <2>2. Len(<<q, i + 1, s>>) = 3 /\ <<q, i + 1, s>>[1] = q /\ <<q, i + 1, s>>[2] = i + 1
        /\ <<q, i + 1, s>>[3] = s
    OBVIOUS
  <2>3. ArcsOf(<<q, i + 1, s>>) = {meant(a) : a \in {b \in ToSet(hmm_.arcs) : b.from = s}}
    BY <2>2 DEF ArcsOf, to, hmm_
  <2>4. QED
    BY <1>6, <2>1, <2>3
<1> HIDE DEF leave
<1>12. Len(leave) = n
  BY <1>7, <1>9
<1>13. {MeantOut(leave[k]) : k \in 1 .. n} = ArcsOf(Place(e))
  <2>1. \A k \in 1 .. n : MeantOut(leave[k]) = meant(out[k])
    BY <1>10
  <2> HIDE DEF meant, n
  <2>2. {MeantOut(leave[k]) : k \in 1 .. n} = {meant(out[k]) : k \in 1 .. n}
    BY <2>1
  <2>3. {meant(a) : a \in ToSet(out)} = {meant(out[k]) : k \in 1 .. n}
    BY <1>7
  <2>4. QED
    BY <1>11, <2>2, <2>3
<1>14. \A k \in 1 .. n : leave[k].element \in Valid
  BY <1>7, <1>8, <1>10
<1> HIDE DEF n
<1>15. LeavesRightly(e)
  BY <1>4, <1>7, <1>9, <1>12, <1>13, <1>14 DEF LeavesRightly
<1>16. QED
  BY <1>15 DEF e

LEMMA ElementLeaves ==
  ASSUME EpsilonsLast(Networks), HmmsAreLong, ExpansionInv, network # <<>>, NEW e \in Valid
  PROVE  LeavesRightly(e)
<1>1. CASE \E q \in DOMAIN network.out : e = Source(q)
  BY <1>1, SourceLeaves
<1>2. CASE \E q \in DOMAIN network.out, a \in Nat, i \in Nat : e = Inside(q, a, i) /\ Emits(q, i)
  BY <1>2, InsideLeaves
<1>3. QED
  BY <1>1, <1>2 DEF Valid, IsElement

-----------------------------------------------------------------------------
(* Pushing arcs *)

LEMMA StillPushes ==
  ASSUME NEW S, NEW table \in Seq(S), NEW t \in Seq(S), Extends(t, table), NEW e, NEW pushed, Pushes(table, e, pushed)
  PROVE  Pushes(t, e, pushed)
<1>1. Len(table) \in Nat /\ Len(t) \in Nat
  OBVIOUS
<1>2. ASSUME NEW k \in 1 .. Len(pushed)
      PROVE  /\ pushed[k].nextstate + 1 \in 1 .. Len(t)
             /\ MeantIn(t, pushed[k]) = MeantIn(table, pushed[k])
  <2>1. pushed[k].nextstate + 1 \in 1 .. Len(table)
    BY DEF Pushes
  <2>2. t[pushed[k].nextstate + 1] = table[pushed[k].nextstate + 1]
    BY <2>1 DEF Extends
  <2>3. pushed[k].nextstate + 1 \in 1 .. Len(t)
    BY <1>1, <2>1 DEF Extends
  <2>4. QED
    BY <2>2, <2>3 DEF MeantIn
<1>3. {MeantIn(t, pushed[k]) : k \in 1 .. Len(pushed)} = {MeantIn(table, pushed[k]) : k \in 1 .. Len(pushed)}
  BY <1>2
<1>4. QED
  BY <1>2, <1>3 DEF Pushes

\* The arcs of one expansion, when the table has the elements they lead to.
Arcs1(t, out) ==
  [k \in DOMAIN out |-> [ilabel |-> out[k].ilabel, olabel |-> out[k].olabel,
                         weight |-> out[k].weight, nextstate |-> StateOf(t, out[k].element)]]

LEMMA PushesOnce ==
  ASSUME NEW e, LeavesRightly(e), NEW S, NEW t \in Seq(S), \A k \in 1 .. Len(Leave(e)) : Leave(e)[k].element \in ToSet(t)
  PROVE  Pushes(t, e, Arcs1(t, Leave(e))) /\ Len(Arcs1(t, Leave(e))) = Len(Leave(e))
<1>1. PICK out : out = Leave(e)
  OBVIOUS
<1>2. PICK n \in Nat : n = Len(out) /\ DOMAIN out = 1 .. n
  BY <1>1 DEF LeavesRightly
<1>3. {MeantOut(out[k]) : k \in 1 .. n} = ArcsOf(Place(e)) /\ \A k \in 1 .. n : out[k].element \in ToSet(t)
  BY <1>1, <1>2 DEF LeavesRightly
<1> DEFINE pushed == Arcs1(t, out)
<1>4. pushed = [k \in 1 .. n |-> pushed[k]] /\ DOMAIN pushed = 1 .. n
  BY <1>2 DEF Arcs1
<1>5. ASSUME NEW k \in 1 .. n
      PROVE  /\ pushed[k].nextstate + 1 \in 1 .. Len(t)
             /\ MeantIn(t, pushed[k]) = MeantOut(out[k])
  <2>1. PICK d : d = StateOf(t, out[k].element)
    OBVIOUS
  <2>2. d + 1 \in 1 .. Len(t) /\ t[d + 1] = out[k].element
    <3>1. PICK x : x = out[k].element
      OBVIOUS
    <3>2. x \in ToSet(t)
      BY <1>3, <3>1
    <3>3. QED
      BY <2>1, <3>1, <3>2, StateOfIs
  <2>3. pushed[k] = [ilabel |-> out[k].ilabel, olabel |-> out[k].olabel,
                     weight |-> out[k].weight, nextstate |-> d]
    BY <1>2, <2>1 DEF Arcs1
  <2> HIDE DEF pushed
  <2>4. QED
    BY <2>2, <2>3 DEF MeantIn, MeantOut
<1> HIDE DEF pushed
<1>6. \E T : pushed \in Seq(T)
  <2>1. pushed \in Seq({pushed[k] : k \in 1 .. n})
    BY <1>2, <1>4
  <2>2. QED
    BY <2>1
<1>7. Len(pushed) = n
  BY <1>2, <1>4
<1>8. {MeantIn(t, pushed[k]) : k \in 1 .. n} = {MeantOut(out[k]) : k \in 1 .. n}
  BY <1>5
<1>9. Pushes(t, e, pushed)
  BY <1>3, <1>5, <1>6, <1>7, <1>8 DEF Pushes
<1>10. QED
  BY <1>1, <1>2, <1>7, <1>9 DEF pushed

LEMMA PushesAgain ==
  ASSUME NEW t, NEW e, NEW p, NEW r, Pushes(t, e, p), Pushes(t, e, r)
  PROVE  Pushes(t, e, p \o r) /\ Len(p \o r) = Len(p) + Len(r)
<1>1. PICK S : p \in Seq(S)
  BY DEF Pushes
<1>2. PICK T : r \in Seq(T)
  BY DEF Pushes
<1>3. p \in Seq(S \cup T) /\ r \in Seq(S \cup T)
  BY <1>1, <1>2
<1>4. PICK m \in Nat : m = Len(p)
  BY <1>1
<1>5. PICK n \in Nat : n = Len(r)
  BY <1>2
<1>6. PICK s : s = p \o r
  OBVIOUS
<1>7. /\ s \in Seq(S \cup T) /\ Len(s) = m + n
      /\ \A k \in 1 .. m : s[k] = p[k]
      /\ \A k \in 1 .. n : s[m + k] = r[k]
  <2>1. s \in Seq(S \cup T) /\ Len(s) = m + n
    BY <1>3, <1>4, <1>5, <1>6
  <2>2. ASSUME NEW k \in 1 .. m PROVE s[k] = p[k]
    BY <1>3, <1>4, <1>5, <1>6
  <2>3. ASSUME NEW k \in 1 .. n PROVE s[m + k] = r[k]
    BY <1>3, <1>4, <1>5, <1>6
  <2>4. QED
    BY <2>1, <2>2, <2>3
<1>8. \A k \in 1 .. m + n : (k \in 1 .. m) \/ (k - m \in 1 .. n /\ m + (k - m) = k)
  OBVIOUS
<1>9. ASSUME NEW k \in 1 .. m + n
      PROVE  s[k].nextstate + 1 \in 1 .. Len(t) /\ MeantIn(t, s[k]) \in ArcsOf(Place(e))
  <2>1. CASE k \in 1 .. m
    BY <1>4, <1>7, <2>1 DEF Pushes
  <2>2. CASE k - m \in 1 .. n /\ m + (k - m) = k
    <3>1. s[k] = r[k - m]
      BY <1>7, <2>2
    <3>2. QED
      BY <1>5, <2>2, <3>1 DEF Pushes
  <2>3. QED
    BY <1>8, <2>1, <2>2
<1>10. ASSUME NEW a \in ArcsOf(Place(e))
       PROVE  \E k \in 1 .. m + n : a = MeantIn(t, s[k])
  <2>1. PICK k \in 1 .. m : a = MeantIn(t, p[k])
    BY <1>4 DEF Pushes
  <2>2. k \in 1 .. m + n /\ s[k] = p[k]
    BY <1>7
  <2>3. QED
    BY <2>1, <2>2
<1>11. {MeantIn(t, s[k]) : k \in 1 .. m + n} = ArcsOf(Place(e))
  BY <1>9, <1>10
<1>12. Pushes(t, e, s)
  <2>1. Len(s) = m + n /\ (\E V : s \in Seq(V))
    BY <1>7
  <2>2. QED
    BY <1>9, <1>11, <2>1 DEF Pushes
<1>13. QED
  BY <1>4, <1>5, <1>6, <1>7, <1>12

LEMMA FinalIsSet ==
  ASSUME NEW p, NEW f, NEW g
  PROVE  [CacheEntry(p, f, FALSE) EXCEPT !.hasFinal = TRUE, !.final = g] = CacheEntry(p, g, TRUE)
<1>1. PICK yes : yes = TRUE
  OBVIOUS
<1>2. PICK no : no = FALSE
  OBVIOUS
<1>3. PICK o : o = [arcs |-> p, hasArcs |-> yes, final |-> f, hasFinal |-> no]
  OBVIOUS
<1>4. PICK r : r = [arcs |-> p, hasArcs |-> yes, final |-> f, hasFinal |-> yes]
  OBVIOUS
<1>5. [o EXCEPT !.hasFinal = yes] = r
  BY ONLY <1>3, <1>4
<1>6. [r EXCEPT !.final = g] = [arcs |-> p, hasArcs |-> yes, final |-> g, hasFinal |-> yes]
  BY ONLY <1>4
<1>7. [o EXCEPT !.hasFinal = yes, !.final = g] = [[o EXCEPT !.hasFinal = yes] EXCEPT !.final = g]
  BY ONLY TRUE
<1>8. [o EXCEPT !.hasFinal = yes, !.final = g] = [arcs |-> p, hasArcs |-> yes, final |-> g, hasFinal |-> yes]
  BY ONLY <1>5, <1>6, <1>7
<1>9. QED
  BY <1>1, <1>2, <1>3, <1>8, Zenon DEF CacheEntry

LEMMA ArcsAreSet ==
  ASSUME NEW old, NEW p,
         old = [arcs |-> old.arcs, hasArcs |-> old.hasArcs, final |-> old.final, hasFinal |-> FALSE]
  PROVE  [old EXCEPT !.arcs = p, !.hasArcs = TRUE] = CacheEntry(p, old.final, FALSE)
<1>1. PICK f : f = old.final
  OBVIOUS
<1>2. PICK a : a = old.arcs
  OBVIOUS
<1>3. PICK h : h = old.hasArcs
  OBVIOUS
<1>4. PICK yes : yes = TRUE
  OBVIOUS
<1>5. PICK no : no = FALSE
  OBVIOUS
<1>6. old = [arcs |-> a, hasArcs |-> h, final |-> f, hasFinal |-> no]
  BY <1>1, <1>2, <1>3, <1>5, Zenon
<1>7. PICK o : o = [arcs |-> p, hasArcs |-> h, final |-> f, hasFinal |-> no]
  OBVIOUS
<1>8. [old EXCEPT !.arcs = p] = o
  BY ONLY <1>6, <1>7
<1>9. [o EXCEPT !.hasArcs = yes] = [arcs |-> p, hasArcs |-> yes, final |-> f, hasFinal |-> no]
  BY ONLY <1>7
<1>10. [old EXCEPT !.arcs = p, !.hasArcs = yes] = [[old EXCEPT !.arcs = p] EXCEPT !.hasArcs = yes]
  BY ONLY TRUE
<1>11. [old EXCEPT !.arcs = p, !.hasArcs = yes] = [arcs |-> p, hasArcs |-> yes, final |-> f, hasFinal |-> no]
  BY ONLY <1>8, <1>9, <1>10
<1>12. QED
  BY <1>1, <1>4, <1>5, <1>11, Zenon DEF CacheEntry

LEMMA ExpandedIs ==
  ASSUME EpsilonsLast(Networks), HmmsAreLong, ExpansionInv, network # <<>>,
         NEW s \in States, NEW e, e = elements[s + 1], NEW t, t = Expanded(s).elements,
         Cached(s).hasFinal = FALSE
  PROVE  /\ e \in Valid /\ Len(Leave(e)) \in Nat
         /\ t \in Seq(Valid) /\ Extends(t, elements)
         /\ ~Cached(s).hasArcs => IsExpansion(t, e, Expanded(s).entry)
         /\ IsExpansion(t, e, [Expanded(s).entry EXCEPT !.hasFinal = TRUE, !.final = FinalOf(e)])
<1>1. elements \in Seq(Valid) /\ SharingInv
  BY DEF ExpansionInv, ElementsInv
<1>2. s + 1 \in 1 .. Len(elements) /\ e \in Valid
  BY <1>1 DEF States
<1>3. LeavesRightly(e)
  BY <1>2, ElementLeaves
<1> DEFINE out == Leave(e)
           old == Cached(s)
           new == Arcs1(t, out)
           pushed == old.arcs \o new
           x == Expanded(s).entry
<1>4. t = AddElements(elements, out)
  BY DEF Expanded
<1>5. /\ t \in Seq(Valid) /\ Extends(t, elements)
      /\ \A k \in 1 .. Len(out) : out[k].element \in ToSet(t)
  <2>1. Len(out) \in Nat /\ \A k \in 1 .. Len(out) : out[k].element \in Valid
    BY <1>3 DEF LeavesRightly
  <2> HIDE DEF out
  <2>2. QED
    BY <1>1, <1>4, <2>1, AddElementsIs
<1>6. Pushes(t, e, new) /\ Len(new) = Len(out)
  BY <1>3, <1>5, PushesOnce
<1>7. x = [old EXCEPT !.arcs = pushed, !.hasArcs = TRUE]
  BY <1>4 DEF Expanded, Arcs1
<1>8. /\ old = [arcs |-> old.arcs, hasArcs |-> old.hasArcs, final |-> old.final, hasFinal |-> FALSE]
      /\ \/ old.arcs = <<>> /\ ~old.hasArcs
         \/ old.hasArcs = TRUE /\ Pushes(elements, e, old.arcs) /\ Len(old.arcs) = Len(out)
  <2>1. CASE s \in DOMAIN cache
    <3>1. IsExpansion(elements, e, cache[s]) /\ old = cache[s]
      BY <2>1 DEF ExpansionInv, CacheInv, Cached
    <3> HIDE DEF old, out
    <3>2. cache[s] = CacheEntry(old.arcs, old.final, old.hasFinal)
      BY <3>1 DEF IsExpansion
    <3>3. old = [arcs |-> old.arcs, hasArcs |-> TRUE, final |-> old.final, hasFinal |-> FALSE]
      BY <3>1, <3>2 DEF CacheEntry, old
    <3>4. old.hasFinal = FALSE /\ old.hasArcs = TRUE
      BY <3>3
    <3>5. Pushes(elements, e, old.arcs) /\ Len(old.arcs) = Len(out)
      BY <3>1, <3>4 DEF IsExpansion, out
    <3>6. QED
      BY <3>3, <3>4, <3>5
  <2>2. CASE s \notin DOMAIN cache
    BY <2>2 DEF Cached, NotCached
  <2>3. QED
    BY <2>1, <2>2
<1> HIDE DEF x, old, new, out, pushed
<1>9. x = CacheEntry(pushed, old.final, FALSE)
  BY <1>7, <1>8, ArcsAreSet
<1>10. [x EXCEPT !.hasFinal = TRUE, !.final = FinalOf(e)] = CacheEntry(pushed, FinalOf(e), TRUE)
  <2>1. PICK g : g = FinalOf(e)
    OBVIOUS
  <2>2. PICK f : f = old.final
    OBVIOUS
  <2>3. [CacheEntry(pushed, f, FALSE) EXCEPT !.hasFinal = TRUE, !.final = g] = CacheEntry(pushed, g, TRUE)
    BY FinalIsSet
  <2>4. QED
    BY <1>9, <2>1, <2>2, <2>3
<1>11. Len(out) \in Nat
  BY <1>3 DEF LeavesRightly, out
<1>12. CASE old.arcs = <<>> /\ ~old.hasArcs
  <2>1. pushed = new
    <3>1. PICK S : new \in Seq(S)
      BY <1>6 DEF Pushes
    <3>2. QED
      BY <1>12, <3>1 DEF pushed
  <2>2. IsExpansion(t, e, CacheEntry(pushed, old.final, FALSE))
    BY <1>6, <2>1 DEF IsExpansion, CacheEntry, out
  <2>3. IsExpansion(t, e, CacheEntry(pushed, FinalOf(e), TRUE))
    BY <1>6, <1>11, <2>1 DEF IsExpansion, CacheEntry, out
  <2>4. QED
    BY <1>2, <1>5, <1>9, <1>10, <1>11, <2>2, <2>3 DEF x, out
<1>13. CASE old.hasArcs = TRUE /\ Pushes(elements, e, old.arcs) /\ Len(old.arcs) = Len(out)
  <2>1. Pushes(t, e, old.arcs)
    BY <1>1, <1>5, <1>13, StillPushes
  <2>2. Pushes(t, e, pushed) /\ Len(pushed) = Len(out) + Len(out)
    BY <1>6, <1>13, <2>1, PushesAgain DEF pushed
  <2>3. IsExpansion(t, e, CacheEntry(pushed, FinalOf(e), TRUE))
    BY <1>11, <2>2 DEF IsExpansion, CacheEntry, out
  <2>4. QED
    BY <1>2, <1>5, <1>10, <1>11, <1>13, <2>3 DEF x, out, old
<1>14. QED
  BY <1>8, <1>12, <1>13

-----------------------------------------------------------------------------
(* Steps of the expansion *)

LEMMA InitExpansion == Init => ExpansionInv
<1> SUFFICES ASSUME Init PROVE ExpansionInv
  OBVIOUS
<1>1. SharingInv
  BY InitSharing DEF Init
<1>2. TablesDone
  BY DEF Init, TypesInit, TablesDone
<1>3. network = <<>> /\ elements = <<>> /\ cache = <<>>
  BY DEF Init, ExpandInit
<1>4. NetworkInv /\ ElementsInv
  BY <1>3 DEF NetworkInv, ElementsInv
<1>5. CacheInv
  <2>1. DOMAIN cache = {}
    BY <1>3
  <2>2. QED
    BY <2>1 DEF CacheInv
<1>6. QED
  BY <1>1, <1>2, <1>4, <1>5 DEF ExpansionInv

\* No call of a client touches the tables or the network.
Frame == UNCHANGED <<typeVars, network, fst_, types>>

LEMMA FrameKeeps ==
  ASSUME ExpansionInv, network # <<>>, Frame
  PROVE  /\ SharingInv' /\ TablesDone' /\ NetworkInv'
         /\ Valid' = Valid
         /\ \A t, e, x : IsExpansion(t, e, x)' <=> IsExpansion(t, e, x)
<1>1. /\ ilabel_info' = ilabel_info /\ opts' = opts /\ made' = made /\ fsts' = fsts
      /\ log2phys' = log2phys /\ log2physmap' = log2physmap /\ arcs' = arcs /\ scale' = scale
      /\ network' = network /\ fst_' = fst_ /\ types' = types
  BY DEF Frame, typeVars
<1>2. SharingInv'
  <2>1. SharingInv /\ ReadInv'
    BY <1>1 DEF ExpansionInv, SharingInv, ReadInv
  <2>2. QED
    BY <1>1, <2>1, NothingMadeKeeps
<1>3. TablesDone'
  BY <1>1 DEF ExpansionInv, TablesDone
<1>4. Relabel(network)' = Relabel(network)
  BY <1>1 DEF Relabel, RelabelArc, PhysicalLabel
<1>5. NetworkInv'
  BY <1>1, <1>4 DEF ExpansionInv, NetworkInv
<1>6. \A label : /\ IsEpsilonLabel(label)' <=> IsEpsilonLabel(label)
                 /\ HmmOf(label)' = HmmOf(label)
  BY <1>1 DEF IsEpsilonLabel, HmmOf, AsRead
<1>7. \A e : IsElement(e)' <=> IsElement(e)
  BY <1>1, <1>6 DEF IsElement, Emits
<1>8. Valid' = Valid
  BY <1>7 DEF Valid
<1>9. \A e : Leave(e)' = Leave(e)
  <2>1. (\A e : FindArc(e)' = FindArc(e)) /\ Epsilons' = Epsilons
    BY <1>1 DEF FindArc, Epsilons
  <2>2. \A e : LeaveSource(e)' = LeaveSource(e)
    BY <1>1, <2>1 DEF LeaveSource
  <2>3. \A e : LeaveInside(e)' = LeaveInside(e)
    BY <1>1, <2>1 DEF LeaveInside
  <2>4. QED
    BY <2>2, <2>3 DEF Leave
<1>10. \A place : ArcsOf(place)' = ArcsOf(place)
  <2>1. TAKE place
  <2>2. network' = network
    BY <1>1
  <2>3. QED
    BY <1>6, <2>2 DEF ArcsOf
<1>11. \A e : FinalOf(e)' = FinalOf(e)
  BY <1>1 DEF FinalOf
<1>12. \A t, e, x : IsExpansion(t, e, x)' <=> IsExpansion(t, e, x)
  BY <1>9, <1>10, <1>11 DEF IsExpansion, Pushes
<1>13. QED
  BY <1>2, <1>3, <1>5, <1>8, <1>12

\* What a cached state has stays right when the table grows.
LEMMA StillExpansion ==
  ASSUME NEW S, NEW table \in Seq(S), NEW t \in Seq(S), Extends(t, table),
         NEW e, NEW x, IsExpansion(table, e, x)
  PROVE  IsExpansion(t, e, x)
BY StillPushes DEF IsExpansion

\* A call that lets the table grow, and gives one state at most another entry.
LEMMA CallKeeps ==
  ASSUME ExpansionInv, network # <<>>, Frame,
         elements' \in Seq(Valid), Extends(elements', elements),
         Len(elements) = 0 /\ Len(elements') > 0 => elements'[1] = Source(network.start),
         \A s \in DOMAIN cache' :
           \/ s \in DOMAIN cache /\ cache'[s] = cache[s]
           \/ s \in States /\ IsExpansion(elements', elements[s + 1], cache'[s])
  PROVE  ExpansionInv'
<1>1. /\ SharingInv' /\ TablesDone' /\ NetworkInv' /\ Valid' = Valid
      /\ \A t, e, x : IsExpansion(t, e, x)' <=> IsExpansion(t, e, x)
  BY FrameKeeps
<1>2. network' = network
  BY DEF Frame
<1>3. elements \in Seq(Valid) /\ (Len(elements) > 0 => elements[1] = Source(network.start))
  BY DEF ExpansionInv, ElementsInv
<1>4. PICK table \in Seq(Valid) : table = elements
  BY <1>3
<1>5. PICK t \in Seq(Valid) : t = elements'
  OBVIOUS
<1>6. Len(table) \in Nat /\ Len(t) \in Nat /\ Extends(t, table)
  BY <1>4, <1>5
<1>7. ElementsInv'
  <2>1. Len(t) > 0 => t[1] = Source(network.start)
    BY <1>3, <1>4, <1>5, <1>6 DEF Extends
  <2>2. QED
    BY <1>1, <1>2, <1>5, <2>1 DEF ElementsInv
<1>8. ASSUME NEW s \in DOMAIN cache'
      PROVE  s \in 0 .. Len(t) - 1 /\ IsExpansion(t, t[s + 1], cache'[s])
  <2>1. CASE s \in DOMAIN cache /\ cache'[s] = cache[s]
    <3>1. s \in 0 .. Len(table) - 1 /\ IsExpansion(table, table[s + 1], cache[s])
      BY <1>4, <2>1 DEF ExpansionInv, CacheInv
    <3>2. s \in 0 .. Len(t) - 1 /\ t[s + 1] = table[s + 1]
      BY <1>6, <3>1 DEF Extends
    <3>3. PICK e : e = table[s + 1]
      OBVIOUS
    <3>4. PICK x : x = cache[s]
      OBVIOUS
    <3>5. IsExpansion(t, e, x)
      BY <1>6, <3>1, <3>3, <3>4, StillExpansion
    <3>6. QED
      BY <2>1, <3>2, <3>3, <3>4, <3>5
  <2>2. CASE s \in States /\ IsExpansion(elements', elements[s + 1], cache'[s])
    <3>1. s \in 0 .. Len(table) - 1 /\ IsExpansion(t, table[s + 1], cache'[s])
      BY <1>4, <1>5, <2>2 DEF States
    <3>2. s \in 0 .. Len(t) - 1 /\ t[s + 1] = table[s + 1]
      BY <1>6, <3>1 DEF Extends
    <3>3. QED
      BY <3>1, <3>2
  <2>3. QED
    BY <2>1, <2>2
<1>9. CacheInv'
  <2>1. ASSUME NEW s \in DOMAIN cache'
        PROVE  IsExpansion(elements, elements[s + 1], cache[s])'
    <3>1. PICK e : e = t[s + 1]
      OBVIOUS
    <3>2. PICK x : x = cache'[s]
      OBVIOUS
    <3>3. IsExpansion(t, e, x)'
      BY <1>1, <1>8, <3>1, <3>2
    <3>4. QED
      BY <1>5, <3>1, <3>2, <3>3
  <2>2. QED
    BY <1>5, <1>8, <2>1 DEF CacheInv
<1>10. QED
  BY <1>1, <1>7, <1>9 DEF ExpansionInv

LEMMA CallFrames ==
  ASSUME Call, UNCHANGED <<typeVars, network, hmmVars>>
  PROVE  Frame
BY DEF Call, Frame

LEMMA StartKeeps ==
  ASSUME ExpansionInv, network # <<>>, Start, UNCHANGED <<typeVars, network, hmmVars>>
  PROVE  ExpansionInv'
<1>1. Frame /\ cache' = cache /\ elements' = AddElement(elements, Source(fst_.start))
  BY CallFrames DEF Start
<1>2. network \in Networks
  BY DEF ExpansionInv, NetworkInv
<1>3. network.start \in DOMAIN network.out
  BY <1>2, SearchGraphAssumption
<1>4. fst_.start = network.start /\ Source(network.start) \in Valid
  BY <1>3, OutIs, SourceIsValid
<1>5. PICK table \in Seq(Valid) : table = elements
  BY DEF ExpansionInv, ElementsInv
<1>6. PICK e \in Valid : e = Source(network.start)
  BY <1>4
<1>7. elements' = AddElement(table, e)
  BY <1>1, <1>4, <1>5, <1>6
<1>8. elements' \in Seq(Valid) /\ Extends(elements', elements)
  <2>1. /\ AddElement(table, e) \in Seq(Valid) /\ Len(table) <= Len(AddElement(table, e))
        /\ \A i \in 1 .. Len(table) : AddElement(table, e)[i] = table[i]
    BY AddElementIs
  <2>2. QED
    BY <1>5, <1>7, <2>1 DEF Extends
<1>9. Len(elements) = 0 /\ Len(elements') > 0 => elements'[1] = Source(network.start)
  <2>1. SUFFICES ASSUME Len(table) = 0 PROVE AddElement(table, e)[1] = e
    BY <1>5, <1>6, <1>7
  <2>2. DOMAIN table = {}
    BY <2>1
  <2>3. AddElement(table, e) = Append(table, e)
    BY <2>2 DEF AddElement, ToSet
  <2>4. QED
    BY <2>1, <2>3
<1>10. QED
  BY <1>1, <1>8, <1>9, CallKeeps

LEMMA PutIs ==
  ASSUME NEW s, NEW x, Put(s, x)
  PROVE  \A d \in DOMAIN cache' : (d = s /\ cache'[d] = x) \/ (d \in DOMAIN cache /\ cache'[d] = cache[d])
BY DEF Put

LEMMA ArcsKeeps ==
  ASSUME EpsilonsLast(Networks), HmmsAreLong, ExpansionInv, network # <<>>,
         NEW s \in States, Arcs(s), UNCHANGED <<typeVars, network, hmmVars>>
  PROVE  ExpansionInv'
<1>1. /\ Frame /\ ~Cached(s).hasArcs /\ elements' = Expanded(s).elements
      /\ Put(s, Expanded(s).entry)
  BY CallFrames DEF Arcs
<1>2. Cached(s).hasFinal = FALSE
  <2>1. s \notin DOMAIN cache
    <3>1. SUFFICES ASSUME s \in DOMAIN cache PROVE cache[s].hasArcs
      BY <1>1 DEF Cached
    <3>2. cache[s] = CacheEntry(cache[s].arcs, cache[s].final, cache[s].hasFinal)
      BY <3>1 DEF ExpansionInv, CacheInv, IsExpansion
    <3>3. QED
      BY <3>2 DEF CacheEntry
  <2>2. QED
    BY <2>1 DEF Cached, NotCached
<1>3. PICK t : t = Expanded(s).elements
  OBVIOUS
<1>4. PICK e : e = elements[s + 1]
  OBVIOUS
<1>5. /\ t \in Seq(Valid) /\ Extends(t, elements)
      /\ IsExpansion(t, e, Expanded(s).entry)
  BY <1>1, <1>2, <1>3, <1>4, ExpandedIs
<1>6. Len(elements) # 0
  BY DEF States, ExpansionInv, ElementsInv
<1>7. ASSUME NEW d \in DOMAIN cache'
      PROVE  \/ d \in DOMAIN cache /\ cache'[d] = cache[d]
             \/ d \in States /\ IsExpansion(elements', elements[d + 1], cache'[d])
  <2>1. (d = s /\ cache'[d] = Expanded(s).entry) \/ (d \in DOMAIN cache /\ cache'[d] = cache[d])
    BY <1>1, PutIs
  <2>2. QED
    BY <1>1, <1>3, <1>4, <1>5, <2>1
<1>8. QED
  BY <1>1, <1>3, <1>5, <1>6, <1>7, CallKeeps

LEMMA FinalKeeps ==
  ASSUME EpsilonsLast(Networks), HmmsAreLong, ExpansionInv, network # <<>>,
         NEW s \in States, Final(s), UNCHANGED <<typeVars, network, hmmVars>>
  PROVE  ExpansionInv'
<1>1. PICK e : e = elements[s + 1]
  OBVIOUS
<1>2. PICK x : x = [Expanded(s).entry EXCEPT !.hasFinal = TRUE, !.final = FinalOf(e)]
  OBVIOUS
<1>3. elements \in Seq(Valid) /\ s + 1 \in 1 .. Len(elements)
  BY DEF ExpansionInv, ElementsInv, States
<1>4. fst_.final = network.final
  <2>1. network \in Networks
    BY DEF ExpansionInv, NetworkInv
  <2>2. network.start \in DOMAIN network.out
    BY <2>1, SearchGraphAssumption
  <2>3. QED
    BY <2>2, OutIs
<1>5. (IF e.arcstate = NoStateId THEN fst_.final[e.state] ELSE Zero) = FinalOf(e)
  BY <1>4 DEF FinalOf
<1>6. /\ Frame /\ ~Cached(s).hasFinal /\ elements' = Expanded(s).elements
      /\ Put(s, x)
  BY <1>1, <1>2, <1>5, CallFrames DEF Final
<1>7. Cached(s).hasFinal = FALSE
  <2>1. CASE s \in DOMAIN cache
    BY <1>6, <2>1 DEF Cached, ExpansionInv, CacheInv, IsExpansion
  <2>2. CASE s \notin DOMAIN cache
    BY <2>2 DEF Cached, NotCached
  <2>3. QED
    BY <2>1, <2>2
<1>8. PICK t : t = Expanded(s).elements
  OBVIOUS
<1>9. t \in Seq(Valid) /\ Extends(t, elements) /\ IsExpansion(t, e, x)
  BY <1>1, <1>2, <1>7, <1>8, ExpandedIs
<1>10. Len(elements) # 0
  BY <1>3
<1>11. ASSUME NEW d \in DOMAIN cache'
       PROVE  \/ d \in DOMAIN cache /\ cache'[d] = cache[d]
              \/ d \in States /\ IsExpansion(elements', elements[d + 1], cache'[d])
  <2>1. (d = s /\ cache'[d] = x) \/ (d \in DOMAIN cache /\ cache'[d] = cache[d])
    BY <1>6, PutIs
  <2>2. QED
    BY <1>1, <1>6, <1>8, <1>9, <2>1
<1>12. QED
  BY <1>6, <1>8, <1>9, <1>10, <1>11, CallKeeps

LEMMA DropKeeps ==
  ASSUME ExpansionInv, network # <<>>, NEW s \in States, Drop(s), UNCHANGED <<typeVars, network, hmmVars>>
  PROVE  ExpansionInv'
<1>1. /\ Frame /\ elements' = elements
      /\ cache' = [d \in DOMAIN cache \ {s} |-> cache[d]]
  BY CallFrames DEF Drop
<1>2. elements \in Seq(Valid) /\ Len(elements) \in Nat
  BY DEF ExpansionInv, ElementsInv
<1>3. elements' \in Seq(Valid) /\ Extends(elements', elements)
  BY <1>1, <1>2 DEF Extends
<1>4. \A d \in DOMAIN cache' : d \in DOMAIN cache /\ cache'[d] = cache[d]
  BY <1>1
<1>5. Len(elements) = 0 => ~(Len(elements') > 0)
  BY <1>1
<1>6. QED
  BY <1>1, <1>3, <1>4, <1>5, CallKeeps

LEMMA OpenNetworkKeeps ==
  ASSUME ExpansionInv, OpenNetwork PROVE ExpansionInv'
<1>1. /\ network = <<>> /\ made = "read" /\ network' \in Networks
      /\ \A q \in DOMAIN network'.out : \A k \in DOMAIN network'.out[q] :
           network'.out[q][k].ilabel < Len(ilabel_info)
      /\ fst_' = Relabel(network') /\ types' = arcs /\ elements' = elements /\ cache' = cache
      /\ UNCHANGED typeVars
  BY DEF OpenNetwork, Idle, Construct
<1>2. elements = <<>> /\ cache = <<>>
  BY <1>1 DEF ExpansionInv, NetworkInv
<1>3. /\ ilabel_info' = ilabel_info /\ opts' = opts /\ made' = made /\ fsts' = fsts
      /\ log2phys' = log2phys /\ log2physmap' = log2physmap /\ arcs' = arcs /\ scale' = scale
  BY <1>1 DEF typeVars
<1>4. SharingInv'
  <2>1. SharingInv /\ ReadInv'
    BY <1>3 DEF ExpansionInv, SharingInv, ReadInv
  <2>2. QED
    BY <1>3, <2>1, NothingMadeKeeps
<1>5. TablesDone'
  BY <1>3 DEF ExpansionInv, TablesDone
<1>6. Relabel(network)' = Relabel(network')
  BY <1>3 DEF Relabel, RelabelArc, PhysicalLabel
<1>7. NetworkInv'
  BY <1>1, <1>2, <1>3, <1>6 DEF NetworkInv
<1>8. ElementsInv'
  BY <1>1, <1>2 DEF ElementsInv
<1>9. CacheInv'
  <2>1. DOMAIN cache' = {}
    BY <1>1, <1>2
  <2>2. QED
    BY <2>1 DEF CacheInv
<1>10. QED
  BY <1>4, <1>5, <1>7, <1>8, <1>9 DEF ExpansionInv

\* The tables are made before a network is opened.
LEMMA TypesKeep ==
  ASSUME ExpansionInv, MakeArcTypes, UNCHANGED <<expandVars, network, hmmVars>>
  PROVE  ExpansionInv'
<1>1. SharingInv'
  BY StepKeepsSharing DEF ExpansionInv
<1>2. made \in {"making", "written"}
  BY DEF MakeArcTypes, Disambiguation, Share, MakeHmm, WriteArcTypes, ReadFstArcTypes, More
<1>3. network = <<>> /\ elements = <<>> /\ cache = <<>>
  BY <1>2 DEF ExpansionInv, NetworkInv
<1>4. network' = <<>> /\ elements' = <<>> /\ cache' = <<>>
  BY <1>3 DEF expandVars
<1>5. TablesDone'
  <2>1. ilabel_info' = ilabel_info
    BY DEF MakeArcTypes, Disambiguation, Share, MakeHmm, WriteArcTypes, ReadFstArcTypes
  <2>2. CASE Disambiguation \/ Share \/ MakeHmm
    BY <2>1, <2>2 DEF Disambiguation, Share, MakeHmm, More, ExpansionInv, TablesDone
  <2>3. CASE WriteArcTypes
    BY <2>1, <2>3 DEF WriteArcTypes, ExpansionInv, TablesDone
  <2>4. CASE ReadFstArcTypes
    BY <2>1, <2>4 DEF ReadFstArcTypes, ExpansionInv, TablesDone
  <2>5. QED
    BY <2>2, <2>3, <2>4 DEF MakeArcTypes
<1>6. NetworkInv' /\ ElementsInv'
  BY <1>4 DEF NetworkInv, ElementsInv
<1>7. CacheInv'
  <2>1. DOMAIN cache' = {}
    BY <1>4
  <2>2. QED
    BY <2>1 DEF CacheInv
<1>8. QED
  BY <1>1, <1>5, <1>6, <1>7 DEF ExpansionInv

LEMMA OthersKeep ==
  ASSUME ExpansionInv, UNCHANGED <<typeVars, expandVars, network>>
  PROVE  ExpansionInv'
<1>1. Frame /\ elements' = elements /\ cache' = cache /\ network' = network
  BY DEF Frame, expandVars
<1>2. CASE network # <<>>
  <2>1. /\ SharingInv' /\ TablesDone' /\ NetworkInv' /\ Valid' = Valid
        /\ \A t, e, x : IsExpansion(t, e, x)' <=> IsExpansion(t, e, x)
    BY <1>1, <1>2, FrameKeeps
  <2>2. elements \in Seq(Valid) /\ Len(elements) \in Nat
    BY <1>2 DEF ExpansionInv, ElementsInv
  <2>3. elements' \in Seq(Valid) /\ Extends(elements', elements)
    BY <1>1, <2>2 DEF Extends
  <2>4. Len(elements) = 0 => ~(Len(elements') > 0)
    BY <1>1
  <2>5. \A d \in DOMAIN cache' : d \in DOMAIN cache /\ cache'[d] = cache[d]
    BY <1>1
  <2>6. QED
    BY <1>1, <1>2, <2>3, <2>4, <2>5, CallKeeps
<1>3. CASE network = <<>>
  <2>1. elements = <<>> /\ cache = <<>>
    BY <1>3 DEF ExpansionInv, NetworkInv
  <2>2. SharingInv'
    <3>1. SharingInv /\ ReadInv'
      BY DEF ExpansionInv, SharingInv, ReadInv, typeVars
    <3>2. QED
      BY <3>1, NothingMadeKeeps DEF typeVars
  <2>3. TablesDone'
    BY DEF ExpansionInv, TablesDone, typeVars
  <2>4. NetworkInv' /\ ElementsInv'
    BY <1>1, <1>3, <2>1 DEF NetworkInv, ElementsInv
  <2>5. CacheInv'
    <3>1. DOMAIN cache' = {}
      BY <1>1, <2>1
    <3>2. QED
      BY <3>1 DEF CacheInv
  <2>6. QED
    BY <2>2, <2>3, <2>4, <2>5 DEF ExpansionInv
<1>4. QED
  BY <1>2, <1>3

LEMMA StepKeepsExpansion ==
  ASSUME EpsilonsLast(Networks), HmmsAreLong, ExpansionInv, [Next]_vars
  PROVE  ExpansionInv'
<1>1. CASE MakeArcTypes /\ UNCHANGED <<expandVars, network, hmmVars>>
  BY <1>1, TypesKeep
<1>2. CASE OpenNetwork
  BY <1>2, OpenNetworkKeeps
<1>3. CASE network # <<>> /\ UseExpansion /\ UNCHANGED <<typeVars, network, hmmVars>>
  <2>1. CASE Start
    BY <1>3, <2>1, StartKeeps
  <2>2. ASSUME NEW s \in States, Arcs(s) \/ Final(s) \/ Drop(s)
        PROVE  ExpansionInv'
    BY <1>3, <2>2, ArcsKeeps, FinalKeeps, DropKeeps
  <2>3. QED
    BY <1>3, <2>1, <2>2 DEF UseExpansion
<1>4. CASE OpenHmm \/ FeedHmm \/ UNCHANGED vars
  <2>1. UNCHANGED <<typeVars, expandVars, network>>
    BY <1>4 DEF OpenHmm, FeedHmm, vars
  <2>2. QED
    BY <2>1, OthersKeep
<1>5. QED
  BY <1>1, <1>2, <1>3, <1>4 DEF Next

LEMMA InvIsEager ==
  ASSUME EpsilonsLast(Networks), HmmsAreLong, ExpansionInv PROVE ExpansionIsEager
<1> SUFFICES ASSUME NEW s \in DOMAIN cache, NEW e, e = elements[s + 1]
             PROVE  /\ cache[s].hasArcs
                    /\ {MeantIn(elements, cache[s].arcs[k]) : k \in DOMAIN cache[s].arcs} = ArcsOf(Place(e))
                    /\ Len(cache[s].arcs) <= 2 * Len(Leave(e))
                    /\ cache[s].hasFinal => cache[s].final = FinalOf(e)
                    /\ s # 0 \/ e = Source(network.start)
  BY DEF ExpansionIsEager, MeantIn, FinalOf
<1>1. network # <<>>
  <2>1. DOMAIN <<>> = {}
    OBVIOUS
  <2>2. QED
    BY <2>1 DEF ExpansionInv, NetworkInv
<1>2. s \in 0 .. Len(elements) - 1 /\ IsExpansion(elements, e, cache[s])
  BY DEF ExpansionInv, CacheInv
<1>3. elements \in Seq(Valid) /\ (Len(elements) > 0 => elements[1] = Source(network.start))
  BY <1>1 DEF ExpansionInv, ElementsInv
<1>4. e \in Valid
  BY <1>2, <1>3
<1>5. Len(Leave(e)) \in Nat
  BY <1>1, <1>4, ElementLeaves DEF LeavesRightly
<1>6. cache[s].hasArcs
  <2>1. cache[s] = CacheEntry(cache[s].arcs, cache[s].final, cache[s].hasFinal)
    BY <1>2 DEF IsExpansion
  <2>2. QED
    BY <2>1 DEF CacheEntry
<1>7. {MeantIn(elements, cache[s].arcs[k]) : k \in DOMAIN cache[s].arcs} = ArcsOf(Place(e))
  <2>1. Pushes(elements, e, cache[s].arcs)
    BY <1>2 DEF IsExpansion
  <2>2. DOMAIN cache[s].arcs = 1 .. Len(cache[s].arcs)
    BY <2>1 DEF Pushes
  <2>3. QED
    BY <2>1, <2>2 DEF Pushes
<1>8. Len(cache[s].arcs) <= 2 * Len(Leave(e)) /\ (cache[s].hasFinal => cache[s].final = FinalOf(e))
  BY <1>2, <1>5 DEF IsExpansion
<1>9. s # 0 \/ e = Source(network.start)
  BY <1>2, <1>3
<1>10. QED
  BY <1>6, <1>7, <1>8, <1>9

(***************************************************************************)
(* For every network, whatever a client asks in whatever order and whatever*)
(* the cache drops: an expanded state has the arcs and the final weight of *)
(* the network in which every arc is replaced by the HMM of its own window *)
(* (ArcExpandFstImpl::Expand, arc-expand-fst.h:186), if epsilon arcs come  *)
(* last and no HMM has two states only.                                    *)
(***************************************************************************)
THEOREM SpecExpansionIsEager ==
  ASSUME EpsilonsLast(Networks), HmmsAreLong
  PROVE  Spec => []ExpansionIsEager
<1>1. Init => ExpansionInv
  BY InitExpansion
<1>2. ExpansionInv /\ [Next]_vars => ExpansionInv'
  BY StepKeepsExpansion
<1>3. ExpansionInv => ExpansionIsEager
  BY InvIsEager
<1>4. QED
  BY <1>1, <1>2, <1>3, PTL DEF Spec

=============================================================================
