---------------------------- MODULE FarToolsProofs ----------------------------
(***************************************************************************)
(* Proofs about FarTools.  What farfilter writes is what its commands      *)
(* answer, for every archive, chain of commands and size of the pipes.     *)
(* The weights that the printing tools add up obey the laws Properties()   *)
(* promises (kLeftSemiring, kRightSemiring, kCommutative, kPath,           *)
(* kIdempotent, kaldi-lattice-arc.h:121): ShortestPath and RmEpsilon rely  *)
(* on them and the code never checks one.                                  *)
(***************************************************************************)
EXTENDS FarTools, SequenceTheorems, WellFoundedInduction, TLAPS

-----------------------------------------------------------------------------
(* The chain of the answers *)

LEMMA LeastNumber ==
  ASSUME NEW T \in SUBSET Nat, T # {}
  PROVE  \E x \in T : \A y \in T : x <= y
<1> DEFINE R == {ss \in Nat \X Nat : ss[1] < ss[2]}
<1>1. R = OpToRel(<, Nat)
  BY DEF OpToRel
<1>2. IsWellFoundedOn(R, Nat)
  BY <1>1, NatLessThanWellFounded
<1>3. PICK x \in T : \A y \in T : ~(<<y, x>> \in R)
  <2> HIDE DEF R
  <2> QED BY <1>2, WFMin
<1>4. ASSUME NEW y \in T
      PROVE  x <= y
  <2>1. ~(<<y, x>> \in R)
    BY <1>3
  <2>2. <<y, x>>[1] = y /\ <<y, x>>[2] = x /\ <<y, x>> \in Nat \X Nat
    OBVIOUS
  <2>3. ~(y < x)
    BY <2>1, <2>2
  <2>4. QED
    BY <2>3
<1>5. QED
  BY <1>4

Stages(value, chain, len, f) ==
  [n \in 0 .. len |-> IF n = 0 THEN value ELSE Commands[chain[n]].answers[f[n - 1]]]

\* If it does up to m - 1, it does up to m.
LEMMA StagesExtend ==
  ASSUME NEW value, NEW chain, NEW m \in Nat, m # 0,
         NEW g, g = Stages(value, chain, m - 1, g)
  PROVE  \E f : f = Stages(value, chain, m, f)
<1> DEFINE step(h, n) == IF n = 0 THEN value ELSE Commands[chain[n]].answers[h[n - 1]]
           last == step(g, m)
           f == [n \in 0 .. m |-> IF n = m THEN last ELSE g[n]]
<1>1. \A n \in 0 .. m - 1 : g[n] = step(g, n)
  <2>1. g = [n \in 0 .. m - 1 |-> step(g, n)]
    BY DEF Stages
  <2> HIDE DEF step
  <2>2. QED
    BY <2>1
<1>2. /\ DOMAIN f = 0 .. m /\ f[m] = last
      /\ \A n \in 0 .. m - 1 : f[n] = g[n]
  <2> HIDE DEF last
  <2> QED OBVIOUS
<1>3. f = [n \in 0 .. m |-> f[n]]
  <2> HIDE DEF last
  <2> QED OBVIOUS
<1> HIDE DEF last, f
<1>4. ASSUME NEW n \in 0 .. m
      PROVE  f[n] = step(f, n)
  <2>1. n = 0 => n \in 0 .. m - 1
    OBVIOUS
  <2>2. n # 0 => n - 1 \in 0 .. m - 1
    OBVIOUS
  <2>3. step(f, n) = step(g, n)
    BY <1>2, <2>2
  <2>4. CASE n = m
    BY <1>2, <2>3, <2>4 DEF last
  <2>5. CASE n # m
    <3>1. n \in 0 .. m - 1
      BY <2>5
    <3>2. QED
      BY <1>1, <1>2, <2>3, <3>1
  <2>6. QED
    BY <2>4, <2>5
<1>5. f = [n \in 0 .. m |-> step(f, n)]
  <2> HIDE DEF step
  <2> QED BY <1>3, <1>4
<1>6. f = Stages(value, chain, m, f)
  BY <1>5 DEF Stages
<1>7. QED
  BY <1>6

\* The function that Passed chooses exists.
LEMMA PassedExists ==
  ASSUME NEW value, NEW chain, NEW len \in Nat
  PROVE  \E f : f = Stages(value, chain, len, f)
<1> DEFINE T == {m \in Nat : ~\E f : f = Stages(value, chain, m, f)}
<1> SUFFICES ASSUME T # {}
             PROVE  FALSE
  OBVIOUS
<1>1. T \in SUBSET Nat /\ T # {}
  OBVIOUS
<1>2. PICK m \in T : \A y \in T : m <= y
  <2> HIDE DEF T
  <2> QED BY <1>1, LeastNumber
<1>3. m \in Nat /\ ~\E f : f = Stages(value, chain, m, f)
  OBVIOUS
<1>4. m # 0
  <2> DEFINE f == [n \in 0 .. 0 |-> value]
  <2>1. f = Stages(value, chain, 0, f)
    BY DEF Stages
  <2>2. QED
    BY <1>3, <2>1
<1>5. m - 1 \in Nat /\ m - 1 \notin T
  <2>1. m - 1 \in Nat /\ ~(m <= m - 1)
    BY <1>3, <1>4
  <2> HIDE DEF T
  <2>2. QED
    BY <1>2, <2>1
<1>6. PICK g : g = Stages(value, chain, m - 1, g)
  BY <1>5
<1>7. QED
  BY <1>3, <1>4, <1>6, StagesExtend

LEMMA PassedIs ==
  ASSUME NEW value, NEW chain, Len(chain) \in Nat
  PROVE  /\ Passed(value, chain)[0] = value
         /\ \A n \in 1 .. Len(chain) :
              Passed(value, chain)[n] = Commands[chain[n]].answers[Passed(value, chain)[n - 1]]
<1> DEFINE len == Len(chain)
<1>1. \E f : f = Stages(value, chain, len, f)
  BY PassedExists
<1>2. Passed(value, chain) = CHOOSE f : f = Stages(value, chain, len, f)
  BY DEF Passed, Stages
<1>3. Passed(value, chain) = Stages(value, chain, len, Passed(value, chain))
  BY <1>1, <1>2
<1> DEFINE f == Passed(value, chain)
           stage(n) == IF n = 0 THEN value ELSE Commands[chain[n]].answers[f[n - 1]]
<1>4. f = [n \in 0 .. len |-> stage(n)]
  BY <1>3 DEF Stages
<1>5. len \in Nat
  OBVIOUS
<1> HIDE DEF f, len
<1>6. \A n \in 0 .. len : f[n] = stage(n)
  <2> HIDE DEF stage
  <2> QED BY <1>4
<1>7. f[0] = value /\ \A n \in 1 .. len : f[n] = Commands[chain[n]].answers[f[n - 1]]
  <2>1. 0 \in 0 .. len /\ \A n \in 1 .. len : n \in 0 .. len /\ n # 0
    BY <1>5
  <2>2. QED
    BY <1>6, <2>1
<1>8. QED
  BY <1>7 DEF f, len

LEMMA PassedInto ==
  ASSUME NEW value \in DOMAIN Size, NEW chain \in Pipelines
  PROVE  \A n \in 0 .. Len(chain) : Passed(value, chain)[n] \in DOMAIN Size
<1> DEFINE p == Passed(value, chain)
           T == {n \in 0 .. Len(chain) : p[n] \notin DOMAIN Size}
<1> SUFFICES ASSUME T # {}
             PROVE  FALSE
  OBVIOUS
<1>1. /\ chain \in Seq(DOMAIN Commands) /\ Len(chain) \in Nat
      /\ \A cmd \in DOMAIN Commands : Commands[cmd].answers \in [DOMAIN Size -> DOMAIN Size]
  BY FarFilterAssumption
<1>2. T \in SUBSET Nat /\ T # {}
  OBVIOUS
<1>3. PICK n \in T : \A y \in T : n <= y
  <2> HIDE DEF T
  <2> QED BY <1>2, LeastNumber
<1>4. p[0] = value /\ \A k \in 1 .. Len(chain) : p[k] = Commands[chain[k]].answers[p[k - 1]]
  <2> HIDE DEF T
  <2>1. Len(chain) \in Nat
    BY <1>1
  <2>2. QED
    BY ONLY <2>1, PassedIs
<1> HIDE DEF p
<1>5. n \in 1 .. Len(chain)
  BY <1>1, <1>3, <1>4
<1>6. p[n - 1] \in DOMAIN Size
  <2>1. n - 1 \in 0 .. Len(chain) /\ ~(n <= n - 1)
    BY <1>1, <1>5
  <2>2. n - 1 \notin T
    <3> HIDE DEF T
    <3> QED BY <1>3, <2>1
  <2>3. QED
    BY <2>1, <2>2
<1>7. chain[n] \in DOMAIN Commands
  BY <1>1, <1>5
<1>8. p[n] \in DOMAIN Size
  BY <1>1, <1>4, <1>5, <1>6, <1>7
<1>9. QED
  BY <1>3, <1>8

-----------------------------------------------------------------------------
(* Records of processes, and lists of them *)

ProcFields ==
  {"stream", "inBuf", "inPipe", "got", "running", "broken", "out", "outPipe", "outBuf", "err", "errPipe", "errBuf"}
IsProc(p) == p = [f \in ProcFields |-> p[f]]
IsList(s) == \E n \in Nat : s = [i \in 1 .. n |-> s[i]]

SameOutput(p, q) == \A f \in {"out", "outPipe", "outBuf", "running"} : q[f] = p[f]

LEMMA ListLength ==
  ASSUME NEW s, IsList(s)
  PROVE  Len(s) \in Nat /\ DOMAIN s = 1 .. Len(s) /\ s = [i \in 1 .. Len(s) |-> s[i]]
<1>1. PICK n \in Nat : s = [i \in 1 .. n |-> s[i]]
  BY DEF IsList
<1>2. DOMAIN s = 1 .. n
  BY <1>1
<1>3. Len(s) = n
  BY <1>1
<1>4. QED
  BY <1>1, <1>2, <1>3

Put(s, i, x) == [s EXCEPT ![i] = x]

LEMMA ListPut ==
  ASSUME NEW s, IsList(s), NEW i \in DOMAIN s, NEW x, NEW t, t = Put(s, i, x)
  PROVE  /\ IsList(t) /\ Len(t) = Len(s)
         /\ t[i] = x /\ \A j \in DOMAIN s \ {i} : t[j] = s[j]
<1>1. Len(s) \in Nat /\ s = [j \in 1 .. Len(s) |-> s[j]] /\ DOMAIN s = 1 .. Len(s)
  BY ListLength
<1> DEFINE n == Len(s)
<1>2. t = [j \in 1 .. n |-> IF j = i THEN x ELSE s[j]]
  BY <1>1 DEF Put
<1> HIDE DEF n
<1>3. n \in Nat
  BY <1>1 DEF n
<1>4. \A j \in 1 .. n : t[j] = IF j = i THEN x ELSE s[j]
  BY <1>2
<1>5. t = [j \in 1 .. n |-> t[j]]
  BY <1>2, <1>4
<1>6. IsList(t)
  BY <1>3, <1>5 DEF IsList
<1>7. DOMAIN t = 1 .. n /\ DOMAIN t = 1 .. Len(t) /\ Len(t) \in Nat
  BY <1>2, <1>6, ListLength
<1>8. Len(t) = n
  BY <1>3, <1>7
<1>9. QED
  BY <1>1, <1>4, <1>6, <1>8 DEF n

Longer(s, x) == Append(s, x)

LEMMA ListAppend ==
  ASSUME NEW s, IsList(s), NEW x, NEW t, t = Longer(s, x)
  PROVE  /\ IsList(t) /\ Len(t) = Len(s) + 1
         /\ t[Len(s) + 1] = x /\ \A j \in DOMAIN s : t[j] = s[j]
<1> DEFINE S == {s[i] : i \in 1 .. Len(s)} \cup {x}
<1>1. Len(s) \in Nat /\ DOMAIN s = 1 .. Len(s) /\ s \in Seq(S) /\ x \in S
  <2>1. Len(s) \in Nat /\ DOMAIN s = 1 .. Len(s) /\ s = [i \in 1 .. Len(s) |-> s[i]]
    BY ListLength
  <2>2. s \in [1 .. Len(s) -> S] /\ x \in S
    BY <2>1
  <2> HIDE DEF S
  <2>3. s \in Seq(S)
    BY <2>1, <2>2
  <2>4. QED
    BY <2>1, <2>2, <2>3
<1> HIDE DEF S
<1>2. /\ t \in Seq(S) /\ Len(t) = Len(s) + 1 /\ t[Len(s) + 1] = x
      /\ \A i \in 1 .. Len(s) : t[i] = s[i]
  BY <1>1, AppendProperties DEF Longer
<1>3. t \in [1 .. Len(t) -> S] /\ Len(t) \in Nat
  BY <1>2, LenProperties
<1>4. IsList(t)
  BY <1>3 DEF IsList
<1>5. QED
  BY <1>1, <1>2, <1>4

LEMMA ProcSet ==
  ASSUME NEW p, IsProc(p), NEW f \in ProcFields, NEW x
  PROVE  LET q == [p EXCEPT ![f] = x]
         IN  IsProc(q) /\ \A g \in ProcFields : q[g] = IF g = f THEN x ELSE p[g]
<1> DEFINE q == [p EXCEPT ![f] = x]
<1>1. q = [g \in ProcFields |-> IF g = f THEN x ELSE p[g]]
  BY DEF IsProc
<1> HIDE DEF q
<1>2. \A g \in ProcFields : q[g] = IF g = f THEN x ELSE p[g]
  BY <1>1
<1>3. IsProc(q)
  BY <1>1, <1>2 DEF IsProc
<1>4. QED
  BY <1>2, <1>3 DEF q

Assign(s, i, f, x) == [s EXCEPT ![i][f] = x]
AssignTwo(s, i, f, x, g, y) == [s EXCEPT ![i][f] = x, ![i][g] = y]

\* A list whose record i has two fields assigned, and what became of that record.
LEMMA TwoSet ==
  ASSUME NEW s, IsList(s), NEW i \in DOMAIN s, IsProc(s[i]),
         NEW f \in ProcFields, NEW g \in ProcFields, f # g, NEW x, NEW y,
         NEW t, t = AssignTwo(s, i, f, x, g, y)
  PROVE  /\ IsList(t) /\ Len(t) = Len(s) /\ \A j \in DOMAIN s \ {i} : t[j] = s[j]
         /\ IsProc(t[i]) /\ t[i][f] = x /\ t[i][g] = y
         /\ \A h \in ProcFields \ {f, g} : t[i][h] = s[i][h]
<1> DEFINE p == [s[i] EXCEPT ![f] = x]
           q == [p EXCEPT ![g] = y]
<1>1. t = [s EXCEPT ![i] = q]
  <2>1. t = [[s EXCEPT ![i] = p] EXCEPT ![i][g] = y]
    BY DEF AssignTwo
  <2> DEFINE u == [s EXCEPT ![i] = p]
  <2> HIDE DEF p
  <2>2. u[i] = p
    BY DEF IsList
  <2>3. [u EXCEPT ![i][g] = y] = [u EXCEPT ![i] = q]
    <3> HIDE DEF u
    <3> QED BY <2>2
  <2>4. [u EXCEPT ![i] = q] = [s EXCEPT ![i] = q]
    <3> HIDE DEF q
    <3> QED BY DEF IsList
  <2>5. QED
    BY <2>1, <2>3, <2>4
<1>2. IsProc(p) /\ \A h \in ProcFields : p[h] = IF h = f THEN x ELSE s[i][h]
  <2> DEFINE r == s[i]
  <2>1. IsProc(r)
    OBVIOUS
  <2> HIDE DEF r
  <2>2. LET u == [r EXCEPT ![f] = x] IN IsProc(u) /\ \A h \in ProcFields : u[h] = IF h = f THEN x ELSE r[h]
    BY <2>1, ProcSet
  <2>3. QED
    BY <2>2 DEF r
<1> HIDE DEF p
<1>3. IsProc(q) /\ \A h \in ProcFields : q[h] = IF h = g THEN y ELSE p[h]
  BY <1>2, ProcSet
<1> HIDE DEF q
<1>4. IsList(t) /\ Len(t) = Len(s) /\ t[i] = q /\ \A j \in DOMAIN s \ {i} : t[j] = s[j]
  <2>1. t = Put(s, i, q)
    BY <1>1 DEF Put
  <2>2. QED
    BY <2>1, ListPut
<1>5. QED
  BY <1>2, <1>3, <1>4

LEMMA OneSet ==
  ASSUME NEW s, IsList(s), NEW i \in DOMAIN s, IsProc(s[i]),
         NEW f \in ProcFields, NEW x,
         NEW t, t = Assign(s, i, f, x)
  PROVE  /\ IsList(t) /\ Len(t) = Len(s) /\ \A j \in DOMAIN s \ {i} : t[j] = s[j]
         /\ IsProc(t[i]) /\ t[i][f] = x
         /\ \A h \in ProcFields \ {f} : t[i][h] = s[i][h]
<1> DEFINE p == [s[i] EXCEPT ![f] = x]
<1>1. t = [s EXCEPT ![i] = p]
  BY DEF Assign
<1>2. IsProc(p) /\ \A h \in ProcFields : p[h] = IF h = f THEN x ELSE s[i][h]
  <2> DEFINE r == s[i]
  <2>1. IsProc(r)
    OBVIOUS
  <2> HIDE DEF r
  <2>2. LET u == [r EXCEPT ![f] = x] IN IsProc(u) /\ \A h \in ProcFields : u[h] = IF h = f THEN x ELSE r[h]
    BY <2>1, ProcSet
  <2>3. QED
    BY <2>2 DEF r
<1> HIDE DEF p
<1>3. IsList(t) /\ Len(t) = Len(s) /\ t[i] = p /\ \A j \in DOMAIN s \ {i} : t[j] = s[j]
  <2>1. t = Put(s, i, p)
    BY <1>1 DEF Put
  <2>2. QED
    BY <2>1, ListPut
<1>4. QED
  BY <1>2, <1>3

-----------------------------------------------------------------------------
(* What a child and its thread do to a stage *)

Staged == IsList(procs) /\ \A i \in DOMAIN procs : IsProc(procs[i])

LEMMA ProcStep ==
  ASSUME Staged, NEW i \in DOMAIN procs, Child(i) \/ Thread(i)
  PROVE  /\ IsList(procs') /\ Len(procs') = Len(procs)
         /\ \A j \in DOMAIN procs \ {i} : procs'[j] = procs[j]
         /\ IsProc(procs'[i])
         /\ LET p == procs[i]
                q == procs'[i]
            IN  \/ SameOutput(p, q)
                \/ /\ p.running /\ p.out < Size[Answer(i)]
                   /\ q.out = p.out + 1 /\ q.outPipe = p.outPipe + 1 /\ q.outBuf = p.outBuf /\ q.running = p.running
                \/ /\ p.outPipe > 0
                   /\ q.out = p.out /\ q.outPipe = p.outPipe - 1 /\ q.outBuf = p.outBuf + 1 /\ q.running = p.running
                \/ /\ p.running /\ (p.out = Size[Answer(i)] \/ Command(i).fails)
                   /\ q.out = p.out /\ q.outPipe = p.outPipe /\ q.outBuf = p.outBuf /\ q.running = FALSE
<1>1. IsList(procs) /\ IsProc(procs[i])
  BY DEF Staged
<1>2. CASE ChildRead(i)
  <2>1. procs' = AssignTwo(procs, i, "inPipe", procs[i].inPipe - 1, "got", procs[i].got + 1)
    BY <1>2 DEF ChildRead, Assign, AssignTwo
  <2>2. QED
    BY <1>1, <2>1, TwoSet DEF ProcFields, SameOutput
<1>3. CASE ChildErr(i)
  <2>1. procs' = AssignTwo(procs, i, "err", procs[i].err + 1, "errPipe", procs[i].errPipe + 1)
    BY <1>3 DEF ChildErr, Assign, AssignTwo
  <2>2. QED
    BY <1>1, <2>1, TwoSet DEF ProcFields, SameOutput
<1>4. CASE ChildOut(i)
  <2>1. procs' = AssignTwo(procs, i, "out", procs[i].out + 1, "outPipe", procs[i].outPipe + 1)
    BY <1>4 DEF ChildOut, Assign, AssignTwo
  <2>2. /\ IsList(procs') /\ Len(procs') = Len(procs) /\ IsProc(procs'[i])
        /\ \A j \in DOMAIN procs \ {i} : procs'[j] = procs[j]
        /\ procs'[i].out = procs[i].out + 1 /\ procs'[i].outPipe = procs[i].outPipe + 1
        /\ \A h \in ProcFields \ {"out", "outPipe"} : procs'[i][h] = procs[i][h]
    BY <1>1, <2>1, TwoSet DEF ProcFields
  <2>3. QED
    BY <1>4, <2>2 DEF ProcFields, ChildOut
<1>5. CASE ChildExit(i)
  <2> DEFINE no == FALSE
  <2>1. procs' = Assign(procs, i, "running", no)
    BY <1>5 DEF ChildExit, Assign
  <2> HIDE DEF no
  <2>2. /\ IsList(procs') /\ Len(procs') = Len(procs) /\ IsProc(procs'[i])
        /\ \A j \in DOMAIN procs \ {i} : procs'[j] = procs[j]
        /\ procs'[i].running = no /\ \A h \in ProcFields \ {"running"} : procs'[i][h] = procs[i][h]
    BY <1>1, <2>1, OneSet DEF ProcFields
  <2>3. QED
    BY <1>5, <2>2 DEF ProcFields, ChildExit, no
<1>6. CASE PumpIn(i)
  <2>1. \/ procs' = AssignTwo(procs, i, "inBuf", procs[i].inBuf - 1, "inPipe", procs[i].inPipe + 1)
        \/ procs' = Assign(procs, i, "broken", TRUE)
    BY <1>6 DEF PumpIn, Assign, AssignTwo
  <2>2. CASE procs' = AssignTwo(procs, i, "inBuf", procs[i].inBuf - 1, "inPipe", procs[i].inPipe + 1)
    BY <1>1, <2>2, TwoSet DEF ProcFields, SameOutput
  <2>3. CASE procs' = Assign(procs, i, "broken", TRUE)
    <3> DEFINE yes == TRUE
    <3>1. procs' = Assign(procs, i, "broken", yes)
      BY <2>3
    <3> HIDE DEF yes
    <3>2. QED
      BY <1>1, <3>1, OneSet DEF ProcFields, SameOutput
  <2>4. QED
    BY <2>1, <2>2, <2>3
<1>7. CASE PumpOut(i)
  <2>1. procs' = AssignTwo(procs, i, "outPipe", procs[i].outPipe - 1, "outBuf", procs[i].outBuf + 1)
    BY <1>7 DEF PumpOut, Assign, AssignTwo
  <2>2. /\ IsList(procs') /\ Len(procs') = Len(procs) /\ IsProc(procs'[i])
        /\ \A j \in DOMAIN procs \ {i} : procs'[j] = procs[j]
        /\ procs'[i].outPipe = procs[i].outPipe - 1 /\ procs'[i].outBuf = procs[i].outBuf + 1
        /\ \A h \in ProcFields \ {"outPipe", "outBuf"} : procs'[i][h] = procs[i][h]
    BY <1>1, <2>1, TwoSet DEF ProcFields
  <2>3. QED
    BY <1>7, <2>2 DEF ProcFields, PumpOut
<1>8. CASE PumpErr(i)
  <2>1. procs' = AssignTwo(procs, i, "errPipe", procs[i].errPipe - 1, "errBuf", procs[i].errBuf + 1)
    BY <1>8 DEF PumpErr, Assign, AssignTwo
  <2>2. QED
    BY <1>1, <2>1, TwoSet DEF ProcFields, SameOutput
<1>9. QED
  BY <1>2, <1>3, <1>4, <1>5, <1>6, <1>7, <1>8 DEF Child, Thread

-----------------------------------------------------------------------------
(* What is known while an FST goes through the chain *)

AtWork == {"launch", "write", "errors", "result"}

\* The last stage: what its child has written is in the pipe, in the buffer or read; it
\* writes its answer and no more, and less only if it fails.
Counted ==
  LET p == procs[Stage]
  IN  /\ Stage >= 1
      /\ p.out \in Nat /\ p.outPipe \in Nat /\ p.outBuf \in Nat
      /\ p.out = p.outPipe + p.outBuf + read
      /\ p.out <= Size[Answer(Stage)]
      /\ ~p.running => p.out = Size[Answer(Stage)] \/ Command(Stage).fails

Placed ==
  /\ reader \in Archives /\ cmds \in Pipelines /\ text \in BOOLEAN
  /\ IsList(writer) /\ record = Len(writer) + 1
  /\ main \in AtWork \cup {"next", "done", "terminated", "crashed"}
  /\ read \in Nat /\ (main \in {"next", "launch", "write", "errors"} => read = 0)
  /\ main \in AtWork => record <= Len(reader) /\ Stage <= Len(cmds)
  /\ main = "launch" => Stage < Len(cmds)
  /\ main = "result" => Stage = Len(cmds)

FilterInv ==
  /\ Staged /\ Placed
  /\ main \in AtWork \ {"launch"} => Counted
  /\ AnswersMatchQuestions

LEMMA FilterStart == FilterInit => FilterInv
<1> SUFFICES ASSUME FilterInit
             PROVE  FilterInv
  OBVIOUS
<1>1. procs = <<>> /\ writer = <<>> /\ record = 1 /\ read = 0 /\ main = "next"
      /\ reader \in Archives /\ cmds \in Pipelines /\ text \in BOOLEAN
  BY DEF FilterInit
<1>2. <<>> = [i \in 1 .. 0 |-> <<>>[i]] /\ DOMAIN <<>> = {} /\ Len(<<>>) = 0
  OBVIOUS
<1>3. IsList(<<>>)
  BY <1>2 DEF IsList
<1>4. Staged /\ AnswersMatchQuestions
  BY <1>1, <1>2, <1>3 DEF Staged, AnswersMatchQuestions
<1>5. Placed
  BY <1>1, <1>2, <1>3 DEF Placed, AtWork
<1>6. QED
  BY <1>1, <1>4, <1>5 DEF FilterInv, AtWork

LEMMA AnswerIs ==
  ASSUME Placed, record <= Len(reader), NEW i \in 1 .. Len(cmds)
  PROVE  /\ record \in 1 .. Len(reader)
         /\ Answer(i) = Passed(reader[record], cmds)[i]
         /\ Size[Answer(i)] \in Nat
<1>1. /\ Len(writer) \in Nat /\ record = Len(writer) + 1
      /\ reader \in Seq(Range(reader)) /\ Range(reader) \subseteq DOMAIN Size
      /\ cmds \in Seq(DOMAIN Commands) /\ cmds \in Pipelines
      /\ \A value \in DOMAIN Size : Size[value] \in Nat
  BY ListLength, FarFilterAssumption DEF Placed
<1>2. Len(cmds) \in Nat /\ Len(reader) \in Nat /\ record \in 1 .. Len(reader)
  BY <1>1
<1>3. reader[record] \in DOMAIN Size
  BY <1>1, <1>2
<1>4. Answer(i) = Passed(reader[record], cmds)[i]
  BY <1>2, PassedIs DEF Answer, Input, Command
<1>5. Passed(reader[record], cmds)[i] \in DOMAIN Size
  <2>1. i \in 0 .. Len(cmds)
    BY <1>2
  <2>2. QED
    BY <1>1, <1>3, <2>1, PassedInto
<1>6. QED
  BY <1>1, <1>2, <1>4, <1>5

\* A step of a stage, whatever the main thread is doing.
LEMMA StageKeeps ==
  ASSUME FilterInv, Others, NEW i \in DOMAIN procs, Child(i) \/ Thread(i)
  PROVE  FilterInv'
<1>1. Staged /\ Placed /\ UNCHANGED <<reader, cmds, text, record, main, read, writer>>
  BY DEF FilterInv, Others, Keep
<1>2. /\ IsList(procs') /\ Len(procs') = Len(procs)
      /\ \A j \in DOMAIN procs \ {i} : procs'[j] = procs[j]
      /\ IsProc(procs'[i])
  BY <1>1, ProcStep
<1>3. /\ Len(procs) \in Nat /\ DOMAIN procs = 1 .. Len(procs) /\ DOMAIN procs' = DOMAIN procs
  BY <1>1, <1>2, ListLength DEF Staged
<1>4. Staged'
  BY <1>1, <1>2, <1>3 DEF Staged
<1>5. Placed' /\ AnswersMatchQuestions'
  <2>1. Stage' = Stage
    BY <1>2 DEF Stage
  <2>2. Placed'
    BY <1>1, <2>1 DEF Placed
  <2>3. AnswersMatchQuestions
    BY DEF FilterInv
  <2>4. AnswersMatchQuestions'
    BY <1>1, <2>3 DEF AnswersMatchQuestions, Command
  <2>5. QED
    BY <2>2, <2>4
<1>6. ASSUME main \in AtWork \ {"launch"}
      PROVE  Counted'
  <2>1. Counted
    BY <1>6 DEF FilterInv
  <2>2. Answer(Stage)' = Answer(Stage) /\ Command(Stage)' = Command(Stage) /\ Stage' = Stage
    <3>1. Stage' = Stage
      BY <1>2 DEF Stage
    <3>2. \A j : Answer(j)' = Answer(j) /\ Command(j)' = Command(j)
      BY <1>1 DEF Answer, Input, Command
    <3>3. QED
      BY <3>1, <3>2
  <2>3. CASE i # Stage
    <3>1. procs'[Stage] = procs[Stage]
      BY <1>2, <1>3, <2>1, <2>3 DEF Counted, Stage
    <3>2. QED
      BY <1>1, <2>1, <2>2, <3>1 DEF Counted
  <2>4. CASE i = Stage
    <3> DEFINE p == procs[i]
               q == procs'[i]
               total == Size[Answer(i)]
    <3>1. /\ p.out \in Nat /\ p.outPipe \in Nat /\ p.outBuf \in Nat
          /\ p.out = p.outPipe + p.outBuf + read
          /\ p.out <= total
          /\ ~p.running => p.out = total \/ Command(i).fails
      BY <2>1, <2>4 DEF Counted
    <3>2. read \in Nat /\ total \in Nat
      BY <1>1, <1>3, <1>6, <2>4, AnswerIs DEF Placed
    <3>3. \/ SameOutput(p, q)
          \/ /\ p.running /\ p.out < total
             /\ q.out = p.out + 1 /\ q.outPipe = p.outPipe + 1 /\ q.outBuf = p.outBuf /\ q.running = p.running
          \/ /\ p.outPipe > 0
             /\ q.out = p.out /\ q.outPipe = p.outPipe - 1 /\ q.outBuf = p.outBuf + 1 /\ q.running = p.running
          \/ /\ p.running /\ (p.out = total \/ Command(i).fails)
             /\ q.out = p.out /\ q.outPipe = p.outPipe /\ q.outBuf = p.outBuf /\ q.running = FALSE
      BY <1>1, ProcStep
    <3> HIDE DEF p, q, total
    <3>4. /\ q.out \in Nat /\ q.outPipe \in Nat /\ q.outBuf \in Nat
          /\ q.out = q.outPipe + q.outBuf + read
          /\ q.out <= total
          /\ ~q.running => q.out = total \/ Command(i).fails
      BY <3>1, <3>2, <3>3 DEF SameOutput
    <3>5. QED
      BY <1>1, <2>1, <2>2, <2>4, <3>4 DEF Counted, q, total
  <2>5. QED
    BY <2>3, <2>4
<1>7. QED
  BY <1>1, <1>4, <1>5, <1>6 DEF FilterInv

-----------------------------------------------------------------------------
(* The main thread *)

Rest == UNCHANGED <<reader, cmds, text, record, read, writer>>

LEMMA AnswersStay ==
  ASSUME AnswersMatchQuestions, UNCHANGED <<reader, cmds, text, writer>>
  PROVE  AnswersMatchQuestions'
BY DEF AnswersMatchQuestions, Command

\* A step of the main thread that leaves the output of the last stage alone.
LEMMA OutputStays ==
  ASSUME FilterInv, main \in AtWork \ {"launch"}, Rest,
         Staged', Len(procs') = Len(procs), SameOutput(procs[Stage], procs'[Stage]),
         main' \in {"write", "errors"}, main \in {"write", "errors"}
  PROVE  FilterInv'
<1>1. Counted /\ Placed /\ AnswersMatchQuestions
  BY DEF FilterInv
<1>2. Stage' = Stage
  BY DEF Stage
<1>3. Placed'
  BY <1>1, <1>2 DEF Placed, Rest, AtWork
<1>4. AnswersMatchQuestions'
  BY <1>1, AnswersStay DEF Rest
<1>5. Answer(Stage)' = Answer(Stage) /\ Command(Stage)' = Command(Stage)
  <2>1. \A j : Answer(j)' = Answer(j) /\ Command(j)' = Command(j)
    BY DEF Answer, Input, Command, Rest
  <2>2. QED
    BY <1>2, <2>1
<1>6. Counted'
  BY <1>1, <1>2, <1>5 DEF Counted, SameOutput, Rest
<1>7. QED
  BY <1>3, <1>4, <1>6 DEF FilterInv

LEMMA TiedSame ==
  ASSUME NEW p, IsProc(p)
  PROVE  IsProc(Tied(p)) /\ SameOutput(p, Tied(p))
<1> DEFINE x == p.inBuf + p.stream
           q == [p EXCEPT !["inBuf"] = x]
           r == [q EXCEPT !["stream"] = 0]
<1>1. Tied(p) = r
  BY DEF Tied
<1> HIDE DEF x
<1>2. IsProc(q) /\ \A g \in ProcFields : q[g] = IF g = "inBuf" THEN x ELSE p[g]
  BY ProcSet DEF ProcFields
<1> HIDE DEF q
<1>3. IsProc(r) /\ \A g \in ProcFields : r[g] = IF g = "stream" THEN 0 ELSE q[g]
  BY <1>2, ProcSet DEF ProcFields
<1> HIDE DEF r
<1>4. QED
  BY <1>1, <1>2, <1>3 DEF SameOutput, ProcFields

LEMMA NextRecordKeeps == FilterInv /\ NextRecord /\ Keep => FilterInv'
<1> SUFFICES ASSUME FilterInv, NextRecord, Keep
             PROVE  FilterInv'
  OBVIOUS
<1>1. Placed /\ AnswersMatchQuestions /\ procs' = <<>>
      /\ UNCHANGED <<reader, cmds, text, record, read, writer>>
      /\ main = "next" /\ main' = IF record <= Len(reader) THEN "launch" ELSE "done"
  BY DEF FilterInv, NextRecord, Keep, At, Goto
<1>2. <<>> = [i \in 1 .. 0 |-> <<>>[i]] /\ DOMAIN <<>> = {} /\ Len(<<>>) = 0
  OBVIOUS
<1>3. Staged'
  BY <1>1, <1>2 DEF Staged, IsList
<1>4. cmds \in Seq(DOMAIN Commands) /\ cmds # <<>>
  BY <1>1, FarFilterAssumption DEF Placed
<1>5. Len(cmds) \in Nat /\ 0 < Len(cmds)
  BY <1>4
<1>6. Stage' = 0
  BY <1>1, <1>2 DEF Stage
<1>7. Placed'
  BY <1>1, <1>5, <1>6 DEF Placed, AtWork
<1>8. AnswersMatchQuestions'
  BY <1>1, AnswersStay
<1>9. QED
  BY <1>1, <1>3, <1>7, <1>8 DEF FilterInv, AtWork

LEMMA LaunchKeeps == FilterInv /\ Launch /\ Keep => FilterInv'
<1> SUFFICES ASSUME FilterInv, Launch, Keep
             PROVE  FilterInv'
  OBVIOUS
<1>1. /\ Placed /\ Staged /\ AnswersMatchQuestions /\ main = "launch"
      /\ UNCHANGED <<reader, cmds, text, record, read, writer>>
      /\ \/ main' = "terminated" /\ procs' = procs
         \/ main' = "write" /\ procs' = Append(procs, Started)
  BY DEF FilterInv, Launch, Keep, At, Goto
<1>2. AnswersMatchQuestions'
  BY <1>1, AnswersStay
<1>3. CASE main' = "terminated" /\ procs' = procs
  <2>1. Staged' /\ Stage' = Stage
    BY <1>1, <1>3 DEF Staged, Stage
  <2>2. Placed'
    BY <1>1, <1>3, <2>1 DEF Placed, AtWork
  <2>3. QED
    BY <1>2, <1>3, <2>1, <2>2 DEF FilterInv, AtWork
<1>4. CASE main' = "write" /\ procs' = Append(procs, Started)
  <2>1. IsProc(Started)
    BY DEF Started, IsProc, ProcFields
  <2>2. /\ Started.out = 0 /\ Started.outPipe = 0 /\ Started.outBuf = 0 /\ Started.running = TRUE
    BY DEF Started
  <2> DEFINE new == Started
  <2>3. procs' = Append(procs, new) /\ IsProc(new)
    BY <1>4, <2>1
  <2>4. new.out = 0 /\ new.outPipe = 0 /\ new.outBuf = 0 /\ new.running = TRUE
    BY <2>2
  <2> HIDE DEF new
  <2>5. /\ IsList(procs') /\ Len(procs') = Len(procs) + 1
        /\ procs'[Len(procs) + 1] = new /\ \A j \in DOMAIN procs : procs'[j] = procs[j]
    <3>1. IsList(procs) /\ procs' = Longer(procs, new)
      BY <1>1, <2>3 DEF Staged, Longer
    <3>2. QED
      BY <3>1, ListAppend
  <2>6. Len(procs) \in Nat /\ DOMAIN procs = 1 .. Len(procs) /\ DOMAIN procs' = 1 .. Len(procs) + 1
    BY <1>1, <2>5, ListLength DEF Staged
  <2>7. Staged'
    <3>1. ASSUME NEW j \in 1 .. Len(procs) + 1
          PROVE  IsProc(procs'[j])
      <4>1. CASE j = Len(procs) + 1
        BY <2>3, <2>5, <4>1
      <4>2. CASE j # Len(procs) + 1
        <5>1. j \in DOMAIN procs
          BY <2>6, <4>2
        <5>2. QED
          BY <1>1, <2>5, <5>1 DEF Staged
      <4>3. QED
        BY <4>1, <4>2
    <3>2. QED
      BY <2>5, <2>6, <3>1 DEF Staged
  <2>8. Stage' = Stage + 1 /\ Stage \in Nat /\ Stage < Len(cmds) /\ Len(cmds) \in Nat
    <3>1. cmds \in Seq(DOMAIN Commands)
      BY <1>1, FarFilterAssumption DEF Placed
    <3>2. QED
      BY <1>1, <2>5, <2>6, <3>1 DEF Stage, Placed
  <2>9. Placed'
    BY <1>1, <1>4, <2>8 DEF Placed, AtWork
  <2>10. Counted'
    <3>1. record <= Len(reader) /\ Stage + 1 \in 1 .. Len(cmds)
      BY <1>1, <2>8 DEF Placed, AtWork
    <3>2. Size[Answer(Stage + 1)] \in Nat
      BY <1>1, <3>1, AnswerIs
    <3>3. Answer(Stage)' = Answer(Stage + 1)
      <4>1. \A j : Answer(j)' = Answer(j)
        BY <1>1 DEF Answer, Input, Command
      <4>2. QED
        BY <2>8, <4>1
    <3>4. procs'[Stage'] = new /\ read' = 0
      BY <1>1, <2>5, <2>8 DEF Stage, Placed
    <3> DEFINE total == Size[Answer(Stage + 1)]
    <3> HIDE DEF total
    <3>5. total \in Nat /\ Size[Answer(Stage)'] = total
      BY <3>2, <3>3 DEF total
    <3>6. new.out = new.outPipe + new.outBuf + read' /\ new.out <= total
      BY <2>4, <3>4, <3>5
    <3>7. new.out \in Nat /\ new.outPipe \in Nat /\ new.outBuf \in Nat /\ Stage' >= 1 /\ new.running
      BY <2>4, <2>8
    <3>8. QED
      BY <3>4, <3>5, <3>6, <3>7 DEF Counted
  <2>11. QED
    BY <1>2, <2>7, <2>9, <2>10 DEF FilterInv
<1>5. QED
  BY <1>1, <1>3, <1>4

\* Stage i becomes q, which differs from what it was in its input or its errors only.
LEMMA StageSet ==
  ASSUME Staged, NEW i \in DOMAIN procs, NEW q, IsProc(q), SameOutput(procs[i], q),
         procs' = [procs EXCEPT ![i] = q]
  PROVE  Staged' /\ Len(procs') = Len(procs) /\ (Stage >= 1 => SameOutput(procs[Stage], procs'[Stage]))
<1>1. /\ IsList(procs') /\ Len(procs') = Len(procs)
      /\ procs'[i] = q /\ \A j \in DOMAIN procs \ {i} : procs'[j] = procs[j]
  <2>1. IsList(procs)
    BY DEF Staged
  <2>2. procs' = Put(procs, i, q)
    BY DEF Put
  <2>3. QED
    BY <2>1, <2>2, ListPut
<1>2. Len(procs) \in Nat /\ DOMAIN procs = 1 .. Len(procs) /\ DOMAIN procs' = DOMAIN procs
  BY <1>1, ListLength DEF Staged
<1>3. Staged'
  BY <1>1, <1>2 DEF Staged
<1>4. ASSUME Stage >= 1
      PROVE  SameOutput(procs[Stage], procs'[Stage])
  <2>1. Stage \in DOMAIN procs
    BY <1>2, <1>4 DEF Stage
  <2>2. CASE Stage = i
    BY <1>1, <2>2
  <2>3. CASE Stage # i
    BY <1>1, <2>1, <2>3 DEF SameOutput
  <2>4. QED
    BY <2>2, <2>3
<1>5. QED
  BY <1>1, <1>3, <1>4

\* Where the main thread is at a stage, there is one.
LEMMA AtStage ==
  ASSUME FilterInv, main \in AtWork \ {"launch"}
  PROVE  /\ Staged /\ Placed /\ AnswersMatchQuestions /\ Counted
         /\ Stage \in Nat /\ Stage >= 1 /\ Stage \in DOMAIN procs /\ DOMAIN procs = 1 .. Stage
         /\ IsProc(procs[Stage]) /\ Len(cmds) \in Nat
<1>1. Staged /\ Placed /\ AnswersMatchQuestions /\ Counted
  BY DEF FilterInv
<1>2. Stage \in Nat /\ DOMAIN procs = 1 .. Stage
  BY <1>1, ListLength DEF Staged, Stage
<1>3. Stage >= 1 /\ Stage \in DOMAIN procs
  BY <1>1, <1>2 DEF Counted
<1>4. cmds \in Seq(DOMAIN Commands)
  BY <1>1, FarFilterAssumption DEF Placed
<1>5. QED
  BY <1>1, <1>2, <1>3, <1>4 DEF Staged

LEMMA WriteFstKeeps == FilterInv /\ WriteFst /\ Keep => FilterInv'
<1> SUFFICES ASSUME FilterInv, WriteFst, Keep
             PROVE  FilterInv'
  OBVIOUS
<1> DEFINE units == Size[reader[record]] - 1
           p == [procs[1] EXCEPT !["inBuf"] = units]
           q == [p EXCEPT !["stream"] = 1]
<1>1. /\ main = "write" /\ main' = "errors" /\ Rest /\ Stage = 1
      /\ procs' = [procs EXCEPT ![1] = Tied(q)]
  BY DEF WriteFst, Keep, At, Goto, Rest
<1>2. main \in AtWork \ {"launch"}
  BY <1>1 DEF AtWork
<1>3. Staged /\ 1 \in DOMAIN procs /\ IsProc(procs[1])
  BY <1>1, <1>2, AtStage
<1> DEFINE old == procs[1]
<1>4. IsProc(p) /\ \A g \in ProcFields : p[g] = IF g = "inBuf" THEN units ELSE old[g]
  <2>1. IsProc(old)
    BY <1>3
  <2> HIDE DEF units, old
  <2>2. LET u == [old EXCEPT !["inBuf"] = units]
        IN  IsProc(u) /\ \A g \in ProcFields : u[g] = IF g = "inBuf" THEN units ELSE old[g]
    BY <2>1, ProcSet DEF ProcFields
  <2>3. QED
    BY <2>2 DEF old
<1> HIDE DEF p
<1>5. IsProc(q) /\ \A g \in ProcFields : q[g] = IF g = "stream" THEN 1 ELSE p[g]
  BY <1>4, ProcSet DEF ProcFields
<1> HIDE DEF q
<1>6. IsProc(Tied(q)) /\ SameOutput(q, Tied(q))
  BY <1>5, TiedSame
<1>7. SameOutput(procs[1], Tied(q))
  BY <1>4, <1>5, <1>6 DEF SameOutput, ProcFields
<1>8. Staged' /\ Len(procs') = Len(procs) /\ SameOutput(procs[Stage], procs'[Stage])
  <2> DEFINE x == Tied(q)
  <2>1. procs' = [procs EXCEPT ![1] = x] /\ IsProc(x) /\ SameOutput(procs[1], x)
    BY <1>1, <1>6, <1>7
  <2> HIDE DEF x
  <2>2. QED
    BY <1>1, <1>3, <2>1, StageSet
<1>9. QED
  BY <1>1, <1>2, <1>8, OutputStays

LEMMA EndCopyKeeps == FilterInv /\ EndCopy /\ Keep => FilterInv'
<1> SUFFICES ASSUME FilterInv, EndCopy, Keep
             PROVE  FilterInv'
  OBVIOUS
<1>1. /\ main = "write" /\ main' = "errors" /\ Rest
      /\ procs' = [procs EXCEPT ![Stage] = Tied(procs[Stage])]
  BY DEF EndCopy, Keep, At, Goto, Rest
<1>2. main \in AtWork \ {"launch"}
  BY <1>1 DEF AtWork
<1>3. Staged /\ Stage \in DOMAIN procs /\ Stage >= 1 /\ IsProc(procs[Stage])
  BY <1>2, AtStage
<1> DEFINE x == Tied(procs[Stage])
<1>4. IsProc(x) /\ SameOutput(procs[Stage], x)
  BY <1>3, TiedSame
<1>5. procs' = [procs EXCEPT ![Stage] = x]
  BY <1>1
<1> HIDE DEF x
<1>6. Staged' /\ Len(procs') = Len(procs) /\ SameOutput(procs[Stage], procs'[Stage])
  BY <1>3, <1>4, <1>5, StageSet
<1>7. QED
  BY <1>1, <1>2, <1>6, OutputStays

LEMMA ReadErrorKeeps == FilterInv /\ ReadError /\ Keep => FilterInv'
<1> SUFFICES ASSUME FilterInv, ReadError, Keep
             PROVE  FilterInv'
  OBVIOUS
<1> DEFINE left == procs[Stage].errBuf - 1
<1>1. /\ main = "errors" /\ main' = "errors" /\ Rest
      /\ procs' = Assign(procs, Stage, "errBuf", left)
  BY DEF ReadError, Keep, At, Goto, Rest, Assign
<1>2. main \in AtWork \ {"launch"}
  BY <1>1 DEF AtWork
<1>3. Staged /\ Stage \in DOMAIN procs /\ Stage >= 1 /\ IsProc(procs[Stage]) /\ IsList(procs)
  BY <1>2, AtStage DEF Staged
<1> HIDE DEF left
<1>4. /\ IsList(procs') /\ Len(procs') = Len(procs) /\ IsProc(procs'[Stage])
      /\ \A j \in DOMAIN procs \ {Stage} : procs'[j] = procs[j]
      /\ \A h \in ProcFields \ {"errBuf"} : procs'[Stage][h] = procs[Stage][h]
  BY <1>1, <1>3, OneSet DEF ProcFields
<1>5. DOMAIN procs' = DOMAIN procs
  BY <1>3, <1>4, ListLength
<1>6. Staged' /\ SameOutput(procs[Stage], procs'[Stage])
  BY <1>3, <1>4, <1>5 DEF Staged, SameOutput, ProcFields
<1>7. QED
  BY <1>1, <1>2, <1>4, <1>6, OutputStays

\* A unit goes from the buffer of the stage before into the stream of the last one.
LEMMA CopyUnitKeeps == FilterInv /\ CopyUnit /\ Keep => FilterInv'
<1> SUFFICES ASSUME FilterInv, CopyUnit, Keep
             PROVE  FilterInv'
  OBVIOUS
<1> DEFINE before == Stage - 1
           left == procs[before].outBuf - 1
           x == procs[Stage].inBuf + procs[Stage].stream
           mid == Assign(procs, before, "outBuf", left)
<1>1. /\ main = "write" /\ main' = "write" /\ Rest /\ Stage > 1
      /\ procs' = [procs EXCEPT ![before].outBuf = left, ![Stage].inBuf = x, ![Stage].stream = 1]
  BY DEF CopyUnit, Keep, At, Goto, Rest
<1>2. main \in AtWork \ {"launch"}
  BY <1>1 DEF AtWork
<1>3. /\ Staged /\ IsList(procs) /\ Stage \in Nat /\ Stage \in DOMAIN procs /\ DOMAIN procs = 1 .. Stage
      /\ IsProc(procs[Stage])
  BY <1>2, AtStage DEF Staged
<1>4. before \in DOMAIN procs /\ before # Stage /\ IsProc(procs[before])
  <2>1. before \in DOMAIN procs /\ before # Stage
    BY <1>1, <1>3
  <2> HIDE DEF before
  <2>2. QED
    BY <1>3, <2>1 DEF Staged
<1>5. procs' = AssignTwo(mid, Stage, "inBuf", x, "stream", 1)
  BY <1>1 DEF Assign, AssignTwo
<1> HIDE DEF left, x, before
<1>6. /\ IsList(mid) /\ Len(mid) = Len(procs) /\ IsProc(mid[before])
      /\ \A j \in DOMAIN procs \ {before} : mid[j] = procs[j]
  <2>1. "outBuf" \in ProcFields
    BY DEF ProcFields
  <2>2. QED
    BY <1>3, <1>4, <2>1, OneSet
<1> HIDE DEF mid
<1>7. DOMAIN mid = DOMAIN procs /\ \A j \in DOMAIN procs : IsProc(mid[j])
  BY <1>3, <1>6, ListLength DEF Staged
<1>8. /\ IsList(procs') /\ Len(procs') = Len(mid) /\ IsProc(procs'[Stage])
      /\ \A j \in DOMAIN mid \ {Stage} : procs'[j] = mid[j]
      /\ \A h \in ProcFields \ {"inBuf", "stream"} : procs'[Stage][h] = mid[Stage][h]
  <2>1. "inBuf" \in ProcFields /\ "stream" \in ProcFields /\ "inBuf" # "stream" /\ Stage \in DOMAIN mid
    BY <1>3, <1>7 DEF ProcFields
  <2>2. QED
    BY <1>3, <1>5, <1>6, <1>7, <2>1, TwoSet
<1>9. DOMAIN procs' = DOMAIN procs
  BY <1>3, <1>6, <1>7, <1>8, ListLength
<1>10. Staged'
  BY <1>7, <1>8, <1>9 DEF Staged
<1>11. SameOutput(procs[Stage], procs'[Stage])
  BY <1>3, <1>4, <1>6, <1>8 DEF SameOutput, ProcFields
<1>12. QED
  BY <1>1, <1>2, <1>6, <1>8, <1>10, <1>11, OutputStays

\* A step that touches nothing but main and goes no further than a stage it is at.
LEMMA MainOnly ==
  ASSUME FilterInv, Rest, procs' = procs, main \in AtWork \ {"launch"},
         main' \in {"crashed", "terminated"}
           \/ (main = "errors" /\ main' = IF Stage = Len(cmds) THEN "result" ELSE "launch")
  PROVE  FilterInv'
<1>1. /\ Staged /\ Placed /\ AnswersMatchQuestions /\ Counted /\ Stage \in Nat /\ Len(cmds) \in Nat
  BY AtStage
<1>2. Stage' = Stage
  BY DEF Stage
<1>3. Staged' /\ AnswersMatchQuestions'
  BY <1>1, AnswersStay DEF Staged, Rest
<1>4. Placed'
  BY <1>1, <1>2 DEF Placed, Rest, AtWork
<1>5. Counted'
  <2>1. Answer(Stage)' = Answer(Stage) /\ Command(Stage)' = Command(Stage)
    <3>1. \A j : Answer(j)' = Answer(j) /\ Command(j)' = Command(j)
      BY DEF Answer, Input, Command, Rest
    <3>2. QED
      BY <1>2, <3>1
  <2>2. QED
    BY <1>1, <1>2, <2>1 DEF Counted, Rest
<1>6. QED
  BY <1>3, <1>4, <1>5 DEF FilterInv

LEMMA ReadResultKeeps == FilterInv /\ ReadResult /\ Keep => FilterInv'
<1> SUFFICES ASSUME FilterInv, ReadResult, Keep
             PROVE  FilterInv'
  OBVIOUS
<1> DEFINE left == procs[Stage].outBuf - 1
<1>1. /\ main = "result" /\ main' = "result"
      /\ UNCHANGED <<reader, cmds, text, record, writer>> /\ read' = read + 1
      /\ procs' = Assign(procs, Stage, "outBuf", left) /\ procs[Stage].outBuf > 0
  BY DEF ReadResult, Keep, At, Goto, Assign
<1>2. main \in AtWork \ {"launch"}
  BY <1>1 DEF AtWork
<1>3. /\ Staged /\ Placed /\ AnswersMatchQuestions /\ Counted
      /\ Stage \in DOMAIN procs /\ Stage >= 1 /\ IsProc(procs[Stage]) /\ IsList(procs)
  BY <1>2, AtStage DEF Staged
<1> DEFINE p == procs[Stage]
           q == procs'[Stage]
<1> HIDE DEF left
<1>4. /\ IsList(procs') /\ Len(procs') = Len(procs) /\ IsProc(q) /\ q.outBuf = left
      /\ \A j \in DOMAIN procs \ {Stage} : procs'[j] = procs[j]
      /\ \A h \in ProcFields \ {"outBuf"} : q[h] = p[h]
  BY <1>1, <1>3, OneSet DEF ProcFields
<1>5. DOMAIN procs' = DOMAIN procs /\ Stage' = Stage
  BY <1>3, <1>4, ListLength DEF Stage
<1>6. Staged'
  BY <1>3, <1>4, <1>5 DEF Staged
<1>7. Placed'
  BY <1>1, <1>3, <1>5 DEF Placed, AtWork
<1>8. AnswersMatchQuestions'
  BY <1>1, <1>3, AnswersStay
<1>9. Counted'
  <2>1. Answer(Stage)' = Answer(Stage) /\ Command(Stage)' = Command(Stage)
    <3>1. \A j : Answer(j)' = Answer(j) /\ Command(j)' = Command(j)
      BY <1>1 DEF Answer, Input, Command
    <3>2. QED
      BY <1>5, <3>1
  <2>2. q.out = p.out /\ q.outPipe = p.outPipe /\ q.running = p.running /\ q.outBuf = p.outBuf - 1
    BY <1>4 DEF ProcFields, left
  <2>3. read \in Nat /\ p.outBuf > 0
    BY <1>1, <1>3 DEF Placed
  <2>4. procs'[Stage'] = q
    BY <1>5
  <2>5. /\ p.out \in Nat /\ p.outPipe \in Nat /\ p.outBuf \in Nat
        /\ p.out = p.outPipe + p.outBuf + read /\ p.out <= Size[Answer(Stage)]
        /\ ~p.running => p.out = Size[Answer(Stage)] \/ Command(Stage).fails
    BY <1>3 DEF Counted
  <2> HIDE DEF p, q
  <2>6. /\ q.out \in Nat /\ q.outPipe \in Nat /\ q.outBuf \in Nat
        /\ q.out = q.outPipe + q.outBuf + read' /\ q.out <= Size[Answer(Stage)]
        /\ ~q.running => q.out = Size[Answer(Stage)] \/ Command(Stage).fails
    BY <1>1, <2>2, <2>3, <2>5
  <2>7. QED
    BY <1>3, <1>5, <2>1, <2>4, <2>6 DEF Counted
<1>10. QED
  BY <1>6, <1>7, <1>8, <1>9 DEF FilterInv

\* The record that is written is as long as the answer, or the last command failed.
LEMMA WriteResultKeeps == FilterInv /\ WriteResult /\ Keep => FilterInv'
<1> SUFFICES ASSUME FilterInv, WriteResult, Keep
             PROVE  FilterInv'
  OBVIOUS
<1> DEFINE new == [key |-> record, value |-> Answer(Stage), units |-> read]
<1>1. /\ main = "result" /\ main' = "next" /\ UNCHANGED <<reader, cmds, text, procs>>
      /\ record' = record + 1 /\ read' = 0 /\ writer' = Append(writer, new)
      /\ IF text THEN OutEof(procs[Stage]) ELSE read = Size[Answer(Stage)]
  BY DEF WriteResult, Keep, At, Goto
<1>2. main \in AtWork \ {"launch"}
  BY <1>1 DEF AtWork
<1>3. /\ Staged /\ Placed /\ AnswersMatchQuestions /\ Counted /\ Len(cmds) \in Nat
      /\ Stage \in Nat /\ Stage >= 1 /\ Stage = Len(cmds) /\ record <= Len(reader)
  BY <1>1, <1>2, AtStage DEF Placed
<1> DEFINE expected == Passed(reader[record], cmds)[Len(cmds)]
<1>4. Answer(Stage) = expected /\ Size[expected] \in Nat /\ Stage \in 1 .. Len(cmds)
  BY <1>3, AnswerIs
<1>5. new.key = record /\ new.value = expected /\ new.units = read
  BY <1>4
<1>6. read # Size[expected] =>
        text /\ read < Size[expected] /\ \E i \in DOMAIN cmds : Command(i).fails
  <2> SUFFICES ASSUME read # Size[expected]
               PROVE  text /\ read < Size[expected] /\ \E i \in DOMAIN cmds : Command(i).fails
    OBVIOUS
  <2> DEFINE p == procs[Stage]
             total == Size[expected]
  <2>1. text
    BY <1>1, <1>4
  <2>2. ~p.running /\ p.outPipe = 0 /\ p.outBuf = 0
    BY <1>1, <2>1 DEF OutEof
  <2>3. /\ p.out = p.outPipe + p.outBuf + read /\ p.out <= total
        /\ p.out = total \/ Command(Stage).fails
    BY <1>3, <1>4, <2>2 DEF Counted
  <2>4. read \in Nat /\ total \in Nat /\ read # total
    BY <1>3, <1>4 DEF Placed
  <2> HIDE DEF p, total
  <2>5. read < total /\ Command(Stage).fails
    BY <2>2, <2>3, <2>4
  <2>6. Stage \in DOMAIN cmds
    <3>1. cmds \in Seq(DOMAIN Commands)
      BY <1>3, FarFilterAssumption DEF Placed
    <3>2. QED
      BY <1>4, <3>1
  <2>7. QED
    BY <2>1, <2>5, <2>6 DEF total
<1> HIDE DEF new, expected
<1>7. IsList(writer) /\ Len(writer) \in Nat /\ record = Len(writer) + 1 /\ DOMAIN writer = 1 .. Len(writer)
  BY <1>3, ListLength DEF Placed
<1>8. /\ IsList(writer') /\ Len(writer') = Len(writer) + 1
      /\ writer'[record] = new /\ \A j \in DOMAIN writer : writer'[j] = writer[j]
  <2>1. writer' = Longer(writer, new)
    BY <1>1 DEF Longer
  <2>2. QED
    BY <1>7, <2>1, ListAppend
<1>9. DOMAIN writer' = 1 .. record
  BY <1>7, <1>8, ListLength
<1>10. Staged' /\ Stage' = Stage
  BY <1>1, <1>3 DEF Staged, Stage
<1>11. Placed'
  <2>1. Len(writer') + 1 = record' /\ IsList(writer')
    BY <1>1, <1>7, <1>8
  <2>2. QED
    BY <1>1, <1>3, <2>1 DEF Placed, AtWork
<1>12. AnswersMatchQuestions'
  <2> DEFINE Good(k, w) ==
        /\ w.key = k /\ w.value = Passed(reader[k], cmds)[Len(cmds)]
        /\ w.units # Size[Passed(reader[k], cmds)[Len(cmds)]] =>
             /\ text /\ w.units < Size[Passed(reader[k], cmds)[Len(cmds)]]
             /\ \E i \in DOMAIN cmds : Command(i).fails
  <2>1. \A k \in DOMAIN writer : Good(k, writer[k])
    BY <1>3 DEF AnswersMatchQuestions
  <2>2. Good(record, new)
    BY <1>5, <1>6 DEF expected
  <2>3. ASSUME NEW k \in DOMAIN writer'
        PROVE  Good(k, writer'[k])
    <3> HIDE DEF Good
    <3>1. CASE k = record
      BY <1>8, <2>2, <3>1
    <3>2. CASE k # record
      <4>1. k \in DOMAIN writer
        BY <1>7, <1>9, <3>2
      <4>2. QED
        BY <1>8, <2>1, <4>1
    <3>3. QED
      BY <3>1, <3>2
  <2>4. QED
    BY <1>1, <2>3 DEF AnswersMatchQuestions, Command
<1>13. QED
  BY <1>1, <1>10, <1>11, <1>12 DEF FilterInv, AtWork

-----------------------------------------------------------------------------
(* The tools together *)

LEMMA MainKeeps == FilterInv /\ Main => FilterInv'
<1> SUFFICES ASSUME FilterInv, Main
             PROVE  FilterInv'
  OBVIOUS
<1>1. Keep
  BY DEF Main
<1>2. CASE NextRecord
  BY <1>1, <1>2, NextRecordKeeps
<1>3. CASE Launch
  BY <1>1, <1>3, LaunchKeeps
<1>4. CASE WriteFst
  BY <1>1, <1>4, WriteFstKeeps
<1>5. CASE CopyUnit
  BY <1>1, <1>5, CopyUnitKeeps
<1>6. CASE EndCopy
  BY <1>1, <1>6, EndCopyKeeps
<1>7. CASE ReadError
  BY <1>1, <1>7, ReadErrorKeeps
<1>8. CASE EndErrors
  BY <1>1, <1>8, MainOnly DEF EndErrors, Keep, Rest, At, Goto, AtWork
<1>9. CASE ReadResult
  BY <1>1, <1>9, ReadResultKeeps
<1>10. CASE WriteResult
  BY <1>1, <1>10, WriteResultKeeps
<1>11. CASE CopyNull
  BY <1>1, <1>11, MainOnly DEF CopyNull, Keep, Rest, At, Goto, AtWork
<1>12. ASSUME Waiting, Goto("terminated"), UNCHANGED <<procs, record, read, writer>>
       PROVE  FilterInv'
  BY <1>1, <1>12, MainOnly DEF Waiting, Keep, Rest, At, Goto, AtWork
<1>13. CASE GetBroken
  BY <1>12, <1>13 DEF GetBroken
<1>14. CASE Timeout
  BY <1>12, <1>14 DEF Timeout
<1>15. CASE PutBroken
  BY <1>1, <1>15, MainOnly DEF PutBroken, Keep, Rest, At, Goto, AtWork
<1>16. QED
  BY <1>2, <1>3, <1>4, <1>5, <1>6, <1>7, <1>8, <1>9, <1>10, <1>11, <1>13, <1>14, <1>15 DEF Main

LEMMA FilterKeeps == FilterInv /\ [Next]_vars => FilterInv'
<1> SUFFICES ASSUME FilterInv, [Next]_vars
             PROVE  FilterInv'
  OBVIOUS
<1>1. CASE Filter
  <2>1. CASE Main
    BY <2>1, MainKeeps
  <2>2. CASE Others /\ \E i \in DOMAIN procs : Child(i) \/ Thread(i)
    BY <2>2, StageKeeps
  <2>3. QED
    BY <1>1, <2>1, <2>2 DEF Filter
<1>2. CASE UNCHANGED filterVars
  <2>1. UNCHANGED <<reader, cmds, text, record, main, procs, read, writer>>
    BY <1>2 DEF filterVars
  <2>2. Staged' /\ Stage' = Stage
    BY <2>1 DEF FilterInv, Staged, Stage
  <2>3. Placed' /\ AnswersMatchQuestions'
    BY <2>1, <2>2, AnswersStay DEF FilterInv, Placed
  <2>4. Answer(Stage)' = Answer(Stage) /\ Command(Stage)' = Command(Stage)
    <3>1. \A j : Answer(j)' = Answer(j) /\ Command(j)' = Command(j)
      BY <2>1 DEF Answer, Input, Command
    <3>2. QED
      BY <2>2, <3>1
  <2>5. Counted => Counted'
    BY <2>1, <2>2, <2>4 DEF Counted
  <2>6. QED
    BY <2>1, <2>2, <2>3, <2>5 DEF FilterInv
<1>3. QED
  BY <1>1, <1>2 DEF Next, PrintNext, PrintFst, vars

(* What farfilter writes under a key is, whole, what its chain of commands makes of   *)
(* the FST of that key, for every archive, chain, size of the pipes and interleaving. *)
THEOREM SpecAnswersMatchQuestions == Spec => []AnswersMatchQuestions
<1>1. Init => FilterInv
  BY FilterStart DEF Init
<1>2. FilterInv => AnswersMatchQuestions
  BY DEF FilterInv
<1>3. QED
  BY <1>1, <1>2, FilterKeeps, PTL DEF Spec

-----------------------------------------------------------------------------
(* The Kaldi weights *)

(* The order *)

\* A weight is Zero or a pair of finite costs, and those are all it holds.
LEMMA WeightCases ==
  ASSUME NEW a \in Weight
  PROVE  \/ a = Zero /\ a.zero
         \/ /\ a \in Finite /\ ~a.zero
            /\ a.value1 \in Int /\ a.value2 \in Int
            /\ a = Pair(a.value1, a.value2)
<1>1. CASE a = Zero
  BY <1>1 DEF Zero
<1>2. CASE a \in Finite
  BY <1>2 DEF Finite, Pair
<1>3. QED
  BY <1>1, <1>2 DEF Weight

LEMMA PairFields ==
  ASSUME NEW i \in Int, NEW j \in Int
  PROVE  /\ Pair(i, j) \in Finite
         /\ ~Pair(i, j).zero /\ Pair(i, j).value1 = i /\ Pair(i, j).value2 = j
  BY DEF Pair, Finite

LEMMA OpsType ==
  ASSUME NEW a \in Weight, NEW b \in Weight
  PROVE  /\ Plus(a, b) \in Weight
         /\ Times(a, b) \in Weight
         /\ Divide(a, b) \in Weight
<1>1. Plus(a, b) \in Weight
  BY DEF Plus
<1>2. CASE a.zero \/ b.zero
  <2>1. Times(a, b) = Zero /\ Divide(a, b) = Zero
    BY <1>2 DEF Times, Divide
  <2>2. QED
    BY <1>1, <2>1 DEF Weight
<1>3. CASE ~a.zero /\ ~b.zero
  <2>1. /\ a.value1 + b.value1 \in Int /\ a.value2 + b.value2 \in Int
        /\ a.value1 - b.value1 \in Int /\ a.value2 - b.value2 \in Int
    BY <1>3, WeightCases
  <2>2. /\ Times(a, b) = Pair(a.value1 + b.value1, a.value2 + b.value2)
        /\ Divide(a, b) = Pair(a.value1 - b.value1, a.value2 - b.value2)
    BY <1>3 DEF Times, Divide
  <2>3. Times(a, b) \in Finite /\ Divide(a, b) \in Finite
    BY <2>1, <2>2, PairFields
  <2>4. QED
    BY <1>1, <2>3 DEF Weight
<1>4. QED
  BY <1>2, <1>3

\* What Compare decides, without its order of tests.
LEMMA CompareIs ==
  ASSUME NEW a \in Weight, NEW b \in Weight
  PROVE  /\ Compare(a, b) \in {-1, 0, 1}
         /\ Compare(a, b) = 0 <=> a = b
         /\ Compare(a, b) = 1 <=> Compare(b, a) = -1
<1>1. Compare(a, b) \in {-1, 0, 1}
  BY DEF Compare
<1>2. Compare(a, b) = 1 <=> Compare(b, a) = -1
  BY WeightCases DEF Compare, SumBelow, FirstBelow
<1>3. Compare(a, b) = 0 <=> a = b
  <2>1. CASE a = Zero \/ b = Zero
    BY <2>1, WeightCases DEF Compare, SumBelow, FirstBelow
  <2>2. CASE ~a.zero /\ ~b.zero
    <3>1. Compare(a, b) = 0 <=> a.value1 = b.value1 /\ a.value2 = b.value2
      BY <2>2, WeightCases DEF Compare, SumBelow, FirstBelow
    <3>2. QED
      BY <2>2, <3>1, WeightCases
  <2>3. QED
    BY <2>1, <2>2, WeightCases
<1>4. QED
  BY <1>1, <1>2, <1>3

LEMMA CompareTransitive ==
  ASSUME NEW a \in Weight, NEW b \in Weight, NEW c \in Weight,
         Compare(a, b) >= 0, Compare(b, c) >= 0
  PROVE  Compare(a, c) >= 0
  BY WeightCases DEF Compare, SumBelow, FirstBelow

-----------------------------------------------------------------------------
(* The semiring *)

\* Plus is commutative, associative and idempotent, has Zero as its neutral
\* element and returns one of its arguments (the path property).
THEOREM PlusLaws ==
  ASSUME NEW a \in Weight, NEW b \in Weight, NEW c \in Weight
  PROVE  /\ Plus(a, b) = Plus(b, a)
         /\ Plus(Plus(a, b), c) = Plus(a, Plus(b, c))
         /\ Plus(a, a) = a
         /\ Plus(a, Zero) = a
         /\ Plus(a, b) \in {a, b}
<1>1. /\ Plus(a, b) = Plus(b, a)
      /\ Plus(a, a) = a
      /\ Plus(a, b) \in {a, b}
  BY CompareIs DEF Plus
<1>2. Plus(Plus(a, b), c) = Plus(a, Plus(b, c))
  <2>1. \A u, v \in Weight : Compare(u, v) \in {-1, 0, 1}
                             /\ (Compare(u, v) >= 0 \/ Compare(v, u) >= 0)
                             /\ (Compare(u, v) = 0 <=> u = v)
                             /\ (Compare(u, v) = 1 <=> Compare(v, u) = -1)
    BY CompareIs
  <2>2. \A u, v, w \in Weight : Compare(u, v) >= 0 /\ Compare(v, w) >= 0 => Compare(u, w) >= 0
    BY CompareTransitive
  <2>3. QED
    BY <2>1, <2>2 DEF Plus
<1>3. Plus(a, Zero) = a
  <2>1. Zero.zero
    BY DEF Zero
  <2>2. QED
    BY <2>1, WeightCases DEF Plus, Compare, SumBelow, FirstBelow
<1>4. QED
  BY <1>1, <1>2, <1>3

\* Times is commutative and associative, One is its neutral element and Zero
\* annihilates.
THEOREM TimesLaws ==
  ASSUME NEW a \in Weight, NEW b \in Weight, NEW c \in Weight
  PROVE  /\ Times(a, b) = Times(b, a)
         /\ Times(Times(a, b), c) = Times(a, Times(b, c))
         /\ Times(a, One) = a
         /\ Times(a, Zero) = Zero
<1>1. Times(a, b) = Times(b, a)
  BY WeightCases DEF Times
<1>2. Times(Times(a, b), c) = Times(a, Times(b, c))
  <2>1. CASE a.zero \/ b.zero \/ c.zero
    BY <2>1 DEF Times, Zero
  <2>2. CASE ~a.zero /\ ~b.zero /\ ~c.zero
    BY <2>2, WeightCases, PairFields DEF Times
  <2>3. QED
    BY <2>1, <2>2
<1>3. Times(a, One) = a
  <2>1. ~One.zero /\ One.value1 = 0 /\ One.value2 = 0
    BY PairFields DEF One
  <2>2. QED
    BY <2>1, WeightCases DEF Times
<1>4. Times(a, Zero) = Zero
  BY DEF Times, Zero
<1>5. QED
  BY <1>1, <1>2, <1>3, <1>4

\* Extending two paths by the same arc keeps their order: the tie-break on the
\* first cost included, the better of two weights stays the better one.
THEOREM CompareMonotone ==
  ASSUME NEW a \in Weight, NEW b \in Weight, NEW c \in Finite
  PROVE  Compare(Times(a, c), Times(b, c)) = Compare(a, b)
<1>1. c \in Weight /\ ~c.zero /\ c.value1 \in Int /\ c.value2 \in Int
  BY DEF Weight, Finite
<1>2. CASE a.zero \/ b.zero
  <2>1. /\ Times(a, c).zero <=> a.zero
        /\ Times(b, c).zero <=> b.zero
    BY <1>1, WeightCases, PairFields DEF Times
  <2>2. QED
    BY <1>2, <2>1 DEF Compare, SumBelow, FirstBelow
<1>3. CASE ~a.zero /\ ~b.zero
  <2>1. /\ Times(a, c) = Pair(a.value1 + c.value1, a.value2 + c.value2)
        /\ Times(b, c) = Pair(b.value1 + c.value1, b.value2 + c.value2)
    BY <1>1, <1>3 DEF Times
  <2>2. /\ SumBelow(Times(a, c), Times(b, c)) <=> SumBelow(a, b)
        /\ SumBelow(Times(b, c), Times(a, c)) <=> SumBelow(b, a)
        /\ FirstBelow(Times(a, c), Times(b, c)) <=> FirstBelow(a, b)
        /\ FirstBelow(Times(b, c), Times(a, c)) <=> FirstBelow(b, a)
    <3>1. /\ ~Times(a, c).zero /\ ~Times(b, c).zero
          /\ Times(a, c).value1 = a.value1 + c.value1
          /\ Times(a, c).value2 = a.value2 + c.value2
          /\ Times(b, c).value1 = b.value1 + c.value1
          /\ Times(b, c).value2 = b.value2 + c.value2
      BY <1>1, <1>3, <2>1, WeightCases, PairFields
    <3>2. /\ a.value1 \in Int /\ a.value2 \in Int
          /\ b.value1 \in Int /\ b.value2 \in Int
      BY <1>3, WeightCases
    <3>3. QED
      BY <1>1, <1>3, <3>1, <3>2 DEF SumBelow, FirstBelow
  <2>3. QED
    BY <2>2 DEF Compare
<1>4. QED
  BY <1>2, <1>3

\* Times distributes over Plus: the best of the extended paths is the
\* extension of the best path, which is what lets ShortestPath keep one weight
\* for a state.
THEOREM Distributive ==
  ASSUME NEW a \in Weight, NEW b \in Weight, NEW c \in Weight
  PROVE  Times(Plus(a, b), c) = Plus(Times(a, c), Times(b, c))
<1>1. CASE c = Zero
  <2>1. /\ Plus(a, b) \in Weight
        /\ Zero \in Weight
    BY OpsType DEF Weight
  <2>2. Times(Plus(a, b), c) = Zero /\ Times(a, c) = Zero /\ Times(b, c) = Zero
    BY <1>1, <2>1, TimesLaws
  <2>3. QED
    BY <2>1, <2>2, PlusLaws
<1>2. CASE c \in Finite
  BY <1>2, CompareMonotone DEF Plus
<1>3. QED
  BY <1>1, <1>2 DEF Weight

\* Divide takes back what Times added, as long as it was not Zero.
THEOREM DivideInverts ==
  ASSUME NEW a \in Weight, NEW b \in Finite
  PROVE  /\ Divide(Times(a, b), b) = a
         /\ Times(Divide(a, b), b) = a
<1>1. b \in Weight /\ ~b.zero /\ b.value1 \in Int /\ b.value2 \in Int
  BY DEF Weight, Finite
<1>2. CASE a = Zero
  BY <1>2 DEF Divide, Times, Zero
<1>3. CASE ~a.zero
  BY <1>1, <1>3, WeightCases, PairFields DEF Divide, Times
<1>4. QED
  BY <1>2, <1>3, WeightCases

=============================================================================
