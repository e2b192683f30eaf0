---------------------------- MODULE GcMarkProofs ----------------------------
(***************************************************************************)
(* The calls of State::GcMark mark what Reachable says, for every lattice, *)
(* every choice of tokens and every order of arcs_.                        *)
(*                                                                         *)
(* A state is marked when its call returns.  Until then something answers  *)
(* for each of its predecessors: it is marked, or the call has still to    *)
(* visit it, or the call above it on the stack is that visit.              *)
(* And it is marked as often as it has been visited: when all calls have   *)
(* returned, once for each token, best arc and lattice arc that leads to   *)
(* it.                                                                     *)
(***************************************************************************)
EXTENDS GcMark, LatticeLemmas, SequenceTheorems

Calls(R) == [state : R, left : Seq(R)]

\* What answers for the predecessors of the i-th call and for the roots, when M
\* is marked and `called` is being visited from the top of the stack.
Answers(M, called, st, i) ==
  M \cup Range(st[i].left) \cup (IF i > 1 THEN {st[i - 1].state} ELSE called)

AnswersRoots(M, called, st, left) ==
  M \cup Range(left) \cup (IF st = <<>> THEN called ELSE {st[Len(st)].state})

Answered(M, called, st, left, bp, rs) ==
  /\ \A x \in M : bp[x] \subseteq M
  /\ \A i \in 1 .. Len(st) : bp[st[i].state] \subseteq Answers(M, called, st, i)
  /\ rs \subseteq AnswersRoots(M, called, st, left)

-----------------------------------------------------------------------------
(* Stacks *)

LEMMA Popped ==
  ASSUME NEW S, NEW s \in Seq(S), s # <<>>
  PROVE  /\ Len(s) \in Nat \ {0}
         /\ Head(s) = s[1] /\ Head(s) \in S
         /\ Tail(s) \in Seq(S) /\ Len(Tail(s)) = Len(s) - 1
         /\ \A i \in 1 .. Len(s) - 1 : Tail(s)[i] = s[i + 1]
  BY HeadTailProperties, EmptySeq

LEMMA Pushed ==
  ASSUME NEW S, NEW e \in S, NEW s \in Seq(S)
  PROVE  /\ <<e>> \o s \in Seq(S) /\ <<e>> \o s # <<>>
         /\ Len(s) \in Nat /\ Len(<<e>> \o s) = Len(s) + 1
         /\ (<<e>> \o s)[1] = e
         /\ \A i \in 2 .. Len(s) + 1 : (<<e>> \o s)[i] = s[i - 1]
<1>1. <<e>> \in Seq(S) /\ Len(<<e>>) = 1 /\ <<e>>[1] = e
  OBVIOUS
<1>2. Len(s) \in Nat
  OBVIOUS
<1>3. /\ <<e>> \o s \in Seq(S) /\ Len(<<e>> \o s) = Len(s) + 1
      /\ \A i \in 1 .. Len(s) + 1 : (<<e>> \o s)[i] = IF i <= 1 THEN e ELSE s[i - 1]
  BY <1>1, <1>2, ConcatProperties
<1>4. QED
  BY <1>2, <1>3

LEMMA RangeOf ==
  ASSUME NEW S, NEW s \in Seq(S)
  PROVE  Range(s) = {s[i] : i \in 1 .. Len(s)} /\ Range(s) \subseteq S
  BY DEF Range

LEMMA RangePopped ==
  ASSUME NEW S, NEW s \in Seq(S), s # <<>>
  PROVE  Range(s) = {Head(s)} \cup Range(Tail(s))
<1>1. /\ Len(s) \in Nat \ {0} /\ Head(s) = s[1] /\ Tail(s) \in Seq(S)
      /\ Len(Tail(s)) = Len(s) - 1 /\ \A i \in 1 .. Len(s) - 1 : Tail(s)[i] = s[i + 1]
  BY Popped
<1>2. /\ Range(s) = {s[i] : i \in 1 .. Len(s)}
      /\ Range(Tail(s)) = {Tail(s)[i] : i \in 1 .. Len(s) - 1}
  BY <1>1, RangeOf
<1>3. \A i \in 1 .. Len(s) : i = 1 \/ (i - 1 \in 1 .. Len(s) - 1 /\ s[i] = Tail(s)[i - 1])
  BY <1>1
<1>4. \A i \in 1 .. Len(s) - 1 : i + 1 \in 1 .. Len(s) /\ Tail(s)[i] = s[i + 1]
  BY <1>1
<1>5. 1 \in 1 .. Len(s)
  BY <1>1
<1>6. ASSUME NEW y \in Range(s) PROVE y \in {Head(s)} \cup Range(Tail(s))
  <2>1. PICK i \in 1 .. Len(s) : y = s[i]
    BY <1>2
  <2>2. QED
    BY <1>1, <1>2, <1>3, <2>1
<1>7. Range(Tail(s)) \subseteq Range(s)
  BY <1>2, <1>4
<1>8. Head(s) \in Range(s)
  BY <1>1, <1>2, <1>5
<1>9. QED
  BY <1>6, <1>7, <1>8

-----------------------------------------------------------------------------
(* What each step does to the answers *)

\* A state that is marked answers for itself.
LEMMA VisitedMarked ==
  ASSUME NEW M, NEW x \in M, NEW st, NEW left, NEW bp, NEW rs,
         Answered(M, {x}, st, left, bp, rs)
  PROVE  Answered(M, {}, st, left, bp, rs)
  BY DEF Answered, Answers, AnswersRoots

\* One that is not is called, and has all its predecessors still to visit.
LEMMA VisitedUnmarked ==
  ASSUME NEW R, NEW M, NEW call \in Calls(R), NEW st \in Seq(Calls(R)), NEW left, NEW bp, NEW rs,
         Answered(M, {call.state}, st, left, bp, rs),
         bp[call.state] \subseteq Range(call.left)
  PROVE  /\ <<call>> \o st \in Seq(Calls(R))
         /\ Answered(M, {}, <<call>> \o st, left, bp, rs)
<1> DEFINE t == <<call>> \o st
<1>1. /\ t \in Seq(Calls(R)) /\ t # <<>> /\ Len(st) \in Nat /\ Len(t) = Len(st) + 1
      /\ t[1] = call /\ \A i \in 2 .. Len(st) + 1 : t[i] = st[i - 1]
  BY Pushed
<1> HIDE DEF t
<1>2. ASSUME NEW i \in 1 .. Len(t) PROVE bp[t[i].state] \subseteq Answers(M, {}, t, i)
  <2>1. CASE i = 1
    BY <1>1, <2>1 DEF Answers
  <2>2. CASE i = 2
    <3>1. t[2] = st[1] /\ 1 \in 1 .. Len(st) /\ t[i - 1] = call
      BY <1>1, <2>2
    <3>2. bp[st[1].state] \subseteq Answers(M, {call.state}, st, 1)
      BY <3>1 DEF Answered
    <3>3. QED
      BY <2>2, <3>1, <3>2 DEF Answers
  <2>3. CASE i > 2
    <3>1. t[i] = st[i - 1] /\ t[i - 1] = st[i - 2] /\ i - 1 \in 1 .. Len(st) /\ i - 1 > 1
      BY <1>1, <2>3
    <3>2. bp[st[i - 1].state] \subseteq Answers(M, {call.state}, st, i - 1)
      BY <3>1 DEF Answered
    <3>3. Answers(M, {call.state}, st, i - 1) \subseteq Answers(M, {}, t, i)
      BY <3>1, <2>3 DEF Answers
    <3>4. QED
      BY <3>1, <3>2, <3>3
  <2>4. QED
    BY <2>1, <2>2, <2>3, <1>1
<1>3. rs \subseteq AnswersRoots(M, {}, t, left)
  <2>1. CASE st = <<>>
    <3>1. t[Len(t)] = call
      BY <1>1, <2>1
    <3>2. QED
      BY <3>1, <2>1, <1>1 DEF Answered, AnswersRoots
  <2>2. CASE st # <<>>
    <3>1. Len(st) # 0
      BY <2>2, EmptySeq
    <3>2. t[Len(t)] = st[Len(st)]
      BY <3>1, <1>1
    <3>3. QED
      BY <3>2, <2>2, <1>1 DEF Answered, AnswersRoots
  <2>3. QED
    BY <2>1, <2>2
<1>4. QED
  BY <1>1, <1>2, <1>3 DEF Answered, t

\* The next token, and the next predecessor, are taken off what is to be visited:
\* now their visit answers for them.
LEMMA TakenToken ==
  ASSUME NEW S, NEW left \in Seq(S), left # <<>>, NEW M, NEW bp, NEW rs,
         Answered(M, {}, <<>>, left, bp, rs)
  PROVE  Answered(M, {Head(left)}, <<>>, Tail(left), bp, rs)
<1>1. Range(left) = {Head(left)} \cup Range(Tail(left))
  BY RangePopped
<1>2. QED
  BY <1>1 DEF Answered, Answers, AnswersRoots

LEMMA TakenPredecessor ==
  ASSUME NEW R, NEW M, NEW st \in Seq(Calls(R)), st # <<>>, Head(st).left # <<>>,
         NEW left, NEW bp, NEW rs,
         Answered(M, {}, st, left, bp, rs)
  PROVE  LET call == Head(st)
             t == <<[call EXCEPT !.left = Tail(@)]>> \o Tail(st)
         IN  /\ Head(call.left) \in R /\ t \in Seq(Calls(R))
             /\ Answered(M, {Head(call.left)}, t, left, bp, rs)
<1> DEFINE call == Head(st)
           rest == [call EXCEPT !.left = Tail(@)]
           t == <<rest>> \o Tail(st)
<1>1. /\ Len(st) \in Nat \ {0} /\ call = st[1] /\ call \in Calls(R)
      /\ Tail(st) \in Seq(Calls(R)) /\ Len(Tail(st)) = Len(st) - 1
      /\ \A i \in 1 .. Len(st) - 1 : Tail(st)[i] = st[i + 1]
  BY Popped
<1>2. call.left \in Seq(R) /\ call.left # <<>> /\ call.state \in R
  BY <1>1 DEF Calls
<1>3. Head(call.left) \in R /\ Tail(call.left) \in Seq(R)
  BY <1>2, Popped
<1>4. rest \in Calls(R) /\ rest.state = call.state /\ rest.left = Tail(call.left)
  BY <1>1, <1>2, <1>3 DEF Calls
<1>5. Range(call.left) = {Head(call.left)} \cup Range(rest.left)
  BY <1>2, <1>4, RangePopped
<1>6. /\ t \in Seq(Calls(R)) /\ t # <<>> /\ Len(t) = Len(st) /\ t[1] = rest
      /\ \A i \in 2 .. Len(st) : t[i] = st[i]
  <2>1. /\ t \in Seq(Calls(R)) /\ t # <<>> /\ Len(t) = Len(Tail(st)) + 1 /\ t[1] = rest
        /\ \A i \in 2 .. Len(Tail(st)) + 1 : t[i] = Tail(st)[i - 1]
    BY <1>1, <1>4, Pushed
  <2> HIDE DEF t, rest, call
  <2>2. QED
    BY <1>1, <2>1
<1>7. \A i \in 1 .. Len(st) : t[i].state = st[i].state
  <2> HIDE DEF t, rest, call
  <2> QED BY <1>1, <1>4, <1>6
<1> HIDE DEF t, rest, call
<1>8. ASSUME NEW i \in 1 .. Len(t)
      PROVE  bp[t[i].state] \subseteq Answers(M, {Head(call.left)}, t, i)
  <2>1. bp[t[i].state] \subseteq Answers(M, {}, st, i)
    BY <1>6, <1>7 DEF Answered
  <2>2. CASE i = 1
    BY <1>1, <1>5, <1>6, <2>1, <2>2 DEF Answers
  <2>3. CASE i # 1
    <3>1. i > 1 /\ t[i] = st[i] /\ t[i - 1].state = st[i - 1].state
      BY <1>1, <1>6, <1>7, <2>3
    <3>2. QED
      BY <2>1, <3>1 DEF Answers
  <2>4. QED
    BY <2>2, <2>3
<1>9. rs \subseteq AnswersRoots(M, {Head(call.left)}, t, left)
  <2>1. t[Len(t)].state = st[Len(st)].state
    BY <1>1, <1>6, <1>7
  <2>2. QED
    BY <2>1, <1>6 DEF Answered, AnswersRoots
<1>10. QED
  BY <1>3, <1>6, <1>8, <1>9 DEF Answered, t, rest, call

\* A call that has nothing left to visit marks its state.
LEMMA Returned ==
  ASSUME NEW R, NEW M, NEW st \in Seq(Calls(R)), st # <<>>, Head(st).left = <<>>,
         NEW left, NEW bp, NEW rs,
         Answered(M, {}, st, left, bp, rs)
  PROVE  /\ Tail(st) \in Seq(Calls(R)) /\ Head(st).state \in R
         /\ Answered(M \cup {Head(st).state}, {}, Tail(st), left, bp, rs)
<1> DEFINE x == Head(st).state
           t == Tail(st)
           N == M \cup {x}
<1>1. /\ Len(st) \in Nat \ {0} /\ Head(st) = st[1] /\ Head(st) \in Calls(R)
      /\ t \in Seq(Calls(R)) /\ Len(t) = Len(st) - 1
      /\ \A i \in 1 .. Len(st) - 1 : t[i] = st[i + 1]
  BY Popped
<1>2. x \in R /\ x = st[1].state
  BY <1>1 DEF Calls
<1>3. bp[x] \subseteq M
  <2>1. 1 \in 1 .. Len(st) /\ Range(st[1].left) = {}
    BY <1>1 DEF Range
  <2>2. QED
    BY <1>2, <2>1 DEF Answered, Answers
<1> HIDE DEF t, x
<1>4. \A y \in N : bp[y] \subseteq N
  BY <1>3 DEF Answered
<1>5. ASSUME NEW i \in 1 .. Len(t) PROVE bp[t[i].state] \subseteq Answers(N, {}, t, i)
  <2>1. i + 1 \in 1 .. Len(st) /\ i + 1 > 1 /\ t[i] = st[i + 1] /\ (i + 1) - 1 = i
    BY <1>1
  <2>2. bp[t[i].state] \subseteq M \cup Range(t[i].left) \cup {st[i].state}
    BY <2>1 DEF Answered, Answers
  <2>3. CASE i = 1
    BY <1>2, <2>2, <2>3 DEF Answers
  <2>4. CASE i # 1
    <3>1. i > 1 /\ t[i - 1] = st[i]
      BY <1>1, <2>4
    <3>2. QED
      BY <2>2, <3>1 DEF Answers
  <2>5. QED
    BY <2>3, <2>4
<1>6. rs \subseteq AnswersRoots(N, {}, t, left)
  <2>1. rs \subseteq M \cup Range(left) \cup {st[Len(st)].state}
    BY DEF Answered, AnswersRoots
  <2>2. CASE t = <<>>
    <3>1. Len(st) = 1
      BY <1>1, <2>2, EmptySeq
    <3>2. QED
      BY <2>1, <2>2, <3>1, <1>2 DEF AnswersRoots
  <2>3. CASE t # <<>>
    <3>1. t[Len(t)] = st[Len(st)]
      BY <1>1, <2>3, EmptySeq
    <3>2. QED
      BY <2>1, <2>3, <3>1 DEF AnswersRoots
  <2>4. QED
    BY <2>2, <2>3
<1>7. QED
  BY <1>1, <1>2, <1>4, <1>5, <1>6 DEF Answered, t, x

-----------------------------------------------------------------------------
(* The predecessors a call visits *)

LEMMA SetAsSeq ==
  ASSUME NEW A, IsFiniteSet(A)
  PROVE  SetToSeq(A) \in Seq(A) /\ Range(SetToSeq(A)) = A
<1> DEFINE n == Cardinality(A)
           f == SetToSeq(A)
<1>1. n \in Nat /\ ExistsBijection(1 .. n, A)
  BY FS_CardinalityType
<1>2. \E g \in [1 .. n -> A] : IsInjective(g)
  BY <1>1 DEF ExistsBijection, Bijection, Injection
<1>3. f \in [1 .. n -> A] /\ IsInjective(f)
  BY <1>2 DEF SetToSeq
<1>4. f \in Injection(1 .. n, A)
  BY <1>3 DEF Injection
<1>5. IsFiniteSet(1 .. n) /\ Cardinality(1 .. n) = n
  BY <1>1, FS_Interval
<1>6. f \in Surjection(1 .. n, A)
  <2> HIDE DEF f, n
  <2> QED BY <1>4, <1>5, FS_Injection DEF n
<1>7. \A a \in A : \E i \in 1 .. n : f[i] = a
  BY <1>6 DEF Surjection
<1> HIDE DEF f, n
<1>8. f \in Seq(A)
  BY <1>1, <1>3
<1>9. Range(f) = A
  BY <1>3, <1>7 DEF Range
<1>10. QED
  BY <1>8, <1>9 DEF f

LEMMA RangeConcat ==
  ASSUME NEW S, NEW s \in Seq(S), NEW t \in Seq(S)
  PROVE  s \o t \in Seq(S) /\ Range(s \o t) = Range(s) \cup Range(t)
<1> DEFINE c == s \o t
<1>1. /\ Len(s) \in Nat /\ Len(t) \in Nat /\ c \in Seq(S) /\ Len(c) = Len(s) + Len(t)
      /\ \A i \in 1 .. Len(s) + Len(t) : c[i] = IF i <= Len(s) THEN s[i] ELSE t[i - Len(s)]
  BY ConcatProperties
<1> HIDE DEF c
<1>2. /\ Range(c) = {c[i] : i \in 1 .. Len(c)} /\ Range(s) = {s[i] : i \in 1 .. Len(s)}
      /\ Range(t) = {t[i] : i \in 1 .. Len(t)}
  BY <1>1, RangeOf
<1>3. ASSUME NEW i \in 1 .. Len(c) PROVE c[i] \in Range(s) \cup Range(t)
  <2>1. CASE i <= Len(s)
    BY <1>1, <1>2, <2>1
  <2>2. CASE ~(i <= Len(s))
    <3>1. i - Len(s) \in 1 .. Len(t) /\ c[i] = t[i - Len(s)]
      BY <1>1, <2>2
    <3>2. QED
      BY <1>2, <3>1
  <2>3. QED
    BY <2>1, <2>2
<1>4. ASSUME NEW i \in 1 .. Len(s) PROVE s[i] \in Range(c)
  <2>1. i \in 1 .. Len(c) /\ c[i] = s[i]
    BY <1>1
  <2>2. QED
    BY <1>2, <2>1
<1>5. ASSUME NEW i \in 1 .. Len(t) PROVE t[i] \in Range(c)
  <2>1. i + Len(s) \in 1 .. Len(c) /\ c[i + Len(s)] = t[i]
    BY <1>1
  <2>2. QED
    BY <1>2, <2>1
<1>6. Range(c) \subseteq Range(s) \cup Range(t)
  BY <1>2, <1>3
<1>7. Range(s) \subseteq Range(c) /\ Range(t) \subseteq Range(c)
  BY <1>2, <1>4, <1>5
<1>8. c \in Seq(S) /\ Range(c) = Range(s) \cup Range(t)
  BY <1>1, <1>6, <1>7
<1>9. QED
  BY <1>8 DEF c

\* Whatever the order SetToSeq chooses, they are the back pointers of the state.
LEMMA PredecessorsAre ==
  ASSUME NEW x, IsFiniteSet(node[x].arcs)
  PROVE  /\ Predecessors(x) \in Seq(BackPointers(x))
         /\ Range(Predecessors(x)) = BackPointers(x)
<1> DEFINE arcs == SetToSeq(node[x].arcs)
           prevs == [i \in DOMAIN arcs |-> arcs[i].prev]
           best == BestPredecessor(x)
<1>1. arcs \in Seq(node[x].arcs) /\ Range(arcs) = node[x].arcs
  BY SetAsSeq
<1>2. /\ DOMAIN arcs = 1 .. Len(arcs) /\ Len(arcs) \in Nat
      /\ node[x].arcs = {arcs[i] : i \in 1 .. Len(arcs)}
  <2> HIDE DEF arcs
  <2> QED BY <1>1, RangeOf
<1> HIDE DEF arcs
<1>3. prevs \in Seq(BackPointers(x)) /\ Range(prevs) = {a.prev : a \in node[x].arcs}
  <2>1. \A i \in 1 .. Len(arcs) : arcs[i].prev \in BackPointers(x)
    BY <1>2 DEF BackPointers
  <2>2. prevs \in Seq(BackPointers(x))
    BY <1>2, <2>1
  <2>3. Range(prevs) = {arcs[i].prev : i \in 1 .. Len(arcs)}
    BY <1>2 DEF Range
  <2>4. QED
    BY <1>2, <2>2, <2>3
<1>4. best \in Seq(BackPointers(x)) /\ Range(best) = {node[x].best.prev} \ {NoLS}
  <2>1. CASE IsStart(x)
    BY <2>1 DEF BestPredecessor, IsStart, Range
  <2>2. CASE ~IsStart(x)
    <3>1. best = <<node[x].best.prev>> /\ node[x].best.prev \in BackPointers(x)
      BY <2>2 DEF BestPredecessor, IsStart, BackPointers
    <3>2. QED
      BY <3>1, <2>2 DEF IsStart, Range
  <2>3. QED
    BY <2>1, <2>2
<1> HIDE DEF prevs, best
<1>5. QED
  <2>1. Predecessors(x) = best \o prevs
    BY DEF Predecessors, best, prevs, arcs
  <2>2. QED
    BY <1>3, <1>4, <2>1, RangeConcat DEF BackPointers

-----------------------------------------------------------------------------
(* The invariant *)

\* A lattice without dangling pointers, and tokens that point into it.
WellFormed ==
  /\ Used \subseteq LS /\ marked \in [LS -> Nat]
  /\ roots \in Seq(Used)
  /\ \A x \in Used : IsFiniteSet(node[x].arcs) /\ BackPointers(x) \subseteq Used

Rooted == Reachable(Range(roots))

Back == [x \in Used |-> BackPointers(x)]

\* What is marked or on its way is reachable, and every predecessor is answered for.
Marking ==
  /\ stack \in Seq(Calls(Rooted)) /\ todo \in Seq(Rooted)
  /\ Marked \subseteq Rooted
  /\ Answered(Marked, {}, stack, todo, Back, Range(roots))

IInv ==
  /\ loc \in {"clear", "mark"} => WellFormed
  /\ loc # "mark" => stack = <<>>
  /\ loc = "clear" => todo = roots
  /\ loc = "mark" => Marking

\* In a well-formed lattice the back pointers of what is reachable are reachable.
LEMMA RootedClosed ==
  ASSUME WellFormed
  PROVE  /\ Rooted \subseteq Used /\ Range(roots) \subseteq Rooted
         /\ \A x \in Rooted : Back[x] = BackPointers(x) /\ BackPointers(x) \subseteq Rooted
<1>1. Range(roots) \in SUBSET Used
  BY RangeOf DEF WellFormed
<1>2. QED
  BY <1>1, ReachableClosed DEF WellFormed, Rooted, Back

\* The lattice does not change while it is marked.
LEMMA LatticeUnchanged ==
  ASSUME UNCHANGED <<latticeVars, roots>>
  PROVE  /\ Used' = Used /\ Rooted' = Rooted /\ Back' = Back
         /\ WellFormed /\ marked' \in [LS -> Nat] => WellFormed'
<1>1. node' = node /\ usedList' = usedList /\ roots' = roots
  BY DEF latticeVars
<1>2. Used' = Used
  BY <1>1 DEF Used
<1>3. \A x : BackPointers(x)' = BackPointers(x)
  BY <1>1 DEF BackPointers
<1>4. Rooted' = Rooted
  BY <1>1, <1>2, <1>3 DEF Rooted, Reachable
<1>5. Back' = Back
  BY <1>2, <1>3 DEF Back
<1>6. WellFormed /\ marked' \in [LS -> Nat] => WellFormed'
  BY <1>1, <1>2, <1>3 DEF WellFormed
<1>7. QED
  BY <1>2, <1>4, <1>5, <1>6

LEMMA InitInvariant == Init => IInv
<1> SUFFICES ASSUME Init PROVE IInv
  OBVIOUS
<1>1. PICK g \in Lattices : node = g.node /\ usedList = g.usedList
  BY DEF Init
<1>2. Used = Range(g.usedList)
  BY <1>1 DEF Used, Range
<1>3. WellFormed
  <2>1. Used \subseteq LS /\ roots \in Seq(Used)
    BY <1>2, GcMarkAssumption, RangeOf DEF Init
  <2>2. marked \in [LS -> Nat]
    BY DEF Init
  <2>3. ASSUME NEW x \in Used PROVE IsFiniteSet(node[x].arcs) /\ BackPointers(x) \subseteq Used
    BY <1>1, <1>2, GcMarkAssumption DEF BackPointers
  <2>4. QED
    BY <2>1, <2>2, <2>3 DEF WellFormed
<1>4. QED
  BY <1>3 DEF Init, IInv

\* A visit when everything but the visited state is answered for.
LEMMA VisitKeepsMarking ==
  ASSUME WellFormed, NEW x \in Rooted, NEW calls \in Seq(Calls(Rooted)), Visit(x, calls),
         Marked \subseteq Rooted, UNCHANGED <<latticeVars, roots>>, todo' \in Seq(Rooted),
         Answered(Marked, {x}, calls, todo', Back, Range(roots))
  PROVE  WellFormed' /\ Marking'
<1>1. x \in Used /\ x \in LS /\ marked[x] \in Nat
  BY RootedClosed DEF WellFormed
<1>2. Used' = Used /\ Rooted' = Rooted /\ Back' = Back
  BY LatticeUnchanged
<1>3. CASE marked[x] > 0
  <2>1. marked' = [marked EXCEPT ![x] = @ + 1] /\ stack' = calls
    BY <1>3 DEF Visit
  <2>2. marked' \in [LS -> Nat]
    BY <1>1, <2>1 DEF WellFormed
  <2>3. Marked' = Marked
    BY <1>1, <1>2, <1>3, <2>1 DEF Marked, WellFormed
  <2>4. x \in Marked
    BY <1>1, <1>3 DEF Marked
  <2>5. Answered(Marked, {}, calls, todo', Back, Range(roots))
    BY <2>4, VisitedMarked
  <2>6. QED
    BY <1>2, <2>1, <2>2, <2>3, <2>5, LatticeUnchanged DEF Marking
<1>4. CASE ~(marked[x] > 0)
  <2> DEFINE call == [state |-> x, left |-> Predecessors(x)]
  <2>1. stack' = <<call>> \o calls /\ marked' = marked
    BY <1>4 DEF Visit
  <2>2. Marked' = Marked
    BY <1>2, <2>1 DEF Marked
  <2>3. Predecessors(x) \in Seq(BackPointers(x)) /\ Range(Predecessors(x)) = BackPointers(x)
    BY <1>1, PredecessorsAre DEF WellFormed
  <2>4. BackPointers(x) \subseteq Rooted /\ Back[x] = BackPointers(x)
    BY RootedClosed
  <2>5. Predecessors(x) \in Seq(Rooted)
    BY <2>3, <2>4, SeqMonotonic
  <2>6. call \in Calls(Rooted) /\ call.state = x /\ call.left = Predecessors(x)
    BY <2>5 DEF Calls
  <2> HIDE DEF call
  <2>7. /\ <<call>> \o calls \in Seq(Calls(Rooted))
        /\ Answered(Marked, {}, <<call>> \o calls, todo', Back, Range(roots))
    BY <2>3, <2>4, <2>6, VisitedUnmarked
  <2>8. QED
    BY <1>2, <2>1, <2>2, <2>7, LatticeUnchanged DEF Marking, WellFormed
<1>5. QED
  BY <1>3, <1>4

LEMMA NextInvariant == IInv /\ [Next]_vars => IInv'
<1> SUFFICES ASSUME IInv, [Next]_vars PROVE IInv'
  OBVIOUS
<1>1. CASE ClearMarks
  <2>1. /\ loc = "clear" /\ loc' = "mark" /\ stack = <<>> /\ stack' = <<>> /\ todo' = roots
        /\ WellFormed /\ UNCHANGED <<latticeVars, roots>>
    BY <1>1 DEF ClearMarks, IInv
  <2>2. marked' = [x \in LS |-> IF x \in Used THEN 0 ELSE marked[x]]
    BY <1>1 DEF ClearMarks
  <2>3. marked' \in [LS -> Nat]
    BY <2>1, <2>2 DEF WellFormed
  <2>4. Used' = Used /\ Rooted' = Rooted /\ Back' = Back /\ WellFormed'
    BY <2>1, <2>3, LatticeUnchanged
  <2>5. Marked' = {}
    BY <2>1, <2>2, <2>4 DEF Marked, WellFormed
  <2>6. todo' \in Seq(Rooted)
    <3>1. Range(roots) \subseteq Rooted /\ roots \in Seq(Used)
      BY <2>1, RootedClosed DEF WellFormed
    <3>2. \A i \in 1 .. Len(roots) : roots[i] \in Rooted
      BY <3>1, RangeOf
    <3>3. QED
      BY <2>1, <3>1, <3>2
  <2>7. Answered({}, {}, <<>>, roots, Back, Range(roots))
    BY DEF Answered, AnswersRoots
  <2>8. Marking'
    BY <2>1, <2>4, <2>5, <2>6, <2>7 DEF Marking
  <2>9. QED
    BY <2>1, <2>4, <2>8 DEF IInv
<1>2. CASE MarkToken
  <2>1. /\ loc = "mark" /\ loc' = "mark" /\ stack = <<>> /\ todo # <<>>
        /\ Visit(Head(todo), <<>>) /\ todo' = Tail(todo)
        /\ WellFormed /\ Marking /\ UNCHANGED <<latticeVars, roots>>
    BY <1>2 DEF MarkToken, IInv
  <2>2. Head(todo) \in Rooted /\ todo' \in Seq(Rooted)
    BY <2>1, Popped DEF Marking
  <2>3. Answered(Marked, {Head(todo)}, <<>>, todo', Back, Range(roots))
    BY <2>1, TakenToken DEF Marking
  <2>4. <<>> \in Seq(Calls(Rooted)) /\ Marked \subseteq Rooted
    BY <2>1, EmptySeq DEF Marking
  <2>5. WellFormed' /\ Marking'
    BY <2>1, <2>2, <2>3, <2>4, VisitKeepsMarking
  <2>6. QED
    BY <2>1, <2>5 DEF IInv
<1>3. CASE MarkPredecessor
  <2> DEFINE call == Head(stack)
             calls == <<[call EXCEPT !.left = Tail(@)]>> \o Tail(stack)
  <2>1. /\ stack # <<>> /\ call.left # <<>> /\ Visit(Head(call.left), calls)
        /\ UNCHANGED <<latticeVars, roots>> /\ todo' = todo /\ loc' = loc
    BY <1>3 DEF MarkPredecessor
  <2>2. loc = "mark" /\ WellFormed /\ Marking
    BY <2>1 DEF IInv
  <2>3. /\ Head(call.left) \in Rooted /\ calls \in Seq(Calls(Rooted))
        /\ Answered(Marked, {Head(call.left)}, calls, todo, Back, Range(roots))
    BY <2>1, <2>2, TakenPredecessor DEF Marking
  <2>4. Marked \subseteq Rooted /\ todo \in Seq(Rooted)
    BY <2>2 DEF Marking
  <2> HIDE DEF call, calls
  <2>5. WellFormed' /\ Marking'
    BY <2>1, <2>2, <2>3, <2>4, VisitKeepsMarking
  <2>6. QED
    BY <2>1, <2>2, <2>5 DEF IInv
<1>4. CASE MarkState
  <2> DEFINE x == Head(stack).state
  <2>1. /\ stack # <<>> /\ Head(stack).left = <<>> /\ marked' = [marked EXCEPT ![x] = 1]
        /\ stack' = Tail(stack) /\ todo' = todo /\ loc' = loc /\ UNCHANGED <<latticeVars, roots>>
    BY <1>4 DEF MarkState
  <2>2. loc = "mark" /\ WellFormed /\ Marking
    BY <2>1 DEF IInv
  <2>3. /\ stack' \in Seq(Calls(Rooted)) /\ x \in Rooted
        /\ Answered(Marked \cup {x}, {}, stack', todo', Back, Range(roots))
    BY <2>1, <2>2, Returned DEF Marking
  <2> HIDE DEF x
  <2>4. x \in Used /\ x \in LS
    BY <2>2, <2>3, RootedClosed DEF WellFormed
  <2>5. marked' \in [LS -> Nat]
    BY <2>1, <2>2, <2>4 DEF WellFormed
  <2>6. Used' = Used /\ Rooted' = Rooted /\ Back' = Back /\ WellFormed'
    BY <2>1, <2>2, <2>5, LatticeUnchanged
  <2>7. Marked' = Marked \cup {x}
    BY <2>1, <2>2, <2>4, <2>6 DEF Marked, WellFormed
  <2>8. Marking'
    BY <2>1, <2>2, <2>3, <2>6, <2>7 DEF Marking
  <2>9. QED
    BY <2>1, <2>2, <2>6, <2>8 DEF IInv
<1>5. CASE GcSweep
  BY <1>5 DEF GcSweep, IInv
<1>6. CASE EarlyMission
  BY <1>6 DEF EarlyMission, IInv
<1>7. CASE UNCHANGED vars
  <2>1. UNCHANGED <<latticeVars, roots>> /\ UNCHANGED <<todo, marked, stack, loc>>
    BY <1>7 DEF vars, gcVars
  <2>2. Used' = Used /\ Rooted' = Rooted /\ Back' = Back /\ (WellFormed => WellFormed')
    BY <2>1, LatticeUnchanged DEF WellFormed
  <2>3. Marked' = Marked
    BY <2>1, <2>2 DEF Marked
  <2>4. Marking => Marking'
    BY <2>1, <2>2, <2>3 DEF Marking
  <2>5. QED
    BY <2>1, <2>2, <2>4 DEF IInv
<1>8. QED
  BY <1>1, <1>2, <1>3, <1>4, <1>5, <1>6, <1>7 DEF Next

\* When all calls have returned and no token is left, the marked states are closed
\* and hold the roots; they are reachable, and nothing reachable is missing.
LEMMA InvariantMarks == IInv => MarksReachable
<1> SUFFICES ASSUME IInv, loc = "mark", stack = <<>>, todo = <<>>
             PROVE  Marked = Rooted
  BY DEF MarksReachable, Rooted
<1>1. WellFormed /\ Marking
  BY DEF IInv
<1>2. Marked \subseteq Used /\ Marked \subseteq Rooted
  BY <1>1 DEF Marking, Marked
<1>3. \A x \in Marked : BackPointers(x) \subseteq Marked
  BY <1>1, <1>2 DEF Marking, Answered, Back
<1>4. Range(roots) \subseteq Marked
  <2>1. Range(todo) = {}
    BY DEF Range
  <2>2. QED
    BY <1>1, <2>1 DEF Marking, Answered, AnswersRoots
<1>5. Rooted \subseteq Marked
  BY <1>2, <1>3, <1>4, ReachableLeast DEF Rooted
<1>6. QED
  BY <1>2, <1>5

\* State::GcMark, called on every token, marks exactly the states that Lattice
\* says are reachable: on every lattice without dangling pointers, in whatever
\* order the tokens and the arcs come.
THEOREM SpecMarksReachable == Spec => []MarksReachable
<1>1. Spec => []IInv
  BY InitInvariant, NextInvariant, PTL DEF Spec
<1>2. QED
  BY <1>1, InvariantMarks, PTL

-----------------------------------------------------------------------------
(* The visit counts.                                                              *)
(*                                                                                *)
(* P gives each state the predecessors its call visits, and NoLS the tokens; t is *)
(* how many of them have been visited, m is marked_.  What is on the stack has     *)
(* been visited once and is not marked yet.                                       *)

\* The n first elements of s are gone, and left are the others.
Follows(s, n, left) ==
  Len(s) = n + Len(left) /\ \A j \in 1 .. Len(left) : left[j] = s[n + j]

On(st) == {st[i].state : i \in 1 .. Len(st)}

Bit(x, A) == IF x \in A THEN 1 ELSE 0

\* The references to x that have been visited.
RefsTo(P, t, x) == {p \in (DOMAIN P) \X Nat : p[2] \in 1 .. t[p[1]] /\ P[p[1]][p[2]] = x}

\* A state has been visited as often as it is marked, and once more while its call
\* has not returned.
CountsOf(R, P, t, m, called, st) ==
  \A x \in R : /\ IsFiniteSet(RefsTo(P, t, x))
               /\ m[x] + Bit(x, On(st)) + Bit(x, called) = Cardinality(RefsTo(P, t, x))

\* A call is made on a predecessor of the state of the call below it.
Chained(P, called, st) ==
  /\ \A i \in 2 .. Len(st) : st[i - 1].state \in Range(P[st[i].state])
  /\ \A x \in called : st # <<>> => x \in Range(P[st[1].state])

Loopless(R, P) == \A T \in SUBSET R : T # {} => \E x \in T : Range(P[x]) \cap T = {}

Counted(R, P, t, m, called, st, left) ==
  /\ t \in [R \cup {NoLS} -> Nat]
  /\ Follows(P[NoLS], t[NoLS], left)
  /\ \A i \in 1 .. Len(st) : m[st[i].state] = 0 /\ Follows(P[st[i].state], t[st[i].state], st[i].left)
  /\ \A y \in R \ On(st) : t[y] = IF m[y] > 0 THEN Len(P[y]) ELSE 0
  /\ Chained(P, called, st)
  /\ CountsOf(R, P, t, m, called, st)

\* A chain of predecessors that met a state again would be a cycle.
LEMMA NoneTwice ==
  ASSUME NEW R, NEW P, Loopless(R, P), NEW st \in Seq(Calls(R)), Chained(P, {}, st),
         NEW i \in 1 .. Len(st), NEW j \in 1 .. Len(st), i < j
  PROVE  st[i].state # st[j].state
<1> SUFFICES ASSUME st[i].state = st[j].state PROVE FALSE
  OBVIOUS
<1> DEFINE T == {st[k].state : k \in i .. j}
<1>1. Len(st) \in Nat /\ \A k \in 1 .. Len(st) : st[k].state \in R
  <2>1. Len(st) \in Nat /\ \A k \in 1 .. Len(st) : st[k] \in Calls(R)
    OBVIOUS
  <2>2. QED
    BY <2>1 DEF Calls
<1>2. i .. j \subseteq 1 .. Len(st) /\ i \in i .. j /\ j \in 2 .. Len(st)
  BY <1>1
<1>3. T \in SUBSET R /\ T # {}
  BY <1>1, <1>2
<1>4. ASSUME NEW k \in i .. j PROVE Range(P[st[k].state]) \cap T # {}
  <2>1. CASE k > i
    <3>1. k \in 2 .. Len(st) /\ k - 1 \in i .. j
      BY <1>1, <1>2, <2>1
    <3>2. QED
      BY <3>1 DEF Chained
  <2>2. CASE k = i
    <3>1. j - 1 \in i .. j
      BY <1>1
    <3>2. st[j - 1].state \in Range(P[st[j].state])
      BY <1>2 DEF Chained
    <3>3. QED
      BY <2>2, <3>1, <3>2
  <2>3. QED
    BY <1>1, <2>1, <2>2
<1> HIDE DEF T
<1>5. PICK x \in T : Range(P[x]) \cap T = {}
  BY <1>3 DEF Loopless
<1>6. QED
  BY <1>4, <1>5 DEF T

Advanced(s, n, left) ==
  n + 1 \in 1 .. Len(s) /\ Head(left) = s[n + 1] /\ Follows(s, n + 1, Tail(left))

LEMMA FollowsTail ==
  ASSUME NEW S, NEW s \in Seq(S), NEW n \in Nat, NEW left \in Seq(S), left # <<>>,
         Follows(s, n, left)
  PROVE  Advanced(s, n, left)
<1>1. /\ Len(left) \in Nat \ {0} /\ Head(left) = left[1] /\ Tail(left) \in Seq(S)
      /\ Len(Tail(left)) = Len(left) - 1 /\ \A i \in 1 .. Len(left) - 1 : Tail(left)[i] = left[i + 1]
  BY Popped
<1>2. Len(s) = n + Len(left) /\ \A j \in 1 .. Len(left) : left[j] = s[n + j]
  BY DEF Follows
<1>3. n + 1 \in 1 .. Len(s) /\ Head(left) = s[n + 1]
  BY <1>1, <1>2
<1>4. ASSUME NEW j \in 1 .. Len(left) - 1 PROVE Tail(left)[j] = s[(n + 1) + j]
  <2>1. j + 1 \in 1 .. Len(left) /\ n + (j + 1) = (n + 1) + j
    BY <1>1
  <2>2. QED
    BY <1>1, <1>2, <2>1
<1>5. Len(s) = (n + 1) + Len(Tail(left))
  BY <1>1, <1>2
<1>6. QED
  BY <1>1, <1>3, <1>4, <1>5 DEF Follows, Advanced

\* u has one more visit than t, from y.
Visits(D, t, u, y) ==
  /\ t \in [D -> Nat] /\ u \in [D -> Nat] /\ y \in D
  /\ u[y] = t[y] + 1 /\ \A z \in D \ {y} : u[z] = t[z]

OneMore(P, t, u, y, x) ==
  /\ IsFiniteSet(RefsTo(P, u, x))
  /\ Cardinality(RefsTo(P, u, x)) = Cardinality(RefsTo(P, t, x)) + Bit(x, {P[y][t[y] + 1]})

\* One more visit is one more reference, to the state that is visited.
LEMMA OneMoreVisit ==
  ASSUME NEW P, NEW t, NEW u, NEW y, Visits(DOMAIN P, t, u, y), NEW x,
         IsFiniteSet(RefsTo(P, t, x))
  PROVE  OneMore(P, t, u, y, x)
<1> DEFINE D == DOMAIN P
           e == <<y, t[y] + 1>>
<1>1. t[y] \in Nat /\ u[y] = t[y] + 1 /\ y \in D /\ \A z \in D \ {y} : u[z] = t[z]
  BY DEF Visits
<1>2. 1 .. u[y] = (1 .. t[y]) \cup {t[y] + 1} /\ t[y] + 1 \notin 1 .. t[y]
  BY <1>1
<1>3. e \in D \X Nat /\ e[1] = y /\ e[2] = t[y] + 1 /\ e \notin RefsTo(P, t, x)
  BY <1>1, <1>2 DEF RefsTo
<1>4. RefsTo(P, u, x) = RefsTo(P, t, x) \cup {q \in {e} : P[y][t[y] + 1] = x}
  <2>1. ASSUME NEW q \in D \X Nat
        PROVE  q \in RefsTo(P, u, x) <=> q \in RefsTo(P, t, x) \/ (q = e /\ P[y][t[y] + 1] = x)
    <3>1. q = <<q[1], q[2]>> /\ q[1] \in D /\ q[2] \in Nat
      OBVIOUS
    <3>2. CASE q[1] = y
      BY <1>2, <1>3, <3>1, <3>2 DEF RefsTo
    <3>3. CASE q[1] # y
      <4>1. u[q[1]] = t[q[1]] /\ q # e
        BY <1>1, <3>1, <3>3
      <4>2. QED
        BY <4>1 DEF RefsTo
    <3>4. QED
      BY <3>2, <3>3
  <2>2. RefsTo(P, u, x) \subseteq D \X Nat /\ RefsTo(P, t, x) \subseteq D \X Nat
    BY DEF RefsTo
  <2>3. QED
    BY <1>3, <2>1, <2>2
<1>5. Cardinality(RefsTo(P, t, x)) \in Nat
  BY FS_CardinalityType
<1> HIDE DEF e
<1>6. /\ IsFiniteSet(RefsTo(P, u, x))
      /\ Cardinality(RefsTo(P, u, x)) = Cardinality(RefsTo(P, t, x)) + Bit(x, {P[y][t[y] + 1]})
  <2>1. CASE P[y][t[y] + 1] = x
    <3>1. RefsTo(P, u, x) = RefsTo(P, t, x) \cup {e}
      BY <1>4, <2>1
    <3>2. /\ IsFiniteSet(RefsTo(P, u, x))
          /\ Cardinality(RefsTo(P, u, x)) = Cardinality(RefsTo(P, t, x)) + 1
      <4>1. e \notin RefsTo(P, t, x)
        BY <1>3
      <4>2. QED
        BY <4>1, <3>1, FS_AddElement
    <3>3. Bit(x, {P[y][t[y] + 1]}) = 1
      BY <2>1 DEF Bit
    <3>4. QED
      BY <3>2, <3>3
  <2>2. CASE P[y][t[y] + 1] # x
    <3>1. RefsTo(P, u, x) = RefsTo(P, t, x)
      BY <1>4, <2>2
    <3>2. Bit(x, {P[y][t[y] + 1]}) = 0
      BY <2>2 DEF Bit
    <3>3. QED
      BY <1>5, <3>1, <3>2
  <2>3. QED
    BY <2>1, <2>2
<1>7. QED
  BY <1>6 DEF OneMore

LEMMA BitType ==
  /\ \A x, A : Bit(x, A) \in Nat
  /\ \A x : Bit(x, {}) = 0
  BY DEF Bit

\* What a visit to x adds to the references it also adds to what is called.
LEMMA TakenCounts ==
  ASSUME NEW R, NEW P \in [R \cup {NoLS} -> Seq(R)], NEW t, NEW m, NEW st,
         CountsOf(R, P, t, m, {}, st), \A z \in R : m[z] \in Nat,
         NEW u, NEW y, Visits(R \cup {NoLS}, t, u, y), NEW x, x = P[y][t[y] + 1]
  PROVE  CountsOf(R, P, u, m, {x}, st)
<1> SUFFICES ASSUME NEW z \in R
             PROVE  /\ IsFiniteSet(RefsTo(P, u, z))
                    /\ m[z] + Bit(z, On(st)) + Bit(z, {x}) = Cardinality(RefsTo(P, u, z))
  BY DEF CountsOf
<1>1. /\ IsFiniteSet(RefsTo(P, t, z))
      /\ m[z] + Bit(z, On(st)) + Bit(z, {}) = Cardinality(RefsTo(P, t, z))
  BY DEF CountsOf
<1>2. /\ IsFiniteSet(RefsTo(P, u, z))
      /\ Cardinality(RefsTo(P, u, z)) = Cardinality(RefsTo(P, t, z)) + Bit(z, {x})
  <2>1. Visits(DOMAIN P, t, u, y)
    OBVIOUS
  <2>2. OneMore(P, t, u, y, z)
    BY <1>1, <2>1, OneMoreVisit
  <2>3. QED
    BY <2>2 DEF OneMore
<1>3. m[z] \in Nat /\ Bit(z, {}) = 0 /\ Bit(z, On(st)) \in Nat /\ Bit(z, {x}) \in Nat
  <2>1. m[z] \in Nat
    OBVIOUS
  <2>2. Bit(z, {}) = 0 /\ Bit(z, On(st)) \in Nat /\ Bit(z, {x}) \in Nat
    BY BitType, Zenon
  <2>3. QED
    BY <2>1, <2>2
<1>4. m[z] + Bit(z, On(st)) + Bit(z, {x}) = Cardinality(RefsTo(P, u, z))
  BY <1>1, <1>2, <1>3
<1>5. QED
  BY <1>2, <1>4

\* The next token is called.
LEMMA TokenCounted ==
  ASSUME NEW R, NoLS \notin R, NEW P \in [R \cup {NoLS} -> Seq(R)], NEW t, NEW m,
         NEW left \in Seq(R), left # <<>>,
         Counted(R, P, t, m, {}, <<>>, left), \A z \in R : m[z] \in Nat
  PROVE  Counted(R, P, [t EXCEPT ![NoLS] = @ + 1], m, {Head(left)}, <<>>, Tail(left))
<1> DEFINE u == [t EXCEPT ![NoLS] = @ + 1]
           x == Head(left)
<1>1. t \in [R \cup {NoLS} -> Nat] /\ Follows(P[NoLS], t[NoLS], left)
  BY DEF Counted
<1>2. /\ u \in [R \cup {NoLS} -> Nat] /\ u[NoLS] = t[NoLS] + 1 /\ \A y \in R : u[y] = t[y]
      /\ P[NoLS] \in Seq(R) /\ t[NoLS] \in Nat
  BY <1>1
<1>3. x = P[NoLS][t[NoLS] + 1] /\ Follows(P[NoLS], u[NoLS], Tail(left))
  BY <1>1, <1>2, FollowsTail DEF Advanced
<1>4. CountsOf(R, P, u, m, {x}, <<>>)
  <2>1. x = P[NoLS][t[NoLS] + 1] /\ CountsOf(R, P, t, m, {}, <<>>)
    BY <1>3 DEF Counted
  <2>2. Visits(R \cup {NoLS}, t, u, NoLS)
    BY <1>1, <1>2 DEF Visits
  <2> HIDE DEF u, x
  <2>3. QED
    BY <2>1, <2>2, TakenCounts
<1> HIDE DEF u, x
<1>5. Len(<<>>) = 0 /\ Chained(P, {x}, <<>>)
  BY DEF Chained
<1>6. \A y \in R \ On(<<>>) : u[y] = IF m[y] > 0 THEN Len(P[y]) ELSE 0
  BY <1>2 DEF Counted
<1>7. \A i \in 1 .. Len(<<>>) : FALSE
  BY <1>5
<1>8. Counted(R, P, u, m, {x}, <<>>, Tail(left))
  BY <1>2, <1>3, <1>4, <1>5, <1>6, <1>7, Zenon DEF Counted
<1>9. QED
  BY <1>8 DEF u, x

\* The next predecessor of the call on top is called.
LEMMA PredecessorCounted ==
  ASSUME NEW R, NoLS \notin R, NEW P \in [R \cup {NoLS} -> Seq(R)], Loopless(R, P), NEW t, NEW m,
         NEW st \in Seq(Calls(R)), st # <<>>, Head(st).left # <<>>, NEW left,
         Counted(R, P, t, m, {}, st, left), \A z \in R : m[z] \in Nat
  PROVE  LET call == Head(st)
         IN  Counted(R, P, [t EXCEPT ![call.state] = @ + 1], m, {Head(call.left)},
                     <<[call EXCEPT !.left = Tail(@)]>> \o Tail(st), left)
<1> DEFINE call == Head(st)
           y == call.state
           x == Head(call.left)
           u == [t EXCEPT ![y] = @ + 1]
           rest == [call EXCEPT !.left = Tail(@)]
           next == <<rest>> \o Tail(st)
<1>1. /\ Len(st) \in Nat \ {0} /\ call = st[1] /\ call \in Calls(R)
      /\ Tail(st) \in Seq(Calls(R)) /\ Len(Tail(st)) = Len(st) - 1
      /\ \A i \in 1 .. Len(st) - 1 : Tail(st)[i] = st[i + 1]
  BY Popped
<1>2. call.left \in Seq(R) /\ call.left # <<>> /\ y \in R
  BY <1>1 DEF Calls
<1>3. x \in R /\ Tail(call.left) \in Seq(R)
  BY <1>2, Popped
<1>4. rest \in Calls(R) /\ rest.state = y /\ rest.left = Tail(call.left)
  BY <1>1, <1>2, <1>3 DEF Calls
<1>5. /\ Len(next) = Len(st) /\ next[1] = rest
      /\ \A i \in 2 .. Len(st) : next[i] = st[i]
  <2>1. /\ Len(next) = Len(Tail(st)) + 1 /\ next[1] = rest
        /\ \A i \in 2 .. Len(Tail(st)) + 1 : next[i] = Tail(st)[i - 1]
    BY <1>1, <1>4, Pushed
  <2> HIDE DEF next, rest, call
  <2>2. QED
    BY <1>1, <2>1
<1>6. \A i \in 1 .. Len(st) : next[i].state = st[i].state
  <2> HIDE DEF next, rest, y
  <2>1. next[1].state = st[1].state
    BY <1>1, <1>4, <1>5 DEF y
  <2> HIDE DEF call
  <2> QED BY <1>1, <1>5, <2>1
<1>7. t \in [R \cup {NoLS} -> Nat] /\ Follows(P[y], t[y], call.left) /\ m[y] = 0
  BY <1>1 DEF Counted
<1>8. /\ u \in [R \cup {NoLS} -> Nat] /\ u[y] = t[y] + 1 /\ \A z \in (R \cup {NoLS}) \ {y} : u[z] = t[z]
      /\ P[y] \in Seq(R) /\ t[y] \in Nat
  BY <1>2, <1>7
<1>9. /\ x = P[y][t[y] + 1] /\ Follows(P[y], u[y], Tail(call.left))
      /\ x \in Range(P[y])
  <2> HIDE DEF u, call, y
  <2>1. t[y] + 1 \in 1 .. Len(P[y]) /\ x = P[y][t[y] + 1] /\ Follows(P[y], t[y] + 1, Tail(call.left))
    <3>1. /\ call.left \in Seq(R) /\ call.left # <<>> /\ Follows(P[y], t[y], call.left)
          /\ P[y] \in Seq(R) /\ t[y] \in Nat
      BY <1>2, <1>7, <1>8
    <3>2. Advanced(P[y], t[y], call.left)
      BY <3>1, FollowsTail
    <3>3. QED
      BY <3>2 DEF Advanced
  <2> HIDE DEF x
  <2>2. Range(P[y]) = {P[y][i] : i \in 1 .. Len(P[y])}
    BY <1>8, RangeOf
  <2>3. QED
    BY <1>8, <2>1, <2>2
<1>10. CountsOf(R, P, u, m, {x}, st)
  <2> HIDE DEF call, y, x, u
  <2>1. x = P[y][t[y] + 1] /\ CountsOf(R, P, t, m, {}, st)
    BY <1>9 DEF Counted
  <2>2. Visits(R \cup {NoLS}, t, u, y)
    BY <1>2, <1>7, <1>8 DEF Visits
  <2>3. QED
    BY <2>1, <2>2, TakenCounts
<1> HIDE DEF next, rest, call, y, x, u
<1>11. On(next) = On(st) /\ y \in On(st)
  <2>1. 1 \in 1 .. Len(st) /\ st[1].state = y
    BY <1>1 DEF y
  <2>2. QED
    BY <1>5, <1>6, <2>1 DEF On
<1>12. ASSUME NEW i \in 1 .. Len(next)
       PROVE  m[next[i].state] = 0 /\ Follows(P[next[i].state], u[next[i].state], next[i].left)
  <2>1. CASE i = 1
    BY <1>4, <1>5, <1>7, <1>9, <2>1
  <2>2. CASE i # 1
    <3>1. i \in 1 .. Len(st) /\ i \in 2 .. Len(st) /\ next[i] = st[i]
      BY <1>1, <1>5, <2>2
    <3>2. m[st[i].state] = 0 /\ Follows(P[st[i].state], t[st[i].state], st[i].left)
      BY <3>1 DEF Counted
    <3>3. st[1].state # st[i].state
      BY <1>1, <3>1, NoneTwice DEF Counted
    <3>4. st[i].state \in R /\ st[1].state = y
      <4>1. st[i] \in Calls(R)
        BY <3>1
      <4>2. QED
        BY <1>1, <4>1 DEF Calls, y
    <3>5. u[st[i].state] = t[st[i].state]
      BY <1>8, <3>3, <3>4
    <3>6. QED
      BY <3>1, <3>2, <3>5
  <2>3. QED
    BY <2>1, <2>2
<1>13. \A z \in R \ On(next) : u[z] = IF m[z] > 0 THEN Len(P[z]) ELSE 0
  BY <1>8, <1>11 DEF Counted
<1>14. Chained(P, {x}, next)
  <2>1. \A i \in 2 .. Len(next) : next[i - 1].state \in Range(P[next[i].state])
    <3>1. \A i \in 2 .. Len(st) : i - 1 \in 1 .. Len(st) /\ i \in 1 .. Len(st)
      BY <1>1
    <3>2. QED
      BY <1>5, <1>6, <3>1 DEF Counted, Chained
  <2>2. QED
    BY <1>4, <1>5, <1>9, <2>1 DEF Chained
<1>15. Follows(P[NoLS], u[NoLS], left)
  <2>1. NoLS \in (R \cup {NoLS}) \ {y}
    BY <1>2
  <2>2. QED
    BY <1>8, <2>1 DEF Counted
<1>16. Counted(R, P, u, m, {x}, next, left)
  BY <1>8, <1>10, <1>11, <1>12, <1>13, <1>14, <1>15 DEF Counted, CountsOf
<1>17. QED
  BY <1>16 DEF next, rest, call, y, x, u

\* A visit to a state that is marked is counted there.
LEMMA MarkedCounted ==
  ASSUME NEW R, NEW P, NEW t, NEW m, NEW n, NEW st, NEW left, NEW x \in R,
         Counted(R, P, t, m, {x}, st, left), \A z \in R : m[z] \in Nat, On(st) \subseteq R,
         m[x] > 0, n[x] = m[x] + 1, \A z \in R \ {x} : n[z] = m[z]
  PROVE  Counted(R, P, t, n, {}, st, left)
<1>1. ASSUME NEW i \in 1 .. Len(st) PROVE n[st[i].state] = 0
  <2>1. m[st[i].state] = 0 /\ st[i].state \in R
    BY DEF Counted, On
  <2>2. QED
    BY <2>1
<1>2. \A y \in R \ On(st) : t[y] = IF n[y] > 0 THEN Len(P[y]) ELSE 0
  BY DEF Counted
<1>3. Chained(P, {}, st)
  BY DEF Counted, Chained
<1>4. ASSUME NEW z \in R
      PROVE  n[z] + Bit(z, On(st)) + Bit(z, {}) = Cardinality(RefsTo(P, t, z))
  <2>1. m[z] + Bit(z, On(st)) + Bit(z, {x}) = Cardinality(RefsTo(P, t, z))
    BY DEF Counted, CountsOf
  <2>2. n[z] = m[z] + Bit(z, {x})
    BY DEF Bit
  <2>3. m[z] \in Nat /\ Bit(z, {}) = 0 /\ Bit(z, On(st)) \in Nat /\ Bit(z, {x}) \in Nat
    BY BitType
  <2>4. QED
    BY <2>1, <2>2, <2>3
<1>5. QED
  BY <1>1, <1>2, <1>3, <1>4 DEF Counted, CountsOf

\* One to a state that is not marked puts it on the stack, where it was not.
LEMMA UnmarkedCounted ==
  ASSUME NEW R, NEW P \in [R \cup {NoLS} -> Seq(R)], Loopless(R, P), NEW t, NEW m,
         NEW call \in Calls(R), NEW st \in Seq(Calls(R)), NEW left,
         Counted(R, P, t, m, {call.state}, st, left), \A z \in R : m[z] \in Nat,
         m[call.state] = 0, call.left = P[call.state]
  PROVE  Counted(R, P, t, m, {}, <<call>> \o st, left)
<1> DEFINE n == <<call>> \o st
           x == call.state
<1>1. /\ n \in Seq(Calls(R)) /\ n # <<>> /\ Len(st) \in Nat /\ Len(n) = Len(st) + 1
      /\ n[1] = call /\ \A i \in 2 .. Len(st) + 1 : n[i] = st[i - 1]
  BY Pushed
<1>2. x \in R /\ t \in [R \cup {NoLS} -> Nat]
  BY DEF Calls, Counted
<1> HIDE DEF n
<1>3. Chained(P, {}, n)
  <2>1. ASSUME NEW i \in 2 .. Len(n) PROVE n[i - 1].state \in Range(P[n[i].state])
    <3>1. CASE i = 2
      <4>1. st # <<>> /\ n[i] = st[1] /\ n[i - 1].state = x
        BY <1>1, <3>1
      <4>2. QED
        BY <4>1 DEF Counted, Chained
    <3>2. CASE i # 2
      <4>1. /\ i - 1 \in 2 .. Len(st) /\ n[i] = st[i - 1]
            /\ i - 1 \in 2 .. Len(st) + 1 /\ n[i - 1] = st[(i - 1) - 1]
        BY <1>1, <3>2
      <4>2. QED
        BY <4>1 DEF Counted, Chained
    <3>3. QED
      BY <3>1, <3>2
  <2>2. QED
    BY <2>1 DEF Chained
<1>4. ASSUME NEW i \in 1 .. Len(st) PROVE st[i].state # x
  <2>1. 1 \in 1 .. Len(n) /\ i + 1 \in 1 .. Len(n) /\ 1 < i + 1 /\ n[i + 1] = st[i] /\ n[1].state = x
    BY <1>1
  <2>2. n[1].state # n[i + 1].state
    BY <1>1, <1>3, <2>1, NoneTwice
  <2>3. QED
    BY <2>1, <2>2
<1>5. x \notin On(st)
  BY <1>4 DEF On
<1>6. t[x] = 0
  BY <1>2, <1>5 DEF Counted
<1>7. On(n) = On(st) \cup {x}
  <2>1. ASSUME NEW y \in On(n) PROVE y \in On(st) \cup {x}
    <3>1. PICK i \in 1 .. Len(n) : y = n[i].state
      BY DEF On
    <3>2. CASE i = 1
      BY <1>1, <3>1, <3>2
    <3>3. CASE i # 1
      <4>1. i - 1 \in 1 .. Len(st) /\ n[i] = st[i - 1]
        BY <1>1, <3>3
      <4>2. QED
        BY <3>1, <4>1 DEF On
    <3>4. QED
      BY <3>2, <3>3
  <2>2. ASSUME NEW y \in On(st) PROVE y \in On(n)
    <3>1. PICK i \in 1 .. Len(st) : y = st[i].state
      BY DEF On
    <3>2. i + 1 \in 1 .. Len(n) /\ n[i + 1] = st[i]
      BY <1>1
    <3>3. QED
      BY <3>1, <3>2 DEF On
  <2>3. x \in On(n)
    <3>1. 1 \in 1 .. Len(n) /\ n[1].state = x
      BY <1>1
    <3>2. QED
      BY <3>1 DEF On
  <2>4. QED
    BY <2>1, <2>2, <2>3
<1>8. ASSUME NEW i \in 1 .. Len(n)
      PROVE  m[n[i].state] = 0 /\ Follows(P[n[i].state], t[n[i].state], n[i].left)
  <2>1. CASE i = 1
    <3>1. n[i].state = x /\ n[i].left = P[x]
      BY <1>1, <2>1
    <3>2. Follows(P[x], 0, P[x])
      <4>1. P[x] \in Seq(R)
        BY <1>2
      <4>2. Len(P[x]) \in Nat
        BY <4>1
      <4>3. QED
        BY <4>2 DEF Follows
    <3>3. QED
      BY <1>6, <3>1, <3>2
  <2>2. CASE i # 1
    <3>1. i - 1 \in 1 .. Len(st) /\ n[i] = st[i - 1]
      BY <1>1, <2>2
    <3>2. QED
      BY <3>1 DEF Counted
  <2>3. QED
    BY <2>1, <2>2
<1>9. \A y \in R \ On(n) : t[y] = IF m[y] > 0 THEN Len(P[y]) ELSE 0
  BY <1>7 DEF Counted
<1>10. CountsOf(R, P, t, m, {}, n)
  <2> SUFFICES ASSUME NEW z \in R
               PROVE  /\ IsFiniteSet(RefsTo(P, t, z))
                      /\ m[z] + Bit(z, On(n)) + Bit(z, {}) = Cardinality(RefsTo(P, t, z))
    BY DEF CountsOf
  <2>1. /\ IsFiniteSet(RefsTo(P, t, z))
        /\ m[z] + Bit(z, On(st)) + Bit(z, {x}) = Cardinality(RefsTo(P, t, z))
    BY DEF Counted, CountsOf
  <2>2. Bit(z, On(n)) = Bit(z, On(st)) + Bit(z, {x}) /\ Bit(z, {}) = 0
    BY <1>5, <1>7 DEF Bit
  <2>3. m[z] \in Nat
    OBVIOUS
  <2>4. Bit(z, On(st)) \in Nat /\ Bit(z, {x}) \in Nat
    BY BitType, Zenon
  <2>5. QED
    BY <2>1, <2>2, <2>3, <2>4
<1>11. Counted(R, P, t, m, {}, n, left)
  BY <1>3, <1>8, <1>9, <1>10 DEF Counted
<1>12. QED
  BY <1>11 DEF n

\* A call that returns has made all its visits, and marks what was on the stack.
LEMMA ReturnedCounted ==
  ASSUME NEW R, NEW P \in [R \cup {NoLS} -> Seq(R)], Loopless(R, P), NEW t, NEW m, NEW n,
         NEW st \in Seq(Calls(R)), st # <<>>, Head(st).left = <<>>, NEW left,
         Counted(R, P, t, m, {}, st, left), \A z \in R : m[z] \in Nat,
         n[Head(st).state] = 1, \A z \in R \ {Head(st).state} : n[z] = m[z]
  PROVE  Counted(R, P, t, n, {}, Tail(st), left)
<1> DEFINE x == Head(st).state
           s == Tail(st)
<1>1. /\ Len(st) \in Nat \ {0} /\ Head(st) = st[1] /\ Head(st) \in Calls(R)
      /\ s \in Seq(Calls(R)) /\ Len(s) = Len(st) - 1
      /\ \A i \in 1 .. Len(st) - 1 : s[i] = st[i + 1]
  BY Popped
<1>2. x \in R /\ x = st[1].state /\ t \in [R \cup {NoLS} -> Nat]
  BY <1>1 DEF Calls, Counted
<1>3. n[x] = 1 /\ (\A z \in R \ {x} : n[z] = m[z]) /\ st[1].left = <<>>
  BY <1>1
<1> HIDE DEF s, x
<1>4. ASSUME NEW i \in 1 .. Len(s) PROVE s[i].state # x /\ s[i].state \in R
  <2>1. 1 \in 1 .. Len(st) /\ i + 1 \in 1 .. Len(st) /\ 1 < i + 1 /\ s[i] = st[i + 1]
    BY <1>1
  <2>2. Chained(P, {}, st)
    BY DEF Counted
  <2>3. st[1].state # st[i + 1].state
    BY <2>1, <2>2, NoneTwice
  <2>4. s[i] \in Calls(R)
    BY <1>1
  <2>5. QED
    BY <1>2, <2>1, <2>3, <2>4 DEF Calls
<1>5. x \notin On(s) /\ On(st) = On(s) \cup {x}
  <2>1. x \notin On(s)
    BY <1>4 DEF On
  <2>2. ASSUME NEW y \in On(st) PROVE y \in On(s) \cup {x}
    <3>1. PICK i \in 1 .. Len(st) : y = st[i].state
      BY DEF On
    <3>2. CASE i = 1
      BY <1>2, <3>1, <3>2
    <3>3. CASE i # 1
      <4>1. i - 1 \in 1 .. Len(s) /\ s[i - 1] = st[i]
        BY <1>1, <3>3
      <4>2. QED
        BY <3>1, <4>1 DEF On
    <3>4. QED
      BY <3>2, <3>3
  <2>3. ASSUME NEW y \in On(s) PROVE y \in On(st)
    <3>1. PICK i \in 1 .. Len(s) : y = s[i].state
      BY DEF On
    <3>2. i + 1 \in 1 .. Len(st) /\ s[i] = st[i + 1]
      BY <1>1
    <3>3. QED
      BY <3>1, <3>2 DEF On
  <2>4. x \in On(st)
    <3>1. 1 \in 1 .. Len(st)
      BY <1>1
    <3>2. QED
      BY <1>2, <3>1 DEF On
  <2>5. QED
    BY <2>1, <2>2, <2>3, <2>4
<1>6. m[x] = 0 /\ t[x] = Len(P[x])
  <2>1. 1 \in 1 .. Len(st)
    BY <1>1
  <2>2. m[x] = 0 /\ Follows(P[x], t[x], <<>>)
    BY <1>2, <1>3, <2>1 DEF Counted
  <2>3. QED
    BY <1>2, <2>2 DEF Follows
<1>7. ASSUME NEW i \in 1 .. Len(s)
      PROVE  n[s[i].state] = 0 /\ Follows(P[s[i].state], t[s[i].state], s[i].left)
  <2>1. i + 1 \in 1 .. Len(st) /\ s[i] = st[i + 1]
    BY <1>1
  <2>2. m[s[i].state] = 0 /\ Follows(P[s[i].state], t[s[i].state], s[i].left)
    BY <2>1 DEF Counted
  <2>3. QED
    BY <1>3, <1>4, <2>2
<1>8. ASSUME NEW y \in R \ On(s) PROVE t[y] = IF n[y] > 0 THEN Len(P[y]) ELSE 0
  <2>1. CASE y = x
    BY <1>3, <1>6, <2>1
  <2>2. CASE y # x
    <3>1. y \in R \ On(st) /\ n[y] = m[y]
      BY <1>3, <1>5, <2>2
    <3>2. t[y] = IF m[y] > 0 THEN Len(P[y]) ELSE 0
      BY <3>1 DEF Counted
    <3>3. QED
      BY <3>1, <3>2
  <2>3. QED
    BY <2>1, <2>2
<1>9. Chained(P, {}, s)
  <2>1. ASSUME NEW i \in 2 .. Len(s) PROVE s[i - 1].state \in Range(P[s[i].state])
    <3>1. /\ i + 1 \in 2 .. Len(st) /\ s[i] = st[i + 1]
          /\ i - 1 \in 1 .. Len(st) - 1 /\ s[i - 1] = st[(i + 1) - 1]
      BY <1>1
    <3>2. QED
      BY <3>1 DEF Counted, Chained
  <2>2. QED
    BY <2>1 DEF Chained
<1>10. CountsOf(R, P, t, n, {}, s)
  <2> SUFFICES ASSUME NEW z \in R
               PROVE  /\ IsFiniteSet(RefsTo(P, t, z))
                      /\ n[z] + Bit(z, On(s)) + Bit(z, {}) = Cardinality(RefsTo(P, t, z))
    BY DEF CountsOf
  <2>1. /\ IsFiniteSet(RefsTo(P, t, z))
        /\ m[z] + Bit(z, On(st)) + Bit(z, {}) = Cardinality(RefsTo(P, t, z))
    BY DEF Counted, CountsOf
  <2>2. n[z] + Bit(z, On(s)) = m[z] + Bit(z, On(st))
    <3>1. CASE z = x
      BY <1>3, <1>5, <1>6, <3>1 DEF Bit
    <3>2. CASE z # x
      BY <1>3, <1>5, <3>2 DEF Bit
    <3>3. QED
      BY <3>1, <3>2
  <2>3. QED
    BY <2>1, <2>2
<1>11. Counted(R, P, t, n, {}, s, left)
  BY <1>7, <1>8, <1>9, <1>10 DEF Counted
<1>12. QED
  BY <1>11 DEF s

-----------------------------------------------------------------------------
(* What is visited in a lattice *)

Targets == [y \in Used \cup {NoLS} |-> IF y = NoLS THEN roots ELSE Predecessors(y)]

Acyclic == \A T \in SUBSET Used : T # {} => \E x \in T : BackPointers(x) \cap T = {}

Counting == \E t : Counted(Used, Targets, t, marked, {}, stack, todo)

VisitsAreReferences ==
  \A x \in Used :
    marked[x] = Cardinality({i \in DOMAIN roots : roots[i] = x})
                + Cardinality({y \in Used : node[y].best.prev = x})
                + Cardinality({p \in Used \X UNION {node[z].arcs : z \in Used} :
                                 p[2] \in node[p[1]].arcs /\ p[2].prev = x})

LEMMA TargetsType ==
  ASSUME WellFormed
  PROVE  /\ NoLS \notin Used
         /\ Targets \in [Used \cup {NoLS} -> Seq(Used)]
         /\ Targets[NoLS] = roots /\ \A y \in Used : Targets[y] = Predecessors(y)
         /\ Acyclic => Loopless(Used, Targets)
<1>1. NoLS \notin Used
  BY LatticeAssumption DEF WellFormed
<1>2. ASSUME NEW y \in Used
      PROVE  Predecessors(y) \in Seq(Used) /\ Range(Predecessors(y)) = BackPointers(y)
  <2>1. IsFiniteSet(node[y].arcs) /\ BackPointers(y) \subseteq Used
    BY DEF WellFormed
  <2>2. Predecessors(y) \in Seq(BackPointers(y)) /\ Range(Predecessors(y)) = BackPointers(y)
    BY <2>1, PredecessorsAre
  <2>3. QED
    BY <2>1, <2>2, SeqMonotonic
<1>3. Targets[NoLS] = roots /\ \A y \in Used : Targets[y] = Predecessors(y)
  BY <1>1 DEF Targets
<1>4. Targets \in [Used \cup {NoLS} -> Seq(Used)]
  <2>1. roots \in Seq(Used)
    BY DEF WellFormed
  <2>2. QED
    BY <1>1, <1>2, <2>1 DEF Targets
<1>5. Acyclic => Loopless(Used, Targets)
  BY <1>2, <1>3 DEF Acyclic, Loopless
<1>6. QED
  BY <1>1, <1>3, <1>4, <1>5

LEMMA TargetsUnchanged ==
  ASSUME UNCHANGED <<latticeVars, roots>>
  PROVE  /\ Targets' = Targets /\ Used' = Used
         /\ Acyclic => Acyclic'
<1>1. node' = node /\ usedList' = usedList /\ roots' = roots
  BY DEF latticeVars
<1>2. Used' = Used
  BY <1>1 DEF Used
<1>3. \A y : Predecessors(y)' = Predecessors(y) /\ BackPointers(y)' = BackPointers(y)
  BY <1>1 DEF Predecessors, BestPredecessor, IsStart, BackPointers
<1>4. Targets' = Targets
  BY <1>1, <1>2, <1>3 DEF Targets
<1>5. Acyclic => Acyclic'
  BY <1>2, <1>3 DEF Acyclic
<1>6. QED
  BY <1>2, <1>4, <1>5

LEMMA CallsOfUsed ==
  ASSUME WellFormed, Marking
  PROVE  stack \in Seq(Calls(Used)) /\ todo \in Seq(Used)
<1>1. Rooted \subseteq Used
  BY RootedClosed
<1>2. Calls(Rooted) \subseteq Calls(Used)
  <2>1. Seq(Rooted) \subseteq Seq(Used)
    BY <1>1, SeqMonotonic
  <2>2. QED
    BY <1>1, <2>1 DEF Calls
<1>3. QED
  BY <1>1, <1>2, SeqMonotonic DEF Marking

\* The positions of the predecessors: best_arc_ first, then each of arcs_ once.
Bests(y) == IF IsStart(y) THEN 0 ELSE 1

LEMMA PredecessorPositions ==
  ASSUME NEW y, IsFiniteSet(node[y].arcs)
  PROVE  LET arcs == SetToSeq(node[y].arcs)
         IN  /\ arcs \in [1 .. Len(arcs) -> node[y].arcs] /\ Len(arcs) \in Nat
             /\ \A i, j \in 1 .. Len(arcs) : arcs[i] = arcs[j] => i = j
             /\ \A a \in node[y].arcs : \E i \in 1 .. Len(arcs) : arcs[i] = a
             /\ Len(Predecessors(y)) = Bests(y) + Len(arcs)
             /\ ~IsStart(y) => Predecessors(y)[1] = node[y].best.prev
             /\ \A i \in 1 .. Len(arcs) : Predecessors(y)[Bests(y) + i] = arcs[i].prev
<1> DEFINE arcs == SetToSeq(node[y].arcs)
           prevs == [i \in DOMAIN arcs |-> arcs[i].prev]
           best == BestPredecessor(y)
<1>1. /\ arcs \in [1 .. Len(arcs) -> node[y].arcs] /\ Len(arcs) \in Nat
      /\ \A i, j \in 1 .. Len(arcs) : arcs[i] = arcs[j] => i = j
      /\ \A a \in node[y].arcs : \E i \in 1 .. Len(arcs) : arcs[i] = a
  <2> DEFINE A == node[y].arcs
             n == Cardinality(A)
  <2>1. n \in Nat /\ ExistsBijection(1 .. n, A)
    BY FS_CardinalityType
  <2>2. \E g \in [1 .. n -> A] : IsInjective(g)
    BY <2>1 DEF ExistsBijection, Bijection, Injection
  <2>3. arcs \in [1 .. n -> A] /\ IsInjective(arcs)
    BY <2>2 DEF SetToSeq
  <2>4. arcs \in Seq(A) /\ Range(arcs) = A
    BY SetAsSeq
  <2> HIDE DEF n, A, arcs
  <2>5. DOMAIN arcs = 1 .. Len(arcs) /\ Len(arcs) \in Nat /\ arcs \in [1 .. Len(arcs) -> A]
    BY <2>4
  <2>6. A = {arcs[i] : i \in 1 .. Len(arcs)}
    BY <2>4, RangeOf
  <2>7. \A i, j \in 1 .. Len(arcs) : arcs[i] = arcs[j] => i = j
    BY <2>3, <2>5 DEF IsInjective
  <2>8. QED
    BY <2>5, <2>6, <2>7 DEF A
<1> HIDE DEF arcs
<1>2. /\ prevs \in Seq({a.prev : a \in node[y].arcs}) /\ Len(prevs) = Len(arcs)
      /\ \A i \in 1 .. Len(arcs) : prevs[i] = arcs[i].prev
  BY <1>1
<1>3. /\ best \in Seq({node[y].best.prev}) /\ Len(best) = Bests(y)
      /\ ~IsStart(y) => best[1] = node[y].best.prev
  <2>1. CASE IsStart(y)
    <3>1. best = <<>> /\ Bests(y) = 0
      BY <2>1 DEF BestPredecessor, Bests
    <3>2. QED
      BY <2>1, <3>1
  <2>2. CASE ~IsStart(y)
    <3>1. best = <<node[y].best.prev>> /\ Bests(y) = 1
      BY <2>2 DEF BestPredecessor, Bests
    <3>2. QED
      BY <2>2, <3>1
  <2>3. QED
    BY <2>1, <2>2
<1> DEFINE V == {a.prev : a \in node[y].arcs} \cup {node[y].best.prev}
<1>4. prevs \in Seq(V) /\ best \in Seq(V)
  BY <1>2, <1>3, SeqMonotonic
<1>5. Predecessors(y) = best \o prevs
  BY DEF Predecessors, arcs
<1> HIDE DEF prevs, best, V
<1>6. /\ Len(Predecessors(y)) = Bests(y) + Len(arcs)
      /\ \A i \in 1 .. Bests(y) + Len(arcs) :
           Predecessors(y)[i] = IF i <= Bests(y) THEN best[i] ELSE prevs[i - Bests(y)]
  BY <1>2, <1>3, <1>4, <1>5, ConcatProperties
<1>7. Bests(y) \in Nat /\ (~IsStart(y) => Bests(y) = 1)
  BY DEF Bests
<1>8. ~IsStart(y) => Predecessors(y)[1] = node[y].best.prev
  BY <1>1, <1>3, <1>6, <1>7
<1>9. ASSUME NEW i \in 1 .. Len(arcs) PROVE Predecessors(y)[Bests(y) + i] = arcs[i].prev
  <2>1. /\ Bests(y) + i \in 1 .. Bests(y) + Len(arcs) /\ ~(Bests(y) + i <= Bests(y))
        /\ (Bests(y) + i) - Bests(y) = i
    BY <1>1, <1>7
  <2>2. QED
    BY <1>2, <1>6, <2>1
<1>10. QED
  BY <1>1, <1>6, <1>8, <1>9 DEF arcs

LEMMA EquallyMany ==
  ASSUME NEW S, NEW T, IsFiniteSet(S), NEW f \in [S -> T],
         \A a, b \in S : f[a] = f[b] => a = b, \A c \in T : \E a \in S : f[a] = c
  PROVE  IsFiniteSet(T) /\ Cardinality(T) = Cardinality(S)
<1>1. f \in Injection(S, T)
  BY DEF Injection, IsInjective
<1>2. f \in Surjection(S, T)
  BY DEF Surjection
<1>3. ExistsBijection(S, T)
  BY <1>1, <1>2 DEF ExistsBijection, Bijection
<1>4. QED
  BY <1>3, FS_Bijection

LEMMA DisjointlyMany ==
  ASSUME NEW S, NEW T, IsFiniteSet(S), IsFiniteSet(T), S \cap T = {}
  PROVE  /\ IsFiniteSet(S \cup T)
         /\ Cardinality(S \cup T) = Cardinality(S) + Cardinality(T)
<1>1. /\ IsFiniteSet(S \cup T)
      /\ Cardinality(S \cup T) = Cardinality(S) + Cardinality(T) - Cardinality(S \cap T)
  BY FS_Union
<1>2. Cardinality(S) \in Nat /\ Cardinality(T) \in Nat /\ Cardinality(S \cap T) = 0
  BY FS_CardinalityType, FS_EmptySet
<1>3. QED
  BY <1>1, <1>2

\* When nothing is left to visit, the references visited are the tokens, the best
\* arcs and the lattice arcs of the marked states.
LEMMA ReferencesCounted ==
  ASSUME WellFormed, NEW t, Counted(Used, Targets, t, marked, {}, <<>>, <<>>), NEW x \in Used
  PROVE  marked[x]
           = Cardinality({i \in DOMAIN roots : roots[i] = x})
             + Cardinality({y \in Marked : node[y].best.prev = x})
             + Cardinality({p \in Marked \X UNION {node[z].arcs : z \in Marked} :
                              p[2] \in node[p[1]].arcs /\ p[2].prev = x})
<1> DEFINE refs == RefsTo(Targets, t, x)
           Tokened == {p \in refs : p[1] = NoLS}
           Bested == {p \in refs : p[1] # NoLS /\ p[2] <= Bests(p[1])}
           Arced == {p \in refs : p[1] # NoLS /\ ~(p[2] <= Bests(p[1]))}
           I == {i \in DOMAIN roots : roots[i] = x}
           B == {y \in Marked : node[y].best.prev = x}
           A == {p \in Marked \X UNION {node[z].arcs : z \in Marked} :
                   p[2] \in node[p[1]].arcs /\ p[2].prev = x}
<1>1. /\ NoLS \notin Used /\ Targets \in [Used \cup {NoLS} -> Seq(Used)]
      /\ Targets[NoLS] = roots /\ \A y \in Used : Targets[y] = Predecessors(y)
  BY TargetsType
<1>2. /\ t \in [Used \cup {NoLS} -> Nat] /\ IsFiniteSet(refs)
      /\ marked[x] + Bit(x, On(<<>>)) + Bit(x, {}) = Cardinality(refs)
  BY DEF Counted, CountsOf
<1>3. marked[x] = Cardinality(refs)
  <2>1. Bit(x, On(<<>>)) = 0 /\ Bit(x, {}) = 0
    BY DEF On, Bit
  <2>2. marked[x] \in Nat
    BY DEF WellFormed
  <2> HIDE DEF refs
  <2>3. QED
    BY <1>2, <2>1, <2>2
<1>4. t[NoLS] = Len(roots)
  <2>1. Follows(roots, t[NoLS], <<>>)
    BY <1>1 DEF Counted
  <2>2. QED
    BY <1>2, <2>1 DEF Follows
<1>5. \A y \in Used : /\ y \in Marked => t[y] = Len(Predecessors(y))
                      /\ y \notin Marked => t[y] = 0
  <2>1. \A y \in Used : t[y] = IF marked[y] > 0 THEN Len(Targets[y]) ELSE 0
    BY DEF Counted, On
  <2>2. QED
    BY <1>1, <2>1 DEF Marked
<1>6. ASSUME NEW p \in refs
      PROVE  /\ p = <<p[1], p[2]>> /\ p[1] \in Used \cup {NoLS} /\ p[2] \in 1 .. t[p[1]]
             /\ p[1] # NoLS => p[1] \in Marked /\ Predecessors(p[1])[p[2]] = x
             /\ p[1] = NoLS => roots[p[2]] = x
  <2>1. /\ p = <<p[1], p[2]>> /\ p[1] \in Used \cup {NoLS} /\ p[2] \in 1 .. t[p[1]]
        /\ Targets[p[1]][p[2]] = x
    BY <1>1 DEF RefsTo
  <2>2. p[1] # NoLS => p[1] \in Marked
    BY <1>5, <2>1
  <2>3. QED
    BY <1>1, <2>1, <2>2
<1>7. \A y \in Used : \A k \in 1 .. t[y] : Predecessors(y)[k] = x => <<y, k>> \in refs
  BY <1>1 DEF RefsTo
<1>8. Marked \subseteq Used /\ x # NoLS
  BY <1>1 DEF Marked
<1> HIDE DEF refs
<1>9. IsFiniteSet(Tokened) /\ IsFiniteSet(Bested) /\ IsFiniteSet(Arced)
  BY <1>2, FS_Subset
<1>10. Cardinality(refs) = Cardinality(Tokened) + Cardinality(Bested) + Cardinality(Arced)
  <2>1. /\ refs = (Tokened \cup Bested) \cup Arced
        /\ Tokened \cap Bested = {} /\ (Tokened \cup Bested) \cap Arced = {}
    OBVIOUS
  <2> HIDE DEF Tokened, Bested, Arced
  <2>2. /\ IsFiniteSet(Tokened \cup Bested)
        /\ Cardinality(Tokened \cup Bested) = Cardinality(Tokened) + Cardinality(Bested)
    BY <1>9, <2>1, DisjointlyMany
  <2>3. Cardinality(refs) = Cardinality(Tokened \cup Bested) + Cardinality(Arced)
    BY <1>9, <2>1, <2>2, DisjointlyMany
  <2>4. QED
    BY <2>2, <2>3
<1>11. Cardinality(I) = Cardinality(Tokened)
  <2> DEFINE f == [p \in Tokened |-> p[2]]
  <2>1. roots \in Seq(Used) /\ DOMAIN roots = 1 .. Len(roots) /\ Len(roots) \in Nat
    BY DEF WellFormed
  <2>2. f \in [Tokened -> I]
    BY <1>4, <1>6, <2>1
  <2>3. \A a, b \in Tokened : f[a] = f[b] => a = b
    BY <1>6
  <2>4. ASSUME NEW i \in I PROVE \E a \in Tokened : f[a] = i
    <3>1. <<NoLS, i>> \in refs
      BY <1>1, <1>4, <2>1 DEF RefsTo, refs
    <3>2. <<NoLS, i>> \in Tokened /\ f[<<NoLS, i>>] = i
      BY <3>1
    <3>3. QED
      BY <3>2
  <2> HIDE DEF f, Tokened, I
  <2>5. QED
    BY <1>9, <2>2, <2>3, <2>4, EquallyMany
<1>12. Cardinality(B) = Cardinality(Bested)
  <2> DEFINE f == [p \in Bested |-> p[1]]
  <2>1. ASSUME NEW p \in Bested
        PROVE  /\ p = <<p[1], 1>> /\ p[1] \in Marked /\ node[p[1]].best.prev = x
    <3>1. p \in refs /\ p[1] # NoLS /\ p[2] <= Bests(p[1])
      OBVIOUS
    <3>2. p = <<p[1], p[2]>> /\ p[2] \in 1 .. t[p[1]] /\ p[1] \in Marked /\ Predecessors(p[1])[p[2]] = x
      BY <1>6, <3>1
    <3>3. p[2] = 1 /\ ~IsStart(p[1])
      BY <1>2, <3>1, <3>2 DEF Bests
    <3>4. IsFiniteSet(node[p[1]].arcs)
      BY <1>8, <3>2 DEF WellFormed
    <3>5. Predecessors(p[1])[1] = node[p[1]].best.prev
      BY <3>3, <3>4, PredecessorPositions
    <3>6. QED
      BY <3>2, <3>3, <3>5
  <2>2. f \in [Bested -> B]
    BY <2>1
  <2>3. \A a, b \in Bested : f[a] = f[b] => a = b
    BY <2>1
  <2>4. ASSUME NEW y \in B PROVE \E a \in Bested : f[a] = y
    <3>1. y \in Marked /\ y \in Used /\ node[y].best.prev = x /\ ~IsStart(y) /\ Bests(y) = 1
      BY <1>8 DEF IsStart, Bests
    <3>2. IsFiniteSet(node[y].arcs)
      BY <3>1 DEF WellFormed
    <3>3. /\ Predecessors(y)[1] = x
          /\ \E n \in Nat : Len(Predecessors(y)) = 1 + n
      BY <3>1, <3>2, PredecessorPositions
    <3>4. t[y] = Len(Predecessors(y)) /\ 1 \in 1 .. t[y]
      BY <1>5, <3>1, <3>3
    <3>5. <<y, 1>> \in refs
      BY <1>7, <3>1, <3>3, <3>4
    <3>6. <<y, 1>> \in Bested
      BY <1>1, <3>1, <3>5
    <3>7. f[<<y, 1>>] = y
      BY <3>6
    <3>8. QED
      BY <3>6, <3>7
  <2> HIDE DEF f, Bested, B
  <2>5. QED
    BY <1>9, <2>2, <2>3, <2>4, EquallyMany
<1>13. Cardinality(A) = Cardinality(Arced)
  <2> DEFINE arcsOf(y) == SetToSeq(node[y].arcs)
             f == [p \in Arced |-> <<p[1], arcsOf(p[1])[p[2] - Bests(p[1])]>>]
  <2>1. ASSUME NEW y \in Marked
        PROVE  /\ arcsOf(y) \in [1 .. Len(arcsOf(y)) -> node[y].arcs] /\ Len(arcsOf(y)) \in Nat
               /\ \A i, j \in 1 .. Len(arcsOf(y)) : arcsOf(y)[i] = arcsOf(y)[j] => i = j
               /\ \A a \in node[y].arcs : \E i \in 1 .. Len(arcsOf(y)) : arcsOf(y)[i] = a
               /\ t[y] = Bests(y) + Len(arcsOf(y)) /\ Bests(y) \in Nat
               /\ \A i \in 1 .. Len(arcsOf(y)) : Predecessors(y)[Bests(y) + i] = arcsOf(y)[i].prev
    <3>1. y \in Used /\ IsFiniteSet(node[y].arcs) /\ t[y] = Len(Predecessors(y))
      BY <1>5, <1>8 DEF WellFormed
    <3>2. Bests(y) \in Nat
      BY DEF Bests
    <3>3. QED
      BY <3>1, <3>2, PredecessorPositions
  <2> HIDE DEF arcsOf
  <2>2. ASSUME NEW p \in Arced
        PROVE  /\ p = <<p[1], p[2]>> /\ p[1] \in Marked /\ p[2] \in Nat
               /\ p[2] - Bests(p[1]) \in 1 .. Len(arcsOf(p[1]))
               /\ arcsOf(p[1])[p[2] - Bests(p[1])] \in node[p[1]].arcs
               /\ arcsOf(p[1])[p[2] - Bests(p[1])].prev = x
    <3> DEFINE y == p[1]
               i == p[2] - Bests(y)
    <3>1. p \in refs /\ y # NoLS /\ ~(p[2] <= Bests(y))
      OBVIOUS
    <3>2. /\ p = <<y, p[2]>> /\ p[2] \in 1 .. t[y] /\ y \in Marked
          /\ Predecessors(y)[p[2]] = x
      BY <1>6, <3>1
    <3>3. t[y] = Bests(y) + Len(arcsOf(y)) /\ Bests(y) \in Nat /\ Len(arcsOf(y)) \in Nat
      BY <2>1, <3>2
    <3>4. i \in 1 .. Len(arcsOf(y)) /\ Bests(y) + i = p[2] /\ p[2] \in Nat
      BY <3>1, <3>2, <3>3
    <3>5. arcsOf(y)[i] \in node[y].arcs /\ arcsOf(y)[i].prev = x
      <4> HIDE DEF i, y
      <4>1. QED
        BY <2>1, <3>2, <3>4
    <3>6. QED
      BY <3>2, <3>4, <3>5
  <2>3. f \in [Arced -> A]
    <3>1. ASSUME NEW p \in Arced PROVE f[p] \in A
      <4>1. /\ p[1] \in Marked /\ arcsOf(p[1])[p[2] - Bests(p[1])] \in node[p[1]].arcs
            /\ arcsOf(p[1])[p[2] - Bests(p[1])].prev = x
        BY <2>2
      <4>2. f[p] = <<p[1], arcsOf(p[1])[p[2] - Bests(p[1])]>>
        OBVIOUS
      <4>3. QED
        BY <4>1, <4>2
    <3>2. QED
      BY <3>1
  <2>4. ASSUME NEW p \in Arced, NEW q \in Arced, f[p] = f[q] PROVE p = q
    <3>1. /\ f[p] = <<p[1], arcsOf(p[1])[p[2] - Bests(p[1])]>>
          /\ f[q] = <<q[1], arcsOf(q[1])[q[2] - Bests(q[1])]>>
      OBVIOUS
    <3> HIDE DEF f, Arced
    <3>2. p[1] = q[1] /\ arcsOf(p[1])[p[2] - Bests(p[1])] = arcsOf(p[1])[q[2] - Bests(p[1])]
      <4> DEFINE u == arcsOf(p[1])[p[2] - Bests(p[1])]
                 v == arcsOf(q[1])[q[2] - Bests(q[1])]
      <4>1. <<p[1], u>> = <<q[1], v>>
        BY <2>4, <3>1, Zenon
      <4> HIDE DEF u, v
      <4>2. p[1] = q[1] /\ u = v
        BY <4>1
      <4>3. QED
        BY <4>2, Zenon DEF u, v
    <3>3. p[2] - Bests(p[1]) = q[2] - Bests(p[1])
      BY <2>1, <2>2, <3>2
    <3>4. p[2] = q[2]
      BY <2>1, <2>2, <3>3
    <3>5. QED
      BY <2>2, <3>2, <3>4
  <2>5. ASSUME NEW e \in A PROVE \E p \in Arced : f[p] = e
    <3> DEFINE y == e[1]
    <3>1. e = <<y, e[2]>> /\ y \in Marked /\ e[2] \in node[y].arcs /\ e[2].prev = x
      OBVIOUS
    <3> HIDE DEF y
    <3>2. PICK i \in 1 .. Len(arcsOf(y)) : arcsOf(y)[i] = e[2]
      BY <2>1, <3>1
    <3> DEFINE k == Bests(y) + i
    <3>3. /\ Predecessors(y)[k] = x /\ t[y] = Bests(y) + Len(arcsOf(y))
          /\ Bests(y) \in Nat /\ Len(arcsOf(y)) \in Nat
      BY <2>1, <3>1, <3>2
    <3>4. k \in 1 .. t[y] /\ ~(k <= Bests(y)) /\ k - Bests(y) = i
      BY <3>3
    <3> HIDE DEF k
    <3>5. <<y, k>> \in refs
      BY <1>7, <1>8, <3>1, <3>3, <3>4
    <3>6. <<y, k>> \in Arced
      BY <1>1, <1>8, <3>1, <3>4, <3>5
    <3>7. f[<<y, k>>] = e
      BY <3>1, <3>2, <3>4, <3>6
    <3>8. QED
      BY <3>6, <3>7
  <2> HIDE DEF f, Arced, A
  <2>6. QED
    BY <1>9, <2>3, <2>4, <2>5, EquallyMany
<1>14. QED
  BY <1>3, <1>10, <1>11, <1>12, <1>13

-----------------------------------------------------------------------------
(* The invariant of the counts *)

CountInv ==
  /\ IInv
  /\ loc \in {"clear", "mark"} => Acyclic /\ usedList \in Seq(LS)
  /\ loc = "mark" => Counting
  /\ loc = "mission" => VisitsAreReferences

LEMMA InitCountInv == Init => CountInv
<1> SUFFICES ASSUME Init PROVE CountInv
  OBVIOUS
<1>1. IInv
  BY InitInvariant
<1>2. PICK g \in Lattices : node = g.node /\ usedList = g.usedList
  BY DEF Init
<1>3. usedList \in Seq(LS)
  BY <1>2, GcMarkAssumption
<1>4. Acyclic
  <2>1. Used = Range(g.usedList)
    BY <1>2 DEF Used, Range
  <2>2. QED
    BY <1>2, <2>1, GcMarkAcyclic DEF Acyclic, BackPointers
<1>5. QED
  BY <1>1, <1>3, <1>4 DEF Init, CountInv

\* A visit when everything but the visited state is counted.
LEMMA VisitKeepsCounting ==
  ASSUME WellFormed, Acyclic, NEW x \in Used, NEW calls \in Seq(Calls(Used)), Visit(x, calls),
         UNCHANGED <<latticeVars, roots>>,
         NEW t, Counted(Used, Targets, t, marked, {x}, calls, todo')
  PROVE  Counting'
<1>1. /\ Targets \in [Used \cup {NoLS} -> Seq(Used)] /\ Targets[x] = Predecessors(x)
      /\ Loopless(Used, Targets)
  BY TargetsType
<1>2. x \in LS /\ Used \subseteq LS /\ marked \in [LS -> Nat] /\ \A z \in Used : marked[z] \in Nat
  BY DEF WellFormed
<1>3. Targets' = Targets /\ Used' = Used
  BY TargetsUnchanged
<1>4. CASE marked[x] > 0
  <2>1. marked' = [marked EXCEPT ![x] = @ + 1] /\ stack' = calls
    BY <1>4 DEF Visit
  <2>2. marked'[x] = marked[x] + 1 /\ \A z \in Used \ {x} : marked'[z] = marked[z]
    BY <1>2, <2>1
  <2>3. On(calls) \subseteq Used
    <3>1. \A i \in 1 .. Len(calls) : calls[i] \in Calls(Used)
      OBVIOUS
    <3>2. QED
      BY <3>1 DEF On, Calls
  <2> DEFINE n == marked'
  <2>4. n[x] = marked[x] + 1 /\ \A z \in Used \ {x} : n[z] = marked[z]
    BY <2>2
  <2> HIDE DEF n
  <2>5. Counted(Used, Targets, t, n, {}, calls, todo')
    BY <1>2, <1>4, <2>3, <2>4, MarkedCounted
  <2>6. QED
    BY <1>3, <2>1, <2>5 DEF Counting, n
<1>5. CASE ~(marked[x] > 0)
  <2> DEFINE call == [state |-> x, left |-> Predecessors(x)]
  <2>1. stack' = <<call>> \o calls /\ marked' = marked
    BY <1>5 DEF Visit
  <2>2. Predecessors(x) \in Seq(Used)
    BY <1>1
  <2>3. /\ call \in Calls(Used) /\ call.state = x /\ call.left = Targets[call.state]
        /\ marked[call.state] = 0
    BY <1>1, <1>2, <1>5, <2>2 DEF Calls
  <2> HIDE DEF call
  <2>4. Counted(Used, Targets, t, marked, {call.state}, calls, todo')
    BY <2>3
  <2>5. Counted(Used, Targets, t, marked, {}, <<call>> \o calls, todo')
    BY <1>1, <1>2, <2>3, <2>4, UnmarkedCounted
  <2>6. QED
    BY <1>3, <2>1, <2>5 DEF Counting
<1>6. QED
  BY <1>4, <1>5

LEMMA NextCountInv == CountInv /\ [Next]_vars => CountInv'
<1> SUFFICES ASSUME CountInv, [Next]_vars PROVE CountInv'
  OBVIOUS
<1>1. IInv /\ IInv'
  BY NextInvariant DEF CountInv
<1>2. CASE ClearMarks
  <2>1. /\ loc = "clear" /\ loc' = "mark" /\ stack' = <<>> /\ todo' = roots
        /\ WellFormed /\ Acyclic /\ usedList \in Seq(LS) /\ UNCHANGED <<latticeVars, roots>>
    BY <1>2, <1>1 DEF ClearMarks, IInv, CountInv
  <2>2. Targets' = Targets /\ Used' = Used /\ Acyclic' /\ usedList' = usedList
    BY <2>1, TargetsUnchanged DEF latticeVars
  <2>3. \A z \in Used : marked'[z] = 0
    BY <1>2, <2>1 DEF ClearMarks, WellFormed
  <2>4. /\ Targets \in [Used \cup {NoLS} -> Seq(Used)] /\ Targets[NoLS] = roots /\ NoLS \notin Used
    BY <2>1, TargetsType
  <2> DEFINE t == [y \in Used \cup {NoLS} |-> 0]
             n == marked'
  <2>5. \A z \in Used : n[z] = 0
    BY <2>3
  <2> HIDE DEF n
  <2>6. Counted(Used, Targets, t, n, {}, <<>>, roots)
    <3>1. Follows(Targets[NoLS], t[NoLS], roots)
      <4>1. roots \in Seq(Used)
        BY <2>1 DEF WellFormed
      <4>2. Len(roots) \in Nat /\ t[NoLS] = 0
        BY <4>1
      <4>3. QED
        BY <2>4, <4>2 DEF Follows
    <3>2. CountsOf(Used, Targets, t, n, {}, <<>>)
      <4>1. ASSUME NEW z \in Used
            PROVE  RefsTo(Targets, t, z) = {}
        <5>1. \A p \in RefsTo(Targets, t, z) : p[1] \in Used \cup {NoLS} /\ p[2] \in 1 .. t[p[1]]
          BY <2>4 DEF RefsTo
        <5>2. \A y \in Used \cup {NoLS} : 1 .. t[y] = {}
          OBVIOUS
        <5>3. QED
          BY <5>1, <5>2
      <4>2. \A z \in Used : Bit(z, On(<<>>)) = 0 /\ Bit(z, {}) = 0
        BY DEF Bit, On
      <4> HIDE DEF t
      <4>3. ASSUME NEW z \in Used
            PROVE  /\ IsFiniteSet(RefsTo(Targets, t, z))
                   /\ n[z] + Bit(z, On(<<>>)) + Bit(z, {}) = Cardinality(RefsTo(Targets, t, z))
        <5>1. IsFiniteSet(RefsTo(Targets, t, z)) /\ Cardinality(RefsTo(Targets, t, z)) = 0
          BY <4>1, FS_EmptySet
        <5>2. n[z] = 0 /\ Bit(z, On(<<>>)) = 0 /\ Bit(z, {}) = 0
          BY <2>5, <4>2
        <5>3. QED
          BY <5>1, <5>2
      <4>4. QED
        BY <4>3 DEF CountsOf
    <3>3. Chained(Targets, {}, <<>>)
      BY DEF Chained
    <3>4. t \in [Used \cup {NoLS} -> Nat] /\ \A y \in Used : t[y] = 0
      OBVIOUS
    <3> HIDE DEF t
    <3>5. \A y \in Used \ On(<<>>) : t[y] = IF n[y] > 0 THEN Len(Targets[y]) ELSE 0
      BY <2>5, <3>4
    <3>6. QED
      BY <3>1, <3>2, <3>3, <3>4, <3>5 DEF Counted
  <2>7. Counting'
    BY <2>1, <2>2, <2>6 DEF Counting, n
  <2>8. QED
    BY <1>1, <2>1, <2>2, <2>7 DEF CountInv
<1>3. CASE MarkToken
  <2>1. /\ loc = "mark" /\ loc' = "mark" /\ stack = <<>> /\ todo # <<>>
        /\ Visit(Head(todo), <<>>) /\ todo' = Tail(todo)
        /\ WellFormed /\ Marking /\ Acyclic /\ Counting /\ usedList \in Seq(LS)
        /\ UNCHANGED <<latticeVars, roots>>
    BY <1>3, <1>1 DEF MarkToken, IInv, CountInv
  <2>2. todo \in Seq(Used) /\ Head(todo) \in Used
    BY <2>1, CallsOfUsed, Popped
  <2>3. PICK t : Counted(Used, Targets, t, marked, {}, <<>>, todo)
    BY <2>1 DEF Counting
  <2>4. NoLS \notin Used /\ Targets \in [Used \cup {NoLS} -> Seq(Used)]
    BY <2>1, TargetsType
  <2>5. \A z \in Used : marked[z] \in Nat
    BY <2>1 DEF WellFormed
  <2>6. Counted(Used, Targets, [t EXCEPT ![NoLS] = @ + 1], marked, {Head(todo)}, <<>>, todo')
    BY <2>1, <2>2, <2>3, <2>4, <2>5, TokenCounted
  <2>7. <<>> \in Seq(Calls(Used))
    BY EmptySeq
  <2>8. Counting'
    BY <2>1, <2>2, <2>6, <2>7, VisitKeepsCounting
  <2>9. Acyclic' /\ usedList' = usedList
    BY <2>1, TargetsUnchanged DEF latticeVars
  <2>10. QED
    BY <1>1, <2>1, <2>8, <2>9 DEF CountInv
<1>4. CASE MarkPredecessor
  <2> DEFINE call == Head(stack)
             calls == <<[call EXCEPT !.left = Tail(@)]>> \o Tail(stack)
  <2>1. /\ stack # <<>> /\ call.left # <<>> /\ Visit(Head(call.left), calls)
        /\ UNCHANGED <<latticeVars, roots>> /\ todo' = todo /\ loc' = loc
    BY <1>4 DEF MarkPredecessor
  <2>2. loc = "mark" /\ WellFormed /\ Marking /\ Acyclic /\ Counting /\ usedList \in Seq(LS)
    BY <1>1, <2>1 DEF IInv, CountInv
  <2>3. stack \in Seq(Calls(Used))
    BY <2>2, CallsOfUsed
  <2>4. PICK t : Counted(Used, Targets, t, marked, {}, stack, todo)
    BY <2>2 DEF Counting
  <2>5. NoLS \notin Used /\ Targets \in [Used \cup {NoLS} -> Seq(Used)] /\ Loopless(Used, Targets)
    BY <2>2, TargetsType
  <2>6. \A z \in Used : marked[z] \in Nat
    BY <2>2 DEF WellFormed
  <2>7. Counted(Used, Targets, [t EXCEPT ![call.state] = @ + 1], marked, {Head(call.left)}, calls, todo)
    BY <2>1, <2>3, <2>4, <2>5, <2>6, PredecessorCounted
  <2>8. Head(call.left) \in Used /\ calls \in Seq(Calls(Used))
    <3>1. Answered(Marked, {}, stack, todo, Back, Range(roots))
      BY <2>2 DEF Marking
    <3>2. QED
      BY <2>1, <2>3, <3>1, TakenPredecessor
  <2> HIDE DEF call, calls
  <2>9. Counting'
    BY <2>1, <2>2, <2>7, <2>8, VisitKeepsCounting
  <2>10. Acyclic' /\ usedList' = usedList
    BY <2>1, <2>2, TargetsUnchanged DEF latticeVars
  <2>11. QED
    BY <1>1, <2>1, <2>2, <2>9, <2>10 DEF CountInv
<1>5. CASE MarkState
  <2> DEFINE x == Head(stack).state
             n == marked'
  <2>1. /\ stack # <<>> /\ Head(stack).left = <<>> /\ marked' = [marked EXCEPT ![x] = 1]
        /\ stack' = Tail(stack) /\ todo' = todo /\ loc' = loc /\ UNCHANGED <<latticeVars, roots>>
    BY <1>5 DEF MarkState
  <2>2. loc = "mark" /\ WellFormed /\ Marking /\ Acyclic /\ Counting /\ usedList \in Seq(LS)
    BY <1>1, <2>1 DEF IInv, CountInv
  <2>3. stack \in Seq(Calls(Used)) /\ x \in Used
    <3>1. stack \in Seq(Calls(Used))
      BY <2>2, CallsOfUsed
    <3>2. Head(stack) \in Calls(Used)
      BY <2>1, <3>1, Popped
    <3>3. QED
      BY <3>1, <3>2 DEF Calls
  <2>4. PICK t : Counted(Used, Targets, t, marked, {}, stack, todo)
    BY <2>2 DEF Counting
  <2>5. Targets \in [Used \cup {NoLS} -> Seq(Used)] /\ Loopless(Used, Targets)
    BY <2>2, TargetsType
  <2>6. marked \in [LS -> Nat] /\ Used \subseteq LS /\ \A z \in Used : marked[z] \in Nat
    BY <2>2 DEF WellFormed
  <2>7. n[x] = 1 /\ \A z \in Used \ {x} : n[z] = marked[z]
    BY <2>1, <2>3, <2>6
  <2> HIDE DEF n
  <2>8. Counted(Used, Targets, t, n, {}, Tail(stack), todo)
    BY <2>1, <2>3, <2>4, <2>5, <2>6, <2>7, ReturnedCounted
  <2>9. Targets' = Targets /\ Used' = Used /\ Acyclic' /\ usedList' = usedList
    BY <2>1, <2>2, TargetsUnchanged DEF latticeVars
  <2>10. Counting'
    BY <2>1, <2>8, <2>9 DEF Counting, n
  <2>11. QED
    BY <1>1, <2>1, <2>2, <2>9, <2>10 DEF CountInv
<1>6. CASE GcSweep
  <2>1. /\ loc = "mark" /\ loc' = "mission" /\ stack = <<>> /\ todo = <<>>
        /\ usedList' = Compact(usedList, Marked) /\ node' = node
        /\ roots' = roots /\ marked' = marked
    BY <1>6 DEF GcSweep, Sweep, SweepStates
  <2>2. WellFormed /\ usedList \in Seq(LS)
    BY <1>1, <2>1 DEF IInv, CountInv
  <2>3. PICK t : Counted(Used, Targets, t, marked, {}, <<>>, <<>>)
    BY <2>1 DEF CountInv, Counting
  <2>4. Used' = Marked
    <3>1. Used' = Used \cap Marked
      BY <2>1, <2>2, CompactRange DEF Used
    <3>2. QED
      BY <3>1 DEF Marked
  <2>5. Marked \subseteq Used
    BY DEF Marked
  <2>6. VisitsAreReferences'
    <3>1. \A x \in Marked :
            marked[x]
              = Cardinality({i \in DOMAIN roots : roots[i] = x})
                + Cardinality({y \in Marked : node[y].best.prev = x})
                + Cardinality({p \in Marked \X UNION {node[z].arcs : z \in Marked} :
                                 p[2] \in node[p[1]].arcs /\ p[2].prev = x})
      BY <2>2, <2>3, <2>5, ReferencesCounted
    <3>2. QED
      BY <2>1, <2>4, <3>1 DEF VisitsAreReferences
  <2>7. QED
    BY <1>1, <2>1, <2>6 DEF CountInv
<1>7. CASE EarlyMission
  BY <1>1, <1>7 DEF EarlyMission, CountInv
<1>8. CASE UNCHANGED vars
  <2>1. UNCHANGED <<latticeVars, roots>> /\ UNCHANGED <<todo, marked, stack, loc>>
    BY <1>8 DEF vars, gcVars
  <2>2. Targets' = Targets /\ Used' = Used /\ (Acyclic => Acyclic') /\ usedList' = usedList
    BY <2>1, TargetsUnchanged DEF latticeVars
  <2>3. Counting => Counting'
    BY <2>1, <2>2 DEF Counting
  <2>4. VisitsAreReferences => VisitsAreReferences'
    <3>1. node' = node /\ roots' = roots /\ marked' = marked
      BY <2>1 DEF latticeVars
    <3>2. QED
      BY <2>2, <3>1 DEF VisitsAreReferences
  <2>5. QED
    BY <1>1, <2>1, <2>2, <2>3, <2>4 DEF CountInv
<1>9. QED
  BY <1>2, <1>3, <1>4, <1>5, <1>6, <1>7, <1>8 DEF Next

LEMMA CountInvCounts == CountInv => MarksAreReferences
<1> SUFFICES ASSUME CountInv PROVE MarksAreReferences
  OBVIOUS
<1>1. ASSUME NEW i \in DOMAIN stack, NEW j \in DOMAIN stack, stack[i].state = stack[j].state
      PROVE  i = j
  <2>1. CASE loc # "mark"
    BY <2>1 DEF CountInv, IInv
  <2>2. CASE loc = "mark"
    <3>1. WellFormed /\ Marking /\ Acyclic /\ Counting
      BY <2>2 DEF CountInv, IInv
    <3>2. stack \in Seq(Calls(Used)) /\ Loopless(Used, Targets)
      BY <3>1, CallsOfUsed, TargetsType
    <3>3. DOMAIN stack = 1 .. Len(stack) /\ Len(stack) \in Nat
      BY <3>2
    <3>4. Chained(Targets, {}, stack)
      BY <3>1 DEF Counting, Counted
    <3>5. ~(i < j) /\ ~(j < i)
      BY <1>1, <3>2, <3>3, <3>4, NoneTwice
    <3>6. QED
      BY <3>3, <3>5
  <2>3. QED
    BY <2>1, <2>2
<1>2. QED
  BY <1>1 DEF CountInv, VisitsAreReferences, MarksAreReferences

\* After a collection marked_ of a state is the number of its references, by which
\* the early mission tells where hypotheses branch; and no state is called again
\* while its call has not returned, though its mark comes only when it does.
THEOREM SpecMarksAreReferences == Spec => []MarksAreReferences
<1>1. Spec => []CountInv
  BY InitCountInv, NextCountInv, PTL DEF Spec
<1>2. QED
  BY <1>1, CountInvCounts, PTL

=============================================================================
