---------------------------- MODULE CLevelProofs ----------------------------
(***************************************************************************)
(* The decoder's lists and tokens stay coherent, and it drives the lattice *)
(* as TokenLattice allows, for every network, transition model, utterance  *)
(* and option; its second part shows that it implements TokenLattice.      *)
(***************************************************************************)
EXTENDS CLevelCorrect, LatticeLemmas

-----------------------------------------------------------------------------
(* The inductive invariant *)

\* What the variables are made of.  Costs are left open: neither the lists nor the
\* tokens' lattice states depend on them.
Shape ==
  /\ net \in Networks /\ class \in {"Lattice", "SimpleLattice"}
  /\ DOMAIN loc = {"at", "i", "j", "best", "threshold", "state", "cost"}
  /\ loc.i \in Nat \ {0} /\ loc.j \in Nat
  /\ DOMAIN token = States /\ position \in [States -> Int] /\ activeStates \in Seq(States \cup {Null})
  /\ DOMAIN tokens = ArcIds /\ arcActive \in [ArcIds -> BOOLEAN] /\ activeArcs \in Seq(ArcIds \cup {Null})
  /\ usedList \in Seq(LS) /\ DOMAIN node = LS

\* A search state has a token when it is in the list, once, where index_ says.
StateSlots ==
  /\ \A q \in States :
       /\ Active(token[q]) <=> position[q] # -1
       /\ position[q] # -1 => position[q] + 1 \in DOMAIN activeStates /\ activeStates[position[q] + 1] = q
  /\ \A i \in DOMAIN activeStates : activeStates[i] # Null => position[activeStates[i]] = i - 1

\* An arc is active when it is in the list, once, and holds tokens only then.
ArcSlots ==
  /\ \A a \in ArcIds : arcActive[a] => \E i \in DOMAIN activeArcs : activeArcs[i] = a
  /\ \A i \in DOMAIN activeArcs : activeArcs[i] # Null => arcActive[activeArcs[i]]
  /\ \A i, k \in DOMAIN activeArcs : activeArcs[i] # Null /\ activeArcs[i] = activeArcs[k] => i = k
  /\ \A a \in ArcIds : HeldBy(a) # {} => arcActive[a]

Full(list) == \A i \in DOMAIN list : list[i] # Null

\* Where the lists have emptied slots: ExpandActiveStates leaves them behind, as do
\* ExpandActiveArcs and, between the two positions it keeps, its compaction.
EmptySlots ==
  /\ loc.at # "states" => Full(activeStates)
  /\ loc.at = "states" => \A i \in DOMAIN activeStates : activeStates[i] = Null <=> i < loc.i
  /\ loc.at \in {"idle", "gc", "arcs"} => activeStates = <<>>
  /\ loc.at = "idle" => activeArcs = <<>>
  /\ loc.at \notin {"arcs", "compact", "undefined"} => Full(activeArcs)
  /\ loc.at \in {"arcs", "compact"} => loc.j < loc.i /\ loc.i <= Len(activeArcs) + 1
  /\ loc.at = "arcs" => \A i \in DOMAIN activeArcs : loc.i <= i => activeArcs[i] # Null
  /\ loc.at = "compact" => \A i \in DOMAIN activeArcs : /\ i <= loc.j => activeArcs[i] # Null
                                                        /\ loc.j < i /\ i < loc.i => activeArcs[i] = Null

\* While epsilon arcs are followed, the states queued and expanded have tokens.
Queue ==
  /\ epsQueue \in Seq(States)
  /\ loc.at \in {"pop", "relax"} => \A i \in DOMAIN epsQueue : Active(token[epsQueue[i]])
  /\ loc.at = "relax" => loc.state \in States /\ Active(token[loc.state])

\* Up to the end of the utterance a token's lattice state is allocated, its own,
\* and as cheap.
OwnStates ==
  /\ class = "Lattice" => pool \subseteq LS /\ Used \cap pool = {}
  /\ loc.at # "cleanup" =>
       \A q \in States : Active(token[q]) =>
         /\ token[q].tb \in Used
         /\ token[q].cost = node[token[q].tb].fwd
         /\ \A p \in States : token[p].tb = token[q].tb => p = q

SInv == Shape /\ StateSlots /\ ArcSlots /\ EmptySlots /\ Queue /\ OwnStates

-----------------------------------------------------------------------------
(* The network *)

\* Arcs lead from states to states, and neither is an emptied slot.
LEMMA NetworkShape ==
  ASSUME net \in Networks
  PROVE  /\ \A q \in States : q \in Nat \ {0}
         /\ \A a \in ArcIds : a \in Nat \ {0}
         /\ net.start \in States
         /\ \A a \in ArcIds : net.arcs[a].src \in States /\ net.arcs[a].dst \in States
         /\ \A a \in ArcIds : net.arcs[a].olabel \in OLabels /\ net.arcs[a].weight \in Int
         /\ \A a \in ArcIds : net.arcs[a].ilabel \in DOMAIN Hmms
<1>1. NetworkOK(net)
  BY DecoderAssumption DEF DecoderAssumption
<1>2. Len(net.final) \in Nat /\ States = 1 .. Len(net.final)
  BY <1>1 DEF NetworkOK, States
<1>3. Len(net.arcs) \in Nat /\ ArcIds = 1 .. Len(net.arcs)
  BY <1>1 DEF NetworkOK, ArcIds
<1>4. \A a \in ArcIds :
        net.arcs[a] \in [src : States, dst : States, ilabel : DOMAIN Hmms, olabel : OLabels, weight : Int]
  <2> DEFINE Arc == [src : States, dst : States, ilabel : DOMAIN Hmms, olabel : OLabels, weight : Int]
  <2>1. net.arcs \in Seq(Arc)
    BY <1>1 DEF NetworkOK, States
  <2>2. \A a \in ArcIds : net.arcs[a] \in Arc
    <3> HIDE DEF Arc
    <3> QED BY <1>3, <2>1
  <2>3. QED
    BY <2>2
<1>5. net.start \in States
  BY <1>1 DEF NetworkOK, States
<1>6. QED
  BY <1>2, <1>3, <1>4, <1>5

\* eps_arcs_ and arcs_ of a state list, once each, arcs that leave it.
LEMMA ArcsInOrderShape ==
  ASSUME net \in Networks, NEW q \in States, NEW silent
  PROVE  LET arcs == ArcsInOrder(net, silent)[q]
         IN  /\ arcs \in Seq(ArcIds)
             /\ \A i \in 1 .. Len(arcs) : net.arcs[arcs[i]].src = q /\ IsNonEmitting(Hmm(arcs[i])) = silent
             /\ \A i, k \in 1 .. Len(arcs) : arcs[i] = arcs[k] => i = k
<1> DEFINE ids == [a \in ArcIds |-> a]
           M == {a \in ArcIds : net.arcs[a].src = q /\ IsNonEmitting(Hmm(a)) = silent}
           arcs == Compact(ids, M)
<1>1. ids \in Seq(ArcIds) /\ \A i, k \in DOMAIN ids : ids[i] = ids[k] => i = k
  <2>1. net.arcs \in Seq([src : DOMAIN net.final, dst : DOMAIN net.final, ilabel : DOMAIN Hmms,
                          olabel : OLabels, weight : Int])
    BY DecoderAssumption DEF DecoderAssumption, NetworkOK
  <2>2. Len(net.arcs) \in Nat /\ ArcIds = 1 .. Len(net.arcs)
    BY <2>1 DEF ArcIds
  <2>3. QED
    BY <2>2
<1>2. ArcsInOrder(net, silent)[q] = arcs
  BY DEF ArcsInOrder, States, ArcIds, Hmm
<1>3. arcs \in Seq(ArcIds)
  <2> HIDE DEF ids, M
  <2> QED BY <1>1, CompactPositions
<1>4. \A i \in 1 .. Len(arcs) : arcs[i] \in M
  <2> HIDE DEF ids, M
  <2>1. Len(arcs) = Rank(ids, M, Len(ids))
    BY <1>1, CompactPositions
  <2>2. QED
    BY <1>1, <2>1, CompactPositions
<1>5. \A i, k \in 1 .. Len(arcs) : arcs[i] = arcs[k] => i = k
  <2> HIDE DEF ids, M
  <2>1. \A i, k \in DOMAIN arcs : arcs[i] = arcs[k] => i = k
    BY <1>1, CompactInjective
  <2>2. DOMAIN arcs = 1 .. Len(arcs)
    BY <1>3
  <2>3. QED
    BY <2>1, <2>2
<1>6. QED
  <2> HIDE DEF ids
  <2>1. \A i \in 1 .. Len(arcs) : net.arcs[arcs[i]].src = q /\ IsNonEmitting(Hmm(arcs[i])) = silent
    BY <1>4
  <2>2. QED
    BY <1>2, <1>3, <1>5, <2>1

LEMMA EpsilonArcsShape ==
  ASSUME net \in Networks, NEW q \in States
  PROVE  /\ EpsilonArcs(q) \in Seq(ArcIds)
         /\ \A i \in 1 .. Len(EpsilonArcs(q)) :
              net.arcs[EpsilonArcs(q)[i]].src = q /\ IsNonEmitting(Hmm(EpsilonArcs(q)[i]))
<1> DEFINE arcs == ArcsInOrder(net, TRUE)[q]
<1>1. EpsilonArcs(q) = arcs
  BY DEF EpsilonArcs, EpsilonArcsOf
<1>2. /\ arcs \in Seq(ArcIds)
      /\ \A i \in 1 .. Len(arcs) : net.arcs[arcs[i]].src = q /\ IsNonEmitting(Hmm(arcs[i])) = TRUE
  BY ArcsInOrderShape
<1> HIDE DEF arcs
<1>3. QED
  BY <1>1, <1>2

-----------------------------------------------------------------------------
(* A token arrives in a search state *)

\* An arrival in a state without emptied slots leaves every state where its index
\* says, and takes no token away.
LEMMA JoinKeeps ==
  ASSUME Shape, StateSlots, Full(activeStates), net' = net, NEW q \in States, NEW t, Active(t),
         token' = [token EXCEPT ![q] = t], JoinActiveStates(q)
  PROVE  /\ DOMAIN token' = States' /\ position' \in [States' -> Int]
         /\ activeStates' \in Seq(States' \cup {Null}) /\ Full(activeStates')
         /\ StateSlots'
         /\ \A p \in States : Active(token[p]) \/ p = q => Active(token'[p])
<1> DEFINE n == Len(activeStates)
<1>1. States' = States /\ DOMAIN token' = States
  BY DEF Shape, States
<1>2. q # Null
  BY NetworkShape DEF Shape, Null
<1>3. \A p \in States : Active(token'[p]) <=> (Active(token[p]) \/ p = q)
  BY DEF Shape
<1>4. n \in Nat /\ DOMAIN activeStates = 1 .. n
  BY DEF Shape
<1>5. CASE position[q] = -1
  <2>1. /\ activeStates' \in Seq(States \cup {Null}) /\ DOMAIN activeStates' = 1 .. n + 1
        /\ activeStates'[n + 1] = q /\ \A i \in 1 .. n : activeStates'[i] = activeStates[i]
        /\ position' = [position EXCEPT ![q] = n]
    <3> DEFINE L == States \cup {Null}
    <3>1. activeStates \in Seq(L) /\ q \in L
      BY DEF Shape
    <3>2. activeStates' = Append(activeStates, q) /\ position' = [position EXCEPT ![q] = n]
      BY <1>5 DEF JoinActiveStates
    <3> HIDE DEF L
    <3>3. activeStates' \in Seq(L)
      BY <3>1, <3>2
    <3>4. QED
      BY <1>4, <3>1, <3>2, <3>3 DEF L
  <2>2. position' \in [States -> Int] /\ position'[q] = n
        /\ \A p \in States : p # q => position'[p] = position[p]
    BY <1>4, <2>1 DEF Shape
  <2>3. \A i \in 1 .. n : activeStates[i] # q
    BY <1>2, <1>4, <1>5 DEF StateSlots
  <2>4. Full(activeStates')
    BY <1>2, <1>4, <2>1 DEF Full
  <2>5. \A p \in States :
          /\ Active(token'[p]) <=> position'[p] # -1
          /\ position'[p] # -1 => position'[p] + 1 \in 1 .. n + 1 /\ activeStates'[position'[p] + 1] = p
    BY <1>3, <1>4, <2>1, <2>2 DEF StateSlots
  <2>6. \A i \in 1 .. n + 1 : activeStates'[i] # Null => position'[activeStates'[i]] = i - 1
    <3>1. \A i \in 1 .. n : activeStates[i] \in States \cup {Null}
      BY <1>4 DEF Shape
    <3>2. \A i \in 1 .. n : activeStates'[i] # Null => position'[activeStates'[i]] = i - 1
      BY <1>4, <2>1, <2>2, <2>3, <3>1 DEF StateSlots
    <3>3. QED
      BY <1>4, <2>1, <2>2, <3>2
  <2>7. StateSlots'
    BY <1>1, <2>1, <2>5, <2>6 DEF StateSlots
  <2>8. QED
    BY <1>1, <1>3, <2>1, <2>2, <2>4, <2>7
<1>6. CASE position[q] # -1
  <2>1. position' = position /\ activeStates' = activeStates
    BY <1>6 DEF JoinActiveStates
  <2>2. StateSlots'
    BY <1>1, <1>3, <1>6, <2>1 DEF StateSlots
  <2>3. QED
    BY <1>1, <1>3, <2>1, <2>2 DEF Shape
<1>7. QED
  BY <1>5, <1>6

\* The lattice grows by at most one state, which was not in use.
LEMMA UsedAppended ==
  ASSUME usedList \in Seq(LS), NEW x \in LS, usedList' = Append(usedList, x)
  PROVE  usedList' \in Seq(LS) /\ Used' = Used \cup {x}
<1> DEFINE n == Len(usedList)
<1>1. /\ n \in Nat /\ DOMAIN usedList = 1 .. n
      /\ usedList' \in Seq(LS) /\ DOMAIN usedList' = 1 .. n + 1
      /\ usedList'[n + 1] = x /\ \A i \in 1 .. n : usedList'[i] = usedList[i]
  OBVIOUS
<1>2. \A y : y \in Used <=> \E i \in 1 .. n : usedList[i] = y
  BY <1>1 DEF Used
<1>3. \A y : y \in Used' <=> \E i \in 1 .. n + 1 : usedList'[i] = y
  BY <1>1 DEF Used
<1>4. 1 .. n + 1 = (1 .. n) \cup {n + 1}
  BY <1>1
<1>5. QED
  <2> HIDE DEF n
  <2> QED BY <1>1, <1>2, <1>3, <1>4

\* What an allocation does in either lattice.
Allocates(x, n) ==
  /\ x \in LS \ Used
  /\ usedList' \in Seq(LS) /\ Used' = Used \cup {x}
  /\ node' = [node EXCEPT ![x] = n]
  /\ class = "Lattice" => pool' \subseteq LS /\ Used' \cap pool' = {}

LEMMA NewStateAllocates ==
  ASSUME Shape, OwnStates, NEW x, NEW n,
         IF class = "Lattice" THEN NewState(x, n) ELSE SimpleNewState(x, n)
  PROVE  Allocates(x, n)
<1>1. CASE class = "Lattice"
  <2>1. x \in LS \ Used /\ pool' = pool \ {x}
    BY <1>1 DEF NewState, Allocatable, OwnStates
  <2>2. usedList' = Append(usedList, x) /\ node' = [node EXCEPT ![x] = n]
    BY <1>1 DEF NewState
  <2>3. QED
    BY <1>1, <2>1, <2>2, UsedAppended DEF Allocates, OwnStates, Shape
<1>2. CASE class # "Lattice"
  <2>1. x \in LS \ Used /\ usedList' = Append(usedList, x) /\ node' = [node EXCEPT ![x] = n]
    BY <1>2 DEF SimpleNewState
  <2>2. QED
    BY <1>2, <2>1, UsedAppended DEF Allocates, Shape
<1>3. QED
  BY <1>1, <1>2

\* What the arrival of a token at lattice state tb does to search state q.
Arrives(q, tb) ==
  /\ token' = [token EXCEPT ![q] = [tb |-> tb, cost |-> node'[tb].fwd]]
  /\ JoinActiveStates(q)
  /\ tb \in LS /\ usedList' \in Seq(LS) /\ DOMAIN node' = LS
  /\ IF Active(token[q]) THEN tb = token[q].tb /\ Used' = Used ELSE tb \notin Used /\ Used' = Used \cup {tb}
  /\ \A y \in LS \ {tb} : node'[y] = node[y]
  /\ class = "Lattice" => pool' \subseteq LS /\ Used' \cap pool' = {}

LEMMA AllocatesArrives ==
  ASSUME Shape, NEW q, NEW x, NEW n, ~Active(token[q]), Allocates(x, n), JoinActiveStates(q),
         token' = [token EXCEPT ![q] = [tb |-> x, cost |-> node'[x].fwd]]
  PROVE  Arrives(q, x)
  BY DEF Allocates, Arrives, Shape

LEMMA SetTokenArrives ==
  ASSUME Shape, OwnStates, loc.at # "cleanup", NEW q \in States, NEW src, NEW cost, NEW olabel,
         SetToken(q, src, cost, olabel)
  PROVE  \E tb : Arrives(q, tb)
<1> DEFINE tb == IF Active(token[q]) THEN token[q].tb ELSE NewLatticeState
<1>1. /\ CombineToken(q, src, tb, cost, olabel) /\ JoinActiveStates(q)
      /\ token' = [token EXCEPT ![q] = [tb |-> tb, cost |-> node'[tb].fwd]]
  BY DEF SetToken
<1>2. CASE ~Active(token[q])
  <2>1. \E n : IF class = "Lattice" THEN NewState(tb, n) ELSE SimpleNewState(tb, n)
    <3>1. class \in {"Lattice", "SimpleLattice"}
      BY DEF Shape
    <3> HIDE DEF tb
    <3>2. CASE class = "Lattice"
      BY <1>1, <1>2, <3>2 DEF CombineToken, CombineNew
    <3>3. CASE class = "SimpleLattice"
      BY <1>1, <1>2, <3>3 DEF CombineToken, SimpleCombineNew
    <3>4. QED
      BY <3>1, <3>2, <3>3
  <2> HIDE DEF tb
  <2>2. QED
    BY <1>1, <1>2, <2>1, NewStateAllocates, AllocatesArrives
<1>3. CASE Active(token[q])
  <2>1. tb = token[q].tb /\ tb \in Used
    BY <1>3 DEF OwnStates
  <2>2. Used \subseteq LS
    BY DEF Used, Shape
  <2>3. \E n : node' = [node EXCEPT ![tb] = n] /\ UNCHANGED <<usedList, pool, index, outstanding>>
    <3>1. class \in {"Lattice", "SimpleLattice"}
      BY DEF Shape
    <3> HIDE DEF tb
    <3>2. CASE class = "Lattice"
      BY <1>1, <1>3, <3>2 DEF CombineToken, CombineActive
    <3>3. CASE class = "SimpleLattice"
      BY <1>1, <1>3, <3>3 DEF CombineToken, SimpleCombineActive
    <3>4. QED
      BY <3>1, <3>2, <3>3
  <2> HIDE DEF tb
  <2>4. Used' = Used
    BY <2>3 DEF Used
  <2>5. tb \in LS /\ usedList' \in Seq(LS) /\ DOMAIN node' = LS
    BY <2>1, <2>2, <2>3 DEF Shape
  <2>6. \A y \in LS \ {tb} : node'[y] = node[y]
    BY <2>3 DEF Shape
  <2>7. class = "Lattice" => pool' \subseteq LS /\ Used' \cap pool' = {}
    BY <2>3, <2>4 DEF OwnStates
  <2>8. QED
    BY <1>1, <1>3, <2>1, <2>4, <2>5, <2>6, <2>7 DEF Arrives
<1>4. QED
  BY <1>2, <1>3

\* An arrival keeps the search states coherent and each token's lattice state its own.
LEMMA ArrivesKeeps ==
  ASSUME Shape, StateSlots, Full(activeStates), OwnStates, loc.at # "cleanup",
         net' = net, class' = class, NEW q \in States, NEW tb, Arrives(q, tb)
  PROVE  /\ DOMAIN token' = States' /\ position' \in [States' -> Int]
         /\ activeStates' \in Seq(States' \cup {Null}) /\ Full(activeStates')
         /\ usedList' \in Seq(LS) /\ DOMAIN node' = LS
         /\ StateSlots' /\ OwnStates'
         /\ \A p \in States : Active(token[p]) \/ p = q => Active(token'[p])
<1> DEFINE t == [tb |-> tb, cost |-> node'[tb].fwd]
<1>1. Active(t)
  BY LatticeAssumption DEF Arrives, LatticeAssumption, Active
<1>2. /\ DOMAIN token' = States' /\ position' \in [States' -> Int]
      /\ activeStates' \in Seq(States' \cup {Null}) /\ Full(activeStates')
      /\ StateSlots'
      /\ \A p \in States : Active(token[p]) \/ p = q => Active(token'[p])
  <2>1. token' = [token EXCEPT ![q] = t] /\ JoinActiveStates(q)
    BY DEF Arrives
  <2> HIDE DEF t
  <2>2. QED
    BY <1>1, <2>1, JoinKeeps
<1>3. token'[q] = t /\ \A p \in States : p # q => token'[p] = token[p]
  BY DEF Arrives, Shape
<1>4. States' = States /\ tb \in Used' /\ tb # NoLS /\ Used \subseteq Used'
  BY <1>1 DEF States, Arrives, OwnStates, Active
<1>5. \A p \in States : p # q => token[p].tb # tb
  BY <1>4 DEF OwnStates, Arrives, Active
<1>6. ASSUME NEW p \in States, p # q, Active(token[p])
      PROVE  token[p].tb \in LS /\ node'[token[p].tb] = node[token[p].tb]
  BY <1>5, <1>6 DEF OwnStates, Arrives, Used, Shape
<1>7. \A p \in States : Active(token'[p]) =>
        /\ token'[p].tb \in Used'
        /\ token'[p].cost = node'[token'[p].tb].fwd
        /\ \A r \in States : token'[r].tb = token'[p].tb => r = p
  <2>1. TAKE p \in States
  <2>2. HAVE Active(token'[p])
  <2>3. CASE p = q
    BY <1>3, <1>4, <1>5, <2>3
  <2>4. CASE p # q
    BY <1>3, <1>4, <1>5, <1>6, <2>2, <2>4 DEF OwnStates
  <2>5. QED
    BY <2>3, <2>4
<1>8. OwnStates'
  BY <1>4, <1>7 DEF OwnStates, Arrives
<1>9. QED
  BY <1>2, <1>8 DEF Arrives

-----------------------------------------------------------------------------
(* What a step leaves alone *)

LEMMA StatesFrame ==
  ASSUME StateSlots, UNCHANGED <<stateVars, net>>
  PROVE  StateSlots'
  BY DEF StateSlots, stateVars, States

LEMMA ArcsFrame ==
  ASSUME ArcSlots, UNCHANGED <<arcVars, net>>
  PROVE  ArcSlots'
  BY DEF ArcSlots, arcVars, ArcIds, HeldBy

LEMMA LatticeFrame ==
  ASSUME OwnStates, loc.at # "cleanup", UNCHANGED <<latticeVars, token, net, class>>
  PROVE  OwnStates'
  BY DEF OwnStates, latticeVars, States, Used

LEMMA GotoLoc ==
  ASSUME Shape, NEW at, NEW threshold, Goto(at, threshold)
  PROVE  /\ DOMAIN loc' = {"at", "i", "j", "best", "threshold", "state", "cost"}
         /\ loc'.at = at /\ loc'.i = 1 /\ loc'.j = 0
  BY DEF Goto, Shape

\* Steps that change nothing but control and what no list depends on.
LEMMA ControlKeeps ==
  ASSUME SInv, loc.at # "cleanup", UNCHANGED <<latticeVars, stateVars, arcVars, netVars>>,
         DOMAIN loc' = {"at", "i", "j", "best", "threshold", "state", "cost"},
         loc'.i \in Nat \ {0}, loc'.j \in Nat, EmptySlots', Queue'
  PROVE  SInv'
<1>1. Shape'
  BY DEF SInv, Shape, latticeVars, stateVars, arcVars, netVars, States, ArcIds
<1>2. QED
  BY <1>1, StatesFrame, ArcsFrame, LatticeFrame DEF SInv, stateVars, netVars

-----------------------------------------------------------------------------
(* Init, BeginDecode and the frame loop *)

LEMMA InitSInv == Init => SInv
<1> SUFFICES ASSUME Init PROVE SInv
  OBVIOUS
<1> USE DEF Init, Fresh
<1>1. net \in Networks /\ States = DOMAIN net.final /\ ArcIds = DOMAIN net.arcs
  BY DEF States, ArcIds
<1>2. Shape
  BY <1>1, DecoderAssumption DEF Shape, DecoderAssumption
<1>3. StateSlots
  BY <1>1 DEF StateSlots, Active, Inactive
<1>4. ArcSlots
  <2>1. ASSUME NEW a \in ArcIds
        PROVE  HeldBy(a) = {}
    BY <1>1, <2>1 DEF HeldBy, NoTokens, Inactive
  <2>2. QED
    BY <1>1, <2>1 DEF ArcSlots
<1>5. EmptySlots /\ Queue
  BY DEF EmptySlots, Queue, Full
<1>6. OwnStates
  BY <1>1 DEF OwnStates, Active, Inactive, Used
<1>7. QED
  BY <1>2, <1>3, <1>4, <1>5, <1>6 DEF SInv

LEMMA BeginDecodeSInv ==
  ASSUME SInv, BeginDecode
  PROVE  SInv'
<1> DEFINE x == NewLatticeState
           q == net.start
           t == [tb |-> x, cost |-> 0]
<1> USE DEF SInv
<1>1. loc.at = "idle" /\ activeStates = <<>> /\ q \in States
  BY NetworkShape DEF BeginDecode, EmptySlots, Shape
<1>2. ~Active(token[q]) /\ Full(activeStates)
  BY <1>1 DEF StateSlots, Full
<1>3. /\ IF class = "Lattice" THEN CreateStartState(x) ELSE SimpleCreateStartState(x)
      /\ Activate(q, t) /\ Goto("epsilon", MaxCost)
      /\ UNCHANGED <<epsVars, arcVars, netVars>>
  BY DEF BeginDecode
<1> HIDE DEF x
<1>4. Allocates(x, [Blank EXCEPT !.fwd = 0])
  BY <1>3, NewStateAllocates DEF CreateStartState, SimpleCreateStartState
<1>5. node'[x].fwd = 0
  BY <1>4 DEF Allocates, Shape, Blank
<1>6. token' = [token EXCEPT ![q] = t] /\ JoinActiveStates(q)
  BY <1>2, <1>3 DEF Activate
<1>7. Arrives(q, x)
  BY <1>2, <1>4, <1>5, <1>6, AllocatesArrives
<1>8. net' = net /\ class' = class
  BY <1>3 DEF netVars
<1>9. /\ DOMAIN token' = States' /\ position' \in [States' -> Int]
      /\ activeStates' \in Seq(States' \cup {Null}) /\ Full(activeStates')
      /\ usedList' \in Seq(LS) /\ DOMAIN node' = LS
      /\ StateSlots' /\ OwnStates'
  BY <1>1, <1>2, <1>7, <1>8, ArrivesKeeps
<1>10. /\ DOMAIN loc' = {"at", "i", "j", "best", "threshold", "state", "cost"}
       /\ loc'.at = "epsilon" /\ loc'.i = 1 /\ loc'.j = 0
  BY <1>3, GotoLoc
<1>11. Shape'
  BY <1>3, <1>8, <1>9, <1>10 DEF Shape, arcVars, ArcIds
<1>12. EmptySlots' /\ Queue'
  BY <1>1, <1>3, <1>8, <1>9, <1>10 DEF EmptySlots, Queue, Full, epsVars, arcVars, States
<1>13. QED
  BY <1>3, <1>8, <1>9, <1>11, <1>12, ArcsFrame

LEMMA NextFrameSInv ==
  ASSUME SInv, NextFrame
  PROVE  SInv'
<1> USE DEF SInv
<1>1. loc.at = "frame" /\ UNCHANGED <<latticeVars, stateVars, epsVars, arcVars, netVars>>
  BY DEF NextFrame
<1>2. PICK at \in {"end", "states"} : \E threshold : Goto(at, threshold)
  BY DEF NextFrame
<1>3. /\ DOMAIN loc' = {"at", "i", "j", "best", "threshold", "state", "cost"}
      /\ loc'.at = at /\ loc'.i = 1 /\ loc'.j = 0
  BY <1>2, GotoLoc
<1>4. EmptySlots'
  BY <1>1, <1>2, <1>3 DEF EmptySlots, Full, stateVars, arcVars, Shape
<1>5. Queue'
  BY <1>1, <1>2, <1>3 DEF Queue, epsVars, netVars, States
<1>6. QED
  BY <1>1, <1>3, <1>4, <1>5, ControlKeeps

-----------------------------------------------------------------------------
(* ExpandEpsilonArcs *)

LEMMA QueueStatesSInv ==
  ASSUME SInv, QueueStates
  PROVE  SInv'
<1> DEFINE M == {q \in States : EpsilonArcs(q) # <<>>}
           L == States \cup {Null}
<1> USE DEF SInv
<1>1. /\ loc.at = "epsilon" /\ epsQueue' = Compact(activeStates, M)
      /\ UNCHANGED <<latticeVars, stateVars, arcVars, netVars>>
      /\ loc' = [loc EXCEPT !.at = "pop", !.threshold = MaxCost,
                   !.best = Min({MaxCost} \cup {token[q].cost : q \in Range(activeStates)})]
  BY DEF QueueStates, uttVars
<1>2. /\ DOMAIN loc' = {"at", "i", "j", "best", "threshold", "state", "cost"}
      /\ loc'.at = "pop" /\ loc'.i = loc.i /\ loc'.j = loc.j
  BY <1>1 DEF Shape
<1>3. activeStates \in Seq(L) /\ Null \notin States
  BY NetworkShape DEF Shape, Null
<1>4. epsQueue' \in Seq(States)
  <2>1. L \cap M \subseteq States
    BY <1>3
  <2> HIDE DEF L, M
  <2>2. epsQueue' \in Seq(L \cap M)
    BY <1>1, <1>3, CompactType
  <2>3. QED
    BY <2>1, <2>2
<1>5. \A k \in DOMAIN epsQueue' : \E i \in 1 .. Len(activeStates) : epsQueue'[k] = activeStates[i]
  <2> HIDE DEF L, M
  <2>1. DOMAIN epsQueue' = 1 .. Rank(activeStates, M, Len(activeStates))
    BY <1>1, <1>3, <1>4, CompactPositions
  <2>2. QED
    BY <1>1, <1>3, <2>1, CompactPositions
<1>6. \A k \in DOMAIN epsQueue' : Active(token[epsQueue'[k]])
  <2>1. TAKE k \in DOMAIN epsQueue'
  <2>2. PICK i \in 1 .. Len(activeStates) : epsQueue'[k] = activeStates[i]
    BY <1>5
  <2>3. i \in DOMAIN activeStates /\ epsQueue'[k] \in States /\ epsQueue'[k] # Null
    BY <1>3, <1>4
  <2>4. position[epsQueue'[k]] = i - 1 /\ i \in Nat \ {0}
    BY <2>2, <2>3 DEF StateSlots
  <2>5. QED
    BY <2>3, <2>4 DEF StateSlots
<1>7. Queue'
  BY <1>1, <1>2, <1>4, <1>6 DEF Queue, stateVars, netVars, States
<1>8. EmptySlots'
  BY <1>1, <1>2 DEF EmptySlots, Full, stateVars, arcVars
<1>9. QED
  BY <1>1, <1>2, <1>7, <1>8, ControlKeeps DEF Shape

LEMMA PopStateSInv ==
  ASSUME SInv, PopState
  PROVE  SInv'
<1> DEFINE q == Head(epsQueue)
<1> USE DEF SInv
<1>1. /\ loc.at = "pop" /\ epsQueue # <<>> /\ epsQueue' = Tail(epsQueue)
      /\ UNCHANGED <<latticeVars, stateVars, arcVars, netVars>>
      /\ \/ loc' = loc
         \/ loc' = [loc EXCEPT !.at = "relax", !.state = q, !.i = 1, !.cost = MaxCost]
  BY DEF PopState, uttVars
<1>2. /\ DOMAIN loc' = {"at", "i", "j", "best", "threshold", "state", "cost"}
      /\ loc'.i \in Nat \ {0} /\ loc'.j = loc.j
      /\ loc'.at = "pop" \/ (loc'.at = "relax" /\ loc'.state = q)
  <2> HIDE DEF q
  <2>1. CASE loc' = loc
    BY <1>1, <2>1 DEF Shape
  <2>2. CASE loc' = [loc EXCEPT !.at = "relax", !.state = q, !.i = 1, !.cost = MaxCost]
    BY <2>2 DEF Shape
  <2>3. QED
    BY <1>1, <2>1, <2>2
<1>3. /\ epsQueue' \in Seq(States) /\ q \in States /\ Active(token[q])
      /\ \A i \in DOMAIN epsQueue' : Active(token[epsQueue'[i]])
  <2>1. epsQueue \in Seq(States) /\ \A i \in 1 .. Len(epsQueue) : Active(token[epsQueue[i]])
    BY <1>1 DEF Queue
  <2>2. Len(epsQueue) \in Nat /\ Len(epsQueue) # 0 /\ q = epsQueue[1]
    BY <1>1, <2>1
  <2>3. /\ epsQueue' \in Seq(States) /\ DOMAIN epsQueue' = 1 .. Len(epsQueue) - 1
        /\ \A i \in 1 .. Len(epsQueue) - 1 : epsQueue'[i] = epsQueue[i + 1]
    BY <1>1, <2>1, <2>2
  <2>4. QED
    BY <2>1, <2>2, <2>3
<1>4. Queue'
  BY <1>1, <1>2, <1>3 DEF Queue, stateVars, netVars, States
<1>5. EmptySlots'
  BY <1>1, <1>2 DEF EmptySlots, Full, stateVars, arcVars
<1>6. QED
  BY <1>1, <1>2, <1>4, <1>5, ControlKeeps DEF Shape

LEMMA EndRelaxSInv ==
  ASSUME SInv, EndRelax \/ EndEpsilon
  PROVE  SInv'
<1> USE DEF SInv
<1>1. CASE EndRelax
  <2>1. /\ loc.at = "relax" /\ UNCHANGED <<latticeVars, stateVars, epsVars, arcVars, netVars>>
        /\ \/ loc' = [loc EXCEPT !.at = "pop", !.best = loc.cost, !.threshold = Plus(loc.cost, Beam)]
           \/ loc' = [loc EXCEPT !.at = "pop"]
    BY <1>1 DEF EndRelax, uttVars
  <2>2. /\ DOMAIN loc' = {"at", "i", "j", "best", "threshold", "state", "cost"}
        /\ loc'.at = "pop" /\ loc'.i = loc.i /\ loc'.j = loc.j
    BY <2>1 DEF Shape
  <2>3. EmptySlots' /\ Queue'
    BY <2>1, <2>2 DEF EmptySlots, Queue, Full, stateVars, arcVars, epsVars, netVars, States
  <2>4. QED
    BY <2>1, <2>2, <2>3, ControlKeeps DEF Shape
<1>2. CASE EndEpsilon
  <2>1. loc.at = "pop" /\ UNCHANGED <<latticeVars, stateVars, epsVars, arcVars, netVars>>
        /\ Goto("frame", MaxCost)
    BY <1>2 DEF EndEpsilon
  <2>2. /\ DOMAIN loc' = {"at", "i", "j", "best", "threshold", "state", "cost"}
        /\ loc'.at = "frame" /\ loc'.i = 1 /\ loc'.j = 0
    BY <2>1, GotoLoc
  <2>3. EmptySlots' /\ Queue'
    BY <2>1, <2>2 DEF EmptySlots, Queue, Full, stateVars, arcVars, epsVars, netVars, States
  <2>4. QED
    BY <2>1, <2>2, <2>3, ControlKeeps
<1>3. QED
  BY <1>1, <1>2

LEMMA RelaxArcSInv ==
  ASSUME SInv, RelaxArc
  PROVE  SInv'
<1> DEFINE a == EpsilonArcs(loc.state)[loc.i]
           dst == net.arcs[a].dst
           cost == Plus(token[loc.state].cost, net.arcs[a].weight)
<1> USE DEF SInv
<1>1. loc.at = "relax" /\ loc.state \in States /\ loc.i \in 1 .. Len(EpsilonArcs(loc.state))
      /\ UNCHANGED <<arcVars, netVars>>
  <2>1. Len(EpsilonArcs(loc.state)) \in Nat
    BY EpsilonArcsShape DEF RelaxArc, Queue, Shape
  <2>2. QED
    BY <2>1 DEF RelaxArc, Queue, Shape, uttVars
<1>2. a \in ArcIds /\ dst \in States
  <2>1. a \in ArcIds
    BY <1>1, EpsilonArcsShape DEF Shape
  <2>2. QED
    BY <2>1, NetworkShape DEF Shape
<1>3. /\ DOMAIN loc' = {"at", "i", "j", "best", "threshold", "state", "cost"}
      /\ loc'.at = "relax" /\ loc'.i = loc.i + 1 /\ loc'.j = loc.j /\ loc'.state = loc.state
  <2>1. \/ \E c : loc' = [loc EXCEPT !.i = @ + 1, !.cost = c]
        \/ loc' = [loc EXCEPT !.i = @ + 1]
    BY DEF RelaxArc
  <2>2. QED
    BY <1>1, <2>1 DEF Shape
<1>4. CASE ExpandToFollowingState(a, token[loc.state].tb, cost) /\ Enqueue(dst)
  <2>1. PICK tb : Arrives(dst, tb)
    BY <1>1, <1>2, <1>4, SetTokenArrives DEF ExpandToFollowingState
  <2>2. net' = net /\ class' = class /\ Full(activeStates)
    BY <1>1 DEF netVars, EmptySlots
  <2>3. /\ DOMAIN token' = States' /\ position' \in [States' -> Int]
        /\ activeStates' \in Seq(States' \cup {Null}) /\ Full(activeStates')
        /\ usedList' \in Seq(LS) /\ DOMAIN node' = LS
        /\ StateSlots' /\ OwnStates'
        /\ \A p \in States : Active(token[p]) \/ p = dst => Active(token'[p])
    BY <1>1, <1>2, <2>1, <2>2, ArrivesKeeps
  <2>4. Shape'
    BY <1>1, <1>3, <2>2, <2>3 DEF Shape, arcVars, ArcIds
  <2>5. EmptySlots'
    BY <1>1, <1>3, <2>3 DEF EmptySlots, Full, arcVars
  <2>6. epsQueue' \in Seq(States) /\ \A i \in DOMAIN epsQueue' : Active(token'[epsQueue'[i]])
    <3> DEFINE n == Len(epsQueue)
    <3>1. epsQueue \in Seq(States) /\ \A i \in 1 .. n : epsQueue[i] \in States /\ Active(token[epsQueue[i]])
      BY <1>1 DEF Queue
    <3>2. CASE epsQueue' = epsQueue
      BY <2>3, <3>1, <3>2
    <3>3. CASE epsQueue' = Append(epsQueue, dst)
      <4>1. /\ epsQueue' \in Seq(States) /\ DOMAIN epsQueue' = 1 .. n + 1 /\ n \in Nat
            /\ epsQueue'[n + 1] = dst /\ \A i \in 1 .. n : epsQueue'[i] = epsQueue[i]
        BY <1>2, <3>1, <3>3
      <4> HIDE DEF n, dst
      <4>2. QED
        BY <1>2, <2>3, <3>1, <4>1
    <3>4. QED
      BY <1>4, <3>2, <3>3 DEF Enqueue, epsVars
  <2>7. Queue'
    BY <1>1, <1>3, <2>2, <2>3, <2>6 DEF Queue, States
  <2>8. QED
    BY <1>1, <2>2, <2>3, <2>4, <2>5, <2>7, ArcsFrame
<1>5. CASE UNCHANGED <<latticeVars, stateVars, epsVars>>
  <2>1. EmptySlots' /\ Queue'
    BY <1>1, <1>3, <1>5 DEF EmptySlots, Queue, Full, stateVars, arcVars, epsVars, netVars, States
  <2>2. QED
    BY <1>1, <1>3, <1>5, <2>1, ControlKeeps DEF Shape
<1>6. QED
  BY <1>4, <1>5 DEF RelaxArc

-----------------------------------------------------------------------------
(* ExpandActiveStates and the collection *)

\* The elements of a concatenation, by position.
Joined(s, t, r) ==
  /\ Len(s) \in Nat /\ Len(t) \in Nat
  /\ DOMAIN s = 1 .. Len(s) /\ DOMAIN t = 1 .. Len(t) /\ DOMAIN r = 1 .. Len(s) + Len(t)
  /\ \A i \in 1 .. Len(s) : i \in 1 .. Len(s) + Len(t) /\ r[i] = s[i]
  /\ \A k \in 1 .. Len(t) : Len(s) + k \in 1 .. Len(s) + Len(t) /\ r[Len(s) + k] = t[k]
  /\ \A i \in 1 .. Len(s) + Len(t) : i \notin 1 .. Len(s) => i - Len(s) \in 1 .. Len(t) /\ r[i] = t[i - Len(s)]

LEMMA ConcatShape ==
  ASSUME NEW S, NEW s \in Seq(S), NEW t \in Seq(S)
  PROVE  s \o t \in Seq(S) /\ Joined(s, t, s \o t)
  BY DEF Joined

\* The arcs a token enters are listed once each.
LEMMA EnteredShape ==
  ASSUME Shape, NEW q \in States, NEW threshold
  PROVE  LET entered == ExpandIntoArcs(q, threshold)
         IN  /\ entered \in Seq(ArcIds)
             /\ \A i, k \in DOMAIN entered : entered[i] = entered[k] => i = k
<1> DEFINE arcs == EmittingArcs(q)
           M == {a \in ArcIds : Plus(token[q].cost, net.arcs[a].weight) < threshold}
<1>1. arcs = ArcsInOrder(net, FALSE)[q]
  BY DEF EmittingArcs, EmittingArcsOf, Shape
<1>2. arcs \in Seq(ArcIds) /\ \A i, k \in 1 .. Len(arcs) : arcs[i] = arcs[k] => i = k
  <2> HIDE DEF arcs
  <2> QED BY <1>1, ArcsInOrderShape DEF Shape
<1>3. ExpandIntoArcs(q, threshold) = Compact(arcs, M)
  BY DEF ExpandIntoArcs
<1> HIDE DEF arcs, M
<1>4. \A i, k \in DOMAIN arcs : arcs[i] = arcs[k] => i = k
  BY <1>2
<1>5. Compact(arcs, M) \in Seq(ArcIds)
  BY <1>2, CompactPositions
<1>6. QED
  BY <1>2, <1>3, <1>4, <1>5, CompactInjective

\* The arcs of a list without duplicates that were not active join active_arcs_.
LEMMA EnterArcs ==
  ASSUME Shape, ArcSlots, net' = net, NEW entered \in Seq(ArcIds),
         \A i, k \in DOMAIN entered : entered[i] = entered[k] => i = k,
         arcActive' = [a \in ArcIds |-> arcActive[a] \/ a \in Range(entered)],
         activeArcs' = activeArcs \o Compact(entered, {a \in ArcIds : ~arcActive[a]}),
         DOMAIN tokens' = ArcIds, \A a \in ArcIds : a \notin Range(entered) => tokens'[a] = tokens[a]
  PROVE  /\ DOMAIN tokens' = ArcIds' /\ arcActive' \in [ArcIds' -> BOOLEAN]
         /\ activeArcs' \in Seq(ArcIds' \cup {Null})
         /\ ArcSlots'
         /\ Full(activeArcs) => Full(activeArcs')
<1> DEFINE M == {a \in ArcIds : ~arcActive[a]}
           new == Compact(entered, M)
           L == ArcIds \cup {Null}
           n == Len(activeArcs)
           m == Len(new)
<1>1. ArcIds' = ArcIds /\ Null \notin ArcIds
  BY NetworkShape DEF ArcIds, Shape, Null
<1>2. /\ new \in Seq(ArcIds)
      /\ {new[k] : k \in DOMAIN new} = {entered[i] : i \in DOMAIN entered} \cap M
      /\ \A i, k \in DOMAIN new : new[i] = new[k] => i = k
  <2> HIDE DEF M
  <2>1. new \in Seq(ArcIds)
    BY CompactPositions
  <2>2. {new[k] : k \in DOMAIN new} = {entered[i] : i \in DOMAIN entered} \cap M
    BY CompactRange
  <2>3. \A i, k \in DOMAIN new : new[i] = new[k] => i = k
    BY CompactInjective
  <2>4. QED
    BY <2>1, <2>2, <2>3
<1>3. m \in Nat /\ DOMAIN new = 1 .. m
  <2> HIDE DEF new
  <2> QED BY <1>2
<1>4. \A a \in ArcIds : a \in Range(entered) /\ ~arcActive[a] => \E k \in 1 .. m : new[k] = a
  <2>1. \A a \in ArcIds : a \in Range(entered) /\ ~arcActive[a] => a \in {entered[i] : i \in DOMAIN entered} \cap M
    BY DEF Range
  <2> HIDE DEF new, M
  <2>2. QED
    BY <1>2, <1>3, <2>1
<1>5. \A k \in 1 .. m : new[k] \in ArcIds /\ new[k] \in Range(entered) /\ ~arcActive[new[k]]
  <2>1. \A k \in 1 .. m : new[k] \in {entered[i] : i \in DOMAIN entered} \cap M
    <3> HIDE DEF new, M
    <3> QED BY <1>2, <1>3
  <2> HIDE DEF new
  <2>2. QED
    BY <2>1 DEF Range
<1>6. /\ activeArcs' \in Seq(L) /\ n \in Nat /\ DOMAIN activeArcs = 1 .. n /\ DOMAIN activeArcs' = 1 .. n + m
      /\ \A i \in 1 .. n : i \in 1 .. n + m /\ activeArcs'[i] = activeArcs[i]
      /\ \A k \in 1 .. m : n + k \in 1 .. n + m /\ activeArcs'[n + k] = new[k]
      /\ \A i \in 1 .. n + m : i \notin 1 .. n => i - n \in 1 .. m /\ activeArcs'[i] = new[i - n]
  <2>1. activeArcs \in Seq(L) /\ new \in Seq(L) /\ activeArcs' = activeArcs \o new
    <3>1. activeArcs \in Seq(L) /\ ArcIds \subseteq L
      BY DEF Shape
    <3>2. new \in Seq(L)
      <4> HIDE DEF new, L
      <4> QED BY <1>2, <3>1
    <3>3. QED
      BY <3>1, <3>2
  <2> HIDE DEF L, new
  <2>2. activeArcs' \in Seq(L) /\ Joined(activeArcs, new, activeArcs')
    BY <2>1, ConcatShape
  <2>3. QED
    BY <2>2 DEF Joined
<1> HIDE DEF new, M, m, n
<1>7. \A i \in 1 .. n + m : activeArcs'[i] # Null =>
         \/ i \in 1 .. n /\ activeArcs'[i] = activeArcs[i] /\ arcActive[activeArcs[i]]
         \/ i - n \in 1 .. m /\ activeArcs'[i] = new[i - n] /\ ~arcActive[new[i - n]]
  BY <1>5, <1>6 DEF ArcSlots
<1>8. ArcSlots'
  <2>1. \A a \in ArcIds : arcActive'[a] => \E i \in 1 .. n + m : activeArcs'[i] = a
    <3>1. \A a \in ArcIds : arcActive[a] => \E i \in 1 .. n + m : activeArcs'[i] = a
      <4>1. \A a \in ArcIds : arcActive[a] => \E i \in 1 .. n : activeArcs[i] = a
        BY <1>6 DEF ArcSlots
      <4>2. TAKE a \in ArcIds
      <4>3. HAVE arcActive[a]
      <4>4. PICK i \in 1 .. n : activeArcs[i] = a
        BY <4>1, <4>3
      <4>5. i \in 1 .. n + m /\ activeArcs'[i] = a
        BY <1>6, <4>4
      <4>6. QED
        BY <4>5
    <3>2. ASSUME NEW a \in ArcIds, a \in Range(entered), ~arcActive[a]
          PROVE  \E i \in 1 .. n + m : activeArcs'[i] = a
      <4>1. PICK k \in 1 .. m : new[k] = a
        BY <1>4, <3>2
      <4>2. n + k \in 1 .. n + m /\ activeArcs'[n + k] = a
        BY <1>6, <4>1
      <4>3. QED
        BY <4>2
    <3>3. QED
      BY <3>1, <3>2
  <2>2. \A i \in 1 .. n + m : activeArcs'[i] # Null => arcActive'[activeArcs'[i]]
    <3>1. \A i \in 1 .. n : activeArcs[i] # Null => activeArcs[i] \in ArcIds
      BY <1>6 DEF Shape
    <3>2. QED
      BY <1>5, <1>7, <3>1
  <2>3. \A i, k \in 1 .. n + m : activeArcs'[i] # Null /\ activeArcs'[i] = activeArcs'[k] => i = k
    <3>1. TAKE i, k \in 1 .. n + m
    <3>2. HAVE activeArcs'[i] # Null /\ activeArcs'[i] = activeArcs'[k]
    <3>3. CASE i \in 1 .. n /\ k \in 1 .. n
      <4>1. activeArcs[i] # Null /\ activeArcs[i] = activeArcs[k]
        BY <1>6, <3>2, <3>3
      <4>2. QED
        BY <1>6, <3>3, <4>1 DEF ArcSlots
    <3>4. CASE i \notin 1 .. n /\ k \notin 1 .. n
      <4>1. i - n \in 1 .. m /\ k - n \in 1 .. m /\ new[i - n] = new[k - n]
        BY <1>6, <3>2, <3>4
      <4>2. i - n = k - n
        BY <1>2, <1>3, <4>1
      <4>3. QED
        BY <1>3, <1>6, <4>2
    <3>5. CASE i \in 1 .. n /\ k \notin 1 .. n
      <4>1. activeArcs[i] # Null /\ activeArcs[i] = new[k - n] /\ k - n \in 1 .. m
        BY <1>6, <3>2, <3>5
      <4>2. arcActive[activeArcs[i]] /\ ~arcActive[new[k - n]]
        BY <1>5, <1>6, <3>5, <4>1 DEF ArcSlots
      <4>3. QED
        BY <4>1, <4>2
    <3>6. CASE i \notin 1 .. n /\ k \in 1 .. n
      <4>1. activeArcs[k] # Null /\ activeArcs[k] = new[i - n] /\ i - n \in 1 .. m
        BY <1>6, <3>2, <3>6
      <4>2. arcActive[activeArcs[k]] /\ ~arcActive[new[i - n]]
        BY <1>5, <1>6, <3>6, <4>1 DEF ArcSlots
      <4>3. QED
        BY <4>1, <4>2
    <3>7. QED
      BY <3>3, <3>4, <3>5, <3>6
  <2>4. \A a \in ArcIds : HeldBy(a)' # {} => arcActive'[a]
    <3>1. TAKE a \in ArcIds
    <3>2. HAVE HeldBy(a)' # {}
    <3>3. CASE a \in Range(entered)
      BY <3>3
    <3>4. CASE a \notin Range(entered)
      <4>1. HeldBy(a)' = HeldBy(a)
        BY <3>4 DEF HeldBy
      <4>2. QED
        BY <3>2, <4>1 DEF ArcSlots
    <3>5. QED
      BY <3>3, <3>4
  <2>5. /\ \A a \in ArcIds' : arcActive'[a] => \E i \in DOMAIN activeArcs' : activeArcs'[i] = a
        /\ \A i \in DOMAIN activeArcs' : activeArcs'[i] # Null => arcActive'[activeArcs'[i]]
        /\ \A i, k \in DOMAIN activeArcs' : activeArcs'[i] # Null /\ activeArcs'[i] = activeArcs'[k] => i = k
        /\ \A a \in ArcIds' : HeldBy(a)' # {} => arcActive'[a]
    <3>1. DOMAIN activeArcs' = 1 .. n + m
      BY <1>6
    <3>2. ArcIds' = ArcIds
      BY <1>1 DEF ArcIds
    <3>3. /\ \A a \in ArcIds' : arcActive'[a] => \E i \in DOMAIN activeArcs' : activeArcs'[i] = a
          /\ \A a \in ArcIds' : HeldBy(a)' # {} => arcActive'[a]
      BY <2>1, <2>4, <3>1, <3>2
    <3>4. /\ \A i \in DOMAIN activeArcs' : activeArcs'[i] # Null => arcActive'[activeArcs'[i]]
          /\ \A i, k \in DOMAIN activeArcs' : activeArcs'[i] # Null /\ activeArcs'[i] = activeArcs'[k] => i = k
      BY <2>2, <2>3, <3>1
    <3>5. QED
      BY <3>3, <3>4
  <2>6. QED
    BY <2>5 DEF ArcSlots
<1>9. ASSUME Full(activeArcs)
      PROVE  Full(activeArcs')
  <2>1. ASSUME NEW i \in 1 .. n + m
        PROVE  activeArcs'[i] # Null
    <3>1. CASE i \in 1 .. n
      <4>1. i \in DOMAIN activeArcs /\ activeArcs'[i] = activeArcs[i]
        BY <1>6, <3>1
      <4>2. QED
        BY <1>9, <4>1 DEF Full
    <3>2. CASE i \notin 1 .. n
      <4>1. i - n \in 1 .. m /\ activeArcs'[i] = new[i - n]
        BY <1>6, <3>2
      <4>2. new[i - n] \in ArcIds
        BY <1>5, <4>1
      <4>3. QED
        BY <1>1, <4>1, <4>2
    <3>3. QED
      BY <3>1, <3>2
  <2>2. QED
    BY <1>6, <2>1 DEF Full
<1>10. QED
  BY <1>1, <1>6, <1>8, <1>9

\* A search state taken off the list leaves the others where they were.
LEMMA DeactivateKeeps ==
  ASSUME Shape, StateSlots, net' = net, NEW i \in DOMAIN activeStates, activeStates[i] # Null, DeactivateState(i)
  PROVE  /\ DOMAIN token' = States' /\ position' \in [States' -> Int] /\ activeStates' \in Seq(States' \cup {Null})
         /\ StateSlots'
         /\ \A q \in States : token'[q] = IF q = activeStates[i] THEN Inactive ELSE token[q]
         /\ DOMAIN activeStates' = DOMAIN activeStates
         /\ \A k \in DOMAIN activeStates : activeStates'[k] = IF k = i THEN Null ELSE activeStates[k]
<1> DEFINE q == activeStates[i]
           L == States \cup {Null}
<1>1. States' = States /\ q \in States /\ position[q] = i - 1 /\ i \in Nat \ {0}
  BY DEF States, Shape, StateSlots
<1>2. /\ token' = [token EXCEPT ![q] = Inactive] /\ position' = [position EXCEPT ![q] = -1]
      /\ activeStates' = [activeStates EXCEPT ![i] = Null]
  BY DEF DeactivateState
<1>3. activeStates' \in Seq(L) /\ DOMAIN activeStates' = DOMAIN activeStates
  <2>1. activeStates \in Seq(L) /\ Null \in L
    BY DEF Shape
  <2> HIDE DEF L
  <2>2. QED
    BY <1>2, <2>1
<1>4. \A k \in DOMAIN activeStates : activeStates'[k] = IF k = i THEN Null ELSE activeStates[k]
  BY <1>2
<1>5. \A p \in States : token'[p] = IF p = q THEN Inactive ELSE token[p]
  BY <1>2 DEF Shape
<1>6. position' \in [States -> Int] /\ \A p \in States : position'[p] = IF p = q THEN -1 ELSE position[p]
  BY <1>2 DEF Shape
<1>7. StateSlots'
  <2> HIDE DEF q
  <2>1. ~Active(Inactive)
    BY DEF Active, Inactive
  <2>2. ASSUME NEW p \in States
        PROVE  /\ Active(token'[p]) <=> position'[p] # -1
               /\ position'[p] # -1 => position'[p] + 1 \in DOMAIN activeStates' /\ activeStates'[position'[p] + 1] = p
    <3>1. CASE p = q
      BY <1>5, <1>6, <2>1, <3>1
    <3>2. CASE p # q
      <4>1. token'[p] = token[p] /\ position'[p] = position[p]
        BY <1>5, <1>6, <3>2
      <4>2. ASSUME position[p] # -1
            PROVE  position[p] + 1 \in DOMAIN activeStates /\ activeStates'[position[p] + 1] = p
        <5>1. position[p] + 1 \in DOMAIN activeStates /\ activeStates[position[p] + 1] = p
          BY <4>2 DEF StateSlots
        <5>2. position[p] + 1 # i
          BY <3>2, <5>1 DEF q
        <5>3. QED
          BY <1>4, <5>1, <5>2
      <4>3. QED
        BY <1>3, <4>1, <4>2 DEF StateSlots
    <3>3. QED
      BY <3>1, <3>2
  <2>3. ASSUME NEW k \in DOMAIN activeStates, activeStates'[k] # Null
        PROVE  position'[activeStates'[k]] = k - 1
    <3>1. k # i /\ activeStates'[k] = activeStates[k] /\ activeStates[k] \in States
      BY <1>4, <2>3 DEF Shape
    <3>2. position[activeStates[k]] = k - 1 /\ k \in Nat /\ activeStates[k] # q
      BY <1>1, <2>3, <3>1 DEF StateSlots, Shape
    <3>3. QED
      BY <1>6, <3>1, <3>2
  <2>4. QED
    BY <1>1, <1>3, <2>2, <2>3 DEF StateSlots
<1>8. QED
  BY <1>1, <1>2, <1>3, <1>4, <1>5, <1>6, <1>7 DEF Shape

LEMMA ExpandActiveStateSInv ==
  ASSUME SInv, ExpandActiveState
  PROVE  SInv'
<1> DEFINE q == activeStates[loc.i]
           entered == IF token[q].cost > loc.threshold THEN <<>> ELSE ExpandIntoArcs(q, loc.threshold)
           entry(a) == SetEntryToken(a, token[q])
<1> USE DEF SInv
<1>1. /\ loc.at = "states" /\ loc.i \in DOMAIN activeStates /\ q # Null /\ q \in States
      /\ UNCHANGED <<latticeVars, epsVars, netVars>> /\ DeactivateState(loc.i)
  <2>1. /\ loc.at = "states" /\ loc.i <= Len(activeStates)
        /\ UNCHANGED <<latticeVars, epsVars, netVars>> /\ DeactivateState(loc.i)
    BY DEF ExpandActiveState, uttVars
  <2>2. loc.i \in DOMAIN activeStates
    BY <2>1 DEF Shape
  <2>3. q # Null
    BY <2>1, <2>2 DEF EmptySlots
  <2>4. q \in States
    BY <2>2, <2>3 DEF Shape
  <2>5. QED
    BY <2>1, <2>2, <2>3, <2>4
<1>2. /\ tokens' = [a \in ArcIds |-> IF a \in Range(entered) THEN entry(a) ELSE tokens[a]]
      /\ arcActive' = [a \in ArcIds |-> arcActive[a] \/ a \in Range(entered)]
      /\ activeArcs' = activeArcs \o Compact(entered, {a \in ArcIds : ~arcActive[a]})
      /\ \E th : loc' = [loc EXCEPT !.i = @ + 1, !.threshold = th]
  BY DEF ExpandActiveState
<1>3. /\ DOMAIN loc' = {"at", "i", "j", "best", "threshold", "state", "cost"}
      /\ loc'.at = "states" /\ loc'.i = loc.i + 1 /\ loc'.j = loc.j
  BY <1>1, <1>2 DEF Shape
<1>4. entered \in Seq(ArcIds) /\ \A i, k \in DOMAIN entered : entered[i] = entered[k] => i = k
  <2>1. CASE token[q].cost > loc.threshold
    BY <2>1
  <2>2. CASE ~(token[q].cost > loc.threshold)
    <3>1. entered = ExpandIntoArcs(q, loc.threshold)
      BY <2>2
    <3> HIDE DEF entered, q
    <3>2. QED
      BY <1>1, <3>1, EnteredShape
  <2>3. QED
    BY <2>1, <2>2
<1> HIDE DEF entered
<1>5. net' = net /\ class' = class /\ \A a \in ArcIds : a \notin Range(entered) => tokens'[a] = tokens[a]
  BY <1>1, <1>2 DEF netVars
<1>6. /\ DOMAIN tokens' = ArcIds' /\ arcActive' \in [ArcIds' -> BOOLEAN] /\ activeArcs' \in Seq(ArcIds' \cup {Null})
      /\ ArcSlots' /\ Full(activeArcs')
  BY <1>1, <1>2, <1>4, <1>5, EnterArcs DEF EmptySlots
<1>7. /\ DOMAIN token' = States' /\ position' \in [States' -> Int] /\ activeStates' \in Seq(States' \cup {Null})
      /\ StateSlots'
      /\ \A p \in States : token'[p] = IF p = q THEN Inactive ELSE token[p]
      /\ DOMAIN activeStates' = DOMAIN activeStates
      /\ \A k \in DOMAIN activeStates : activeStates'[k] = IF k = loc.i THEN Null ELSE activeStates[k]
  BY <1>1, <1>5, DeactivateKeeps
<1> HIDE DEF q
<1>8. Shape'
  BY <1>1, <1>3, <1>5, <1>6, <1>7 DEF Shape, latticeVars
<1>9. EmptySlots'
  <2>1. \A k \in DOMAIN activeStates : activeStates'[k] = Null <=> k < loc.i + 1
    <3>1. \A k \in DOMAIN activeStates : k \in Nat
      BY DEF Shape
    <3>2. QED
      BY <1>1, <1>7, <3>1 DEF EmptySlots, Shape
  <2>2. QED
    BY <1>3, <1>6, <1>7, <2>1 DEF EmptySlots
<1>10. Queue'
  BY <1>1, <1>3, <1>5 DEF Queue, epsVars, States
<1>11. OwnStates'
  <2>1. \A p \in States : Active(token'[p]) => token'[p] = token[p]
    BY <1>7 DEF Active, Inactive
  <2>2. \A p \in States : token'[p].tb # NoLS => token'[p].tb = token[p].tb
    BY <2>1 DEF Active
  <2>3. QED
    BY <1>1, <1>5, <2>1, <2>2 DEF OwnStates, latticeVars, States, Used, Active
<1>12. QED
  BY <1>6, <1>7, <1>8, <1>9, <1>10, <1>11

LEMMA EndStatesSInv ==
  ASSUME SInv, EndStates
  PROVE  SInv'
<1> USE DEF SInv
<1>1. /\ loc.at = "states" /\ loc.i > Len(activeStates) /\ activeStates' = <<>>
      /\ UNCHANGED <<latticeVars, token, position, epsVars, arcVars, netVars>>
  BY DEF EndStates, uttVars
<1>2. PICK at \in {"gc", "arcs"} : Goto(at, MaxCost)
  BY DEF EndStates
<1>3. /\ DOMAIN loc' = {"at", "i", "j", "best", "threshold", "state", "cost"}
      /\ loc'.at = at /\ loc'.i = 1 /\ loc'.j = 0
  BY <1>2, GotoLoc
<1>4. \A q \in States : position[q] = -1
  <2>1. \A i \in DOMAIN activeStates : activeStates[i] = Null
    BY <1>1 DEF EmptySlots, Shape
  <2>2. Null \notin States
    BY NetworkShape DEF Shape, Null
  <2>3. QED
    BY <2>1, <2>2 DEF StateSlots
<1>5. net' = net /\ class' = class /\ States' = States
  BY <1>1 DEF netVars, States
<1>6. Shape'
  BY <1>1, <1>3, <1>5 DEF Shape, latticeVars, arcVars, ArcIds
<1>7. StateSlots'
  BY <1>1, <1>4, <1>5 DEF StateSlots
<1>8. EmptySlots'
  <2>1. Full(activeArcs) /\ activeArcs' = activeArcs /\ Len(activeArcs) \in Nat
    BY <1>1 DEF EmptySlots, Shape, arcVars
  <2>2. \A i \in DOMAIN activeArcs : i \in Nat
    BY DEF Shape
  <2>3. QED
    BY <1>1, <1>2, <1>3, <2>1, <2>2 DEF EmptySlots, Full
<1>9. Queue' /\ OwnStates'
  BY <1>1, <1>2, <1>3, <1>5, LatticeFrame DEF Queue, epsVars
<1>10. QED
  BY <1>1, <1>5, <1>6, <1>7, <1>8, <1>9, ArcsFrame

\* A sweep keeps the marked states that were in use, and pools only others.
LEMMA SweepKeeps ==
  ASSUME usedList \in Seq(LS), NEW M, Sweep(M)
  PROVE  /\ usedList' \in Seq(LS) /\ Used' = Used \cap M /\ node' = node
         /\ pool \subseteq LS /\ Used \cap pool = {} => pool' \subseteq LS /\ Used' \cap pool' = {}
<1>1. usedList' = Compact(usedList, M) /\ node' = node
      /\ pool' = IF UsePool THEN pool \cup (Used \ M) ELSE pool
  BY DEF Sweep, SweepStates
<1>2. usedList' \in Seq(LS) /\ Used' = Used \cap M
  BY <1>1, CompactPositions, CompactRange DEF Used
<1>3. Used \subseteq LS
  BY DEF Used
<1>4. QED
  BY <1>1, <1>2, <1>3

\* Between the two loops no search state has a token.
LEMMA NoStateTokens ==
  ASSUME StateSlots, activeStates = <<>>
  PROVE  \A q \in States : ~Active(token[q])
  BY DEF StateSlots

LEMMA GcSInv ==
  ASSUME SInv, Gc
  PROVE  SInv'
<1> USE DEF SInv
<1>1. /\ loc.at = "gc" /\ UNCHANGED <<stateVars, epsVars, arcVars, netVars>> /\ Goto("arcs", MaxCost)
      /\ \E roots : CollectFrom(roots)
  BY DEF Gc, uttVars
<1>2. /\ DOMAIN loc' = {"at", "i", "j", "best", "threshold", "state", "cost"}
      /\ loc'.at = "arcs" /\ loc'.i = 1 /\ loc'.j = 0
  BY <1>1, GotoLoc
<1>3. /\ usedList' \in Seq(LS) /\ DOMAIN node' = LS
      /\ class = "Lattice" => pool' \subseteq LS /\ Used' \cap pool' = {}
  <2>1. CASE class = "Lattice"
    <3>1. PICK M : Sweep(M)
      BY <1>1, <2>1 DEF CollectFrom
    <3>2. QED
      BY <2>1, <3>1, SweepKeeps DEF Shape, OwnStates
  <2>2. CASE class # "Lattice"
    BY <1>1, <2>2 DEF CollectFrom, SimpleSweep, latticeVars, Shape
  <2>3. QED
    BY <2>1, <2>2
<1>4. net' = net /\ class' = class /\ States' = States
  BY <1>1 DEF netVars, States
<1>5. Shape'
  BY <1>1, <1>2, <1>3, <1>4 DEF Shape, stateVars, arcVars, ArcIds
<1>6. \A q \in States' : ~Active(token'[q])
  BY <1>1, <1>4, NoStateTokens DEF EmptySlots, stateVars
<1>7. EmptySlots'
  <2>1. \A i \in DOMAIN activeArcs : i \in Nat
    BY DEF Shape
  <2>2. Len(activeArcs) \in Nat
    BY DEF Shape
  <2>3. QED
    BY <1>1, <1>2, <2>1, <2>2 DEF EmptySlots, Full, stateVars, arcVars
<1>8. Queue' /\ OwnStates'
  BY <1>1, <1>2, <1>3, <1>4, <1>6 DEF Queue, OwnStates, epsVars
<1>9. QED
  BY <1>1, <1>4, <1>5, <1>7, <1>8, StatesFrame, ArcsFrame

-----------------------------------------------------------------------------
(* ExpandActiveArcs *)

\* Emptying the slot of an arc and clearing the arc.
LEMMA RemoveArc ==
  ASSUME Shape, ArcSlots, net' = net, NEW i \in DOMAIN activeArcs, NEW a \in ArcIds, activeArcs[i] = a,
         DeactivateArc(a), activeArcs' = [activeArcs EXCEPT ![i] = Null]
  PROVE  /\ DOMAIN tokens' = ArcIds' /\ arcActive' \in [ArcIds' -> BOOLEAN]
         /\ activeArcs' \in Seq(ArcIds' \cup {Null}) /\ Len(activeArcs') = Len(activeArcs)
         /\ DOMAIN activeArcs' = DOMAIN activeArcs
         /\ \A k \in DOMAIN activeArcs : activeArcs'[k] = IF k = i THEN Null ELSE activeArcs[k]
         /\ ArcSlots'
<1> DEFINE L == ArcIds \cup {Null}
<1>1. ArcIds' = ArcIds /\ Null \notin ArcIds
  BY NetworkShape DEF ArcIds, Shape, Null
<1>2. /\ tokens' = [tokens EXCEPT ![a] = NoTokens(Hmm(a))] /\ arcActive' = [arcActive EXCEPT ![a] = FALSE]
  BY DEF DeactivateArc
<1>3. /\ activeArcs' \in Seq(L) /\ DOMAIN activeArcs' = DOMAIN activeArcs /\ Len(activeArcs') = Len(activeArcs)
      /\ \A k \in DOMAIN activeArcs : activeArcs'[k] = IF k = i THEN Null ELSE activeArcs[k]
  <2>1. activeArcs \in Seq(L) /\ Null \in L
    BY DEF Shape
  <2> HIDE DEF L
  <2>2. QED
    BY <2>1
<1>4. HeldBy(a)' = {}
  <2>1. tokens'[a] = NoTokens(Hmm(a))
    BY <1>1, <1>2 DEF Shape
  <2>2. QED
    BY <2>1 DEF HeldBy, NoTokens, Inactive
<1>5. ASSUME NEW b \in ArcIds, b # a
      PROVE  HeldBy(b)' = HeldBy(b) /\ arcActive'[b] = arcActive[b]
  BY <1>2, <1>5 DEF HeldBy, Shape
<1>6. arcActive' \in [ArcIds -> BOOLEAN] /\ arcActive'[a] = FALSE
  BY <1>1, <1>2 DEF Shape
<1>7. \A b \in ArcIds : arcActive'[b] => \E k \in DOMAIN activeArcs : activeArcs'[k] = b
  <2>1. TAKE b \in ArcIds
  <2>2. HAVE arcActive'[b]
  <2>3. b # a /\ arcActive[b]
    BY <1>5, <1>6, <2>2
  <2>4. PICK k \in DOMAIN activeArcs : activeArcs[k] = b
    BY <2>3 DEF ArcSlots
  <2>5. activeArcs'[k] = b
    BY <1>3, <2>3, <2>4
  <2>6. QED
    BY <2>5
<1>8. \A k \in DOMAIN activeArcs : activeArcs'[k] # Null =>
         k # i /\ activeArcs'[k] = activeArcs[k] /\ activeArcs[k] # a /\ activeArcs[k] \in ArcIds
  BY <1>1, <1>3 DEF ArcSlots, Shape
<1>9. ArcSlots'
  <2>1. \A k \in DOMAIN activeArcs : activeArcs'[k] # Null => arcActive'[activeArcs'[k]]
    BY <1>5, <1>8 DEF ArcSlots
  <2>2. \A k, l \in DOMAIN activeArcs : activeArcs'[k] # Null /\ activeArcs'[k] = activeArcs'[l] => k = l
    BY <1>8 DEF ArcSlots
  <2>3. \A b \in ArcIds : HeldBy(b)' # {} => arcActive'[b]
    BY <1>4, <1>5 DEF ArcSlots
  <2>4. QED
    BY <1>1, <1>3, <1>7, <2>1, <2>2, <2>3 DEF ArcSlots
<1>10. QED
  BY <1>1, <1>2, <1>3, <1>6, <1>9 DEF Shape

LEMMA ExpandActiveArcSInv ==
  ASSUME SInv, ExpandActiveArc
  PROVE  SInv'
<1> DEFINE a == activeArcs[loc.i]
           r == Expand(Hmm(a), tokens[a], utt[frame + 1], loc.threshold)
<1> USE DEF SInv
<1>1. /\ loc.at = "arcs" /\ loc.i \in DOMAIN activeArcs /\ a # Null /\ a \in ArcIds
      /\ UNCHANGED <<latticeVars, stateVars, epsVars, netVars>>
  BY DEF ExpandActiveArc, EmptySlots, Shape, uttVars
<1>2. net' = net /\ class' = class
  BY <1>1 DEF netVars
<1>3. /\ DOMAIN loc' = {"at", "i", "j", "best", "threshold", "state", "cost"}
      /\ loc'.at = "arcs" /\ loc'.i = loc.i + 1 /\ loc'.j \in {loc.j, loc.i}
  <2> HIDE DEF r
  <2>1. \/ loc' = [loc EXCEPT !.i = @ + 1]
        \/ loc' = [loc EXCEPT !.i = @ + 1, !.j = loc.i, !.best = r.best, !.threshold = Plus(r.best, Beam)]
    BY DEF ExpandActiveArc, r
  <2>2. CASE loc' = [loc EXCEPT !.i = @ + 1]
    BY <1>1, <2>2 DEF Shape
  <2>3. CASE loc' = [loc EXCEPT !.i = @ + 1, !.j = loc.i, !.best = r.best, !.threshold = Plus(r.best, Beam)]
    BY <1>1, <2>3 DEF Shape
  <2>4. QED
    BY <2>1, <2>2, <2>3
<1>4. /\ DOMAIN tokens' = ArcIds' /\ arcActive' \in [ArcIds' -> BOOLEAN]
      /\ activeArcs' \in Seq(ArcIds' \cup {Null}) /\ Len(activeArcs') = Len(activeArcs)
      /\ DOMAIN activeArcs' = DOMAIN activeArcs
      /\ \A k \in DOMAIN activeArcs : k # loc.i => activeArcs'[k] = activeArcs[k]
      /\ ArcSlots'
  <2>1. CASE r.best >= loc.threshold
    <3>1. DeactivateArc(a) /\ activeArcs' = [activeArcs EXCEPT ![loc.i] = Null]
      BY <2>1 DEF ExpandActiveArc
    <3>2. QED
      BY <1>1, <1>2, <3>1, RemoveArc
  <2>2. CASE ~(r.best >= loc.threshold)
    <3>1. tokens' = [tokens EXCEPT ![a] = r.tokens] /\ UNCHANGED <<arcActive, activeArcs>>
      BY <2>2 DEF ExpandActiveArc
    <3> HIDE DEF r
    <3>2. ArcIds' = ArcIds /\ arcActive[a]
      BY <1>1, <1>2 DEF ArcIds, ArcSlots
    <3>3. ASSUME NEW b \in ArcIds, b # a
          PROVE  HeldBy(b)' = HeldBy(b)
      BY <3>1, <3>3 DEF HeldBy, Shape
    <3>4. ArcSlots'
      <4> HIDE DEF a
      <4> QED BY <3>1, <3>2, <3>3 DEF ArcSlots
    <3>5. QED
      BY <3>1, <3>2, <3>4 DEF Shape
  <2>3. QED
    BY <2>1, <2>2
<1>5. Shape'
  BY <1>1, <1>2, <1>3, <1>4 DEF Shape, latticeVars, stateVars, States
<1>6. EmptySlots'
  <2>1. activeStates' = activeStates /\ loc.i \in Nat \ {0} /\ loc.j \in Nat /\ loc.j < loc.i
        /\ Len(activeArcs) \in Nat /\ DOMAIN activeArcs = 1 .. Len(activeArcs)
    BY <1>1 DEF EmptySlots, Shape, stateVars
  <2>2. \A k \in DOMAIN activeArcs' : loc'.i <= k => activeArcs'[k] # Null
    <3>1. TAKE k \in DOMAIN activeArcs'
    <3>2. HAVE loc'.i <= k
    <3>3. k # loc.i /\ loc.i <= k /\ k \in DOMAIN activeArcs
      BY <1>3, <1>4, <2>1, <3>2
    <3>4. QED
      BY <1>1, <1>4, <3>3 DEF EmptySlots
  <2>3. QED
    BY <1>1, <1>3, <1>4, <2>1, <2>2 DEF EmptySlots
<1>7. Queue'
  BY <1>1, <1>2, <1>3 DEF Queue, epsVars, States
<1>8. OwnStates'
  BY <1>1, <1>2, LatticeFrame DEF stateVars
<1>9. QED
  BY <1>1, <1>2, <1>4, <1>5, <1>6, <1>7, <1>8, StatesFrame

\* A list whose elements are those of another, once each, elsewhere: pi says where.
LEMMA MoveSlots ==
  ASSUME Shape, ArcSlots, net' = net, arcActive' = arcActive, tokens' = tokens,
         NEW pi \in [DOMAIN activeArcs' -> DOMAIN activeArcs],
         \A i \in DOMAIN activeArcs' : activeArcs'[i] # Null => activeArcs'[i] = activeArcs[pi[i]],
         \A i, k \in DOMAIN activeArcs' : activeArcs'[i] # Null /\ activeArcs'[k] # Null /\ pi[i] = pi[k] => i = k,
         \A i \in DOMAIN activeArcs : activeArcs[i] # Null =>
           \E k \in DOMAIN activeArcs' : activeArcs'[k] = activeArcs[i]
  PROVE  ArcSlots'
<1>1. ArcIds' = ArcIds /\ \A a \in ArcIds : HeldBy(a)' = HeldBy(a)
  BY DEF ArcIds, HeldBy
<1>2. \A a \in ArcIds : arcActive'[a] => \E i \in DOMAIN activeArcs' : activeArcs'[i] = a
  <2>1. TAKE a \in ArcIds
  <2>2. HAVE arcActive'[a]
  <2>3. PICK i \in DOMAIN activeArcs : activeArcs[i] = a
    BY <2>2 DEF ArcSlots
  <2>4. a # Null
    BY NetworkShape DEF Shape, Null
  <2>5. QED
    BY <2>3, <2>4
<1>3. \A i \in DOMAIN activeArcs' : activeArcs'[i] # Null => arcActive'[activeArcs'[i]]
  BY DEF ArcSlots
<1>4. \A i, k \in DOMAIN activeArcs' : activeArcs'[i] # Null /\ activeArcs'[i] = activeArcs'[k] => i = k
  <2>1. TAKE i, k \in DOMAIN activeArcs'
  <2>2. HAVE activeArcs'[i] # Null /\ activeArcs'[i] = activeArcs'[k]
  <2>3. pi[i] \in DOMAIN activeArcs /\ pi[k] \in DOMAIN activeArcs
    OBVIOUS
  <2>4. pi[i] = pi[k]
    BY <2>2, <2>3 DEF ArcSlots
  <2>5. QED
    BY <2>2, <2>4
<1>5. QED
  BY <1>1, <1>2, <1>3, <1>4 DEF ArcSlots

LEMMA SwapArcsSInv ==
  ASSUME SInv, SwapArcs
  PROVE  SInv'
<1> USE DEF SInv
<1>1. /\ loc.at = "arcs" /\ loc.i > Len(activeArcs) /\ loc.j < loc.i /\ loc.i <= Len(activeArcs) + 1
      /\ loc.i \in Nat /\ loc.j \in Nat
      /\ UNCHANGED <<latticeVars, stateVars, epsVars, tokens, arcActive, netVars>>
  BY DEF SwapArcs, uttVars, EmptySlots, Shape
<1>2. net' = net /\ class' = class /\ activeStates' = activeStates /\ Full(activeStates)
  BY <1>1 DEF netVars, stateVars, EmptySlots
<1>3. CASE loc.j = 0
  <2>1. activeArcs' = activeArcs /\ loc' = [loc EXCEPT !.at = "undefined"]
    BY <1>3 DEF SwapArcs
  <2>2. /\ DOMAIN loc' = {"at", "i", "j", "best", "threshold", "state", "cost"}
        /\ loc'.at = "undefined" /\ loc'.i = loc.i /\ loc'.j = loc.j
    BY <2>1 DEF Shape
  <2>3. EmptySlots' /\ Queue'
    BY <1>1, <1>2, <2>1, <2>2 DEF EmptySlots, Queue, epsVars, States, Full
  <2>4. QED
    BY <1>1, <2>1, <2>2, <2>3, ControlKeeps DEF Shape, arcVars
<1>4. CASE loc.j # 0
  <2> DEFINE j == loc.j
             L == ArcIds \cup {Null}
             pi == [k \in DOMAIN activeArcs' |-> IF k = 1 THEN j ELSE IF k = j THEN 1 ELSE k]
  <2>1. activeArcs' = [activeArcs EXCEPT ![1] = activeArcs[j], ![j] = activeArcs[1]]
        /\ Goto("compact", BandThreshold)
    BY <1>4 DEF SwapArcs, Swapped
  <2>2. /\ DOMAIN loc' = {"at", "i", "j", "best", "threshold", "state", "cost"}
        /\ loc'.at = "compact" /\ loc'.i = 1 /\ loc'.j = 0
    BY <2>1, GotoLoc
  <2>3. 1 \in DOMAIN activeArcs /\ j \in DOMAIN activeArcs
    BY <1>1, <1>4 DEF Shape
  <2>4. /\ activeArcs' \in Seq(L) /\ DOMAIN activeArcs' = DOMAIN activeArcs
        /\ \A k \in DOMAIN activeArcs :
             activeArcs'[k] = IF k = 1 THEN activeArcs[j] ELSE IF k = j THEN activeArcs[1] ELSE activeArcs[k]
    <3>1. activeArcs \in Seq(L)
      BY DEF Shape
    <3> HIDE DEF L
    <3>2. QED
      BY <2>1, <2>3, <3>1
  <2>5. pi \in [DOMAIN activeArcs' -> DOMAIN activeArcs]
    BY <2>3, <2>4
  <2>6. /\ \A k \in DOMAIN activeArcs' : activeArcs'[k] = activeArcs[pi[k]] /\ pi[pi[k]] = k
        /\ \A k \in DOMAIN activeArcs : pi[k] \in DOMAIN activeArcs' /\ activeArcs'[pi[k]] = activeArcs[k]
    BY <2>3, <2>4
  <2> HIDE DEF pi, j
  <2>7. ArcSlots'
    BY <1>1, <1>2, <2>5, <2>6, MoveSlots
  <2>8. Len(activeArcs') \in Nat
    BY <2>4
  <2>9. Shape'
    BY <1>1, <1>2, <2>2, <2>4 DEF Shape, latticeVars, stateVars, States, ArcIds
  <2>10. EmptySlots'
    <3>1. \A k \in DOMAIN activeArcs' : k \in Nat \ {0}
      BY <2>4
    <3>2. QED
      BY <1>2, <2>2, <2>8, <3>1 DEF EmptySlots
  <2>11. Queue' /\ OwnStates'
    BY <1>1, <1>2, <2>2, LatticeFrame DEF Queue, epsVars, States, stateVars
  <2>12. QED
    BY <1>1, <1>2, <2>7, <2>9, <2>10, <2>11, StatesFrame
<1>5. QED
  BY <1>3, <1>4

LEMMA SkipSlotSInv ==
  ASSUME SInv, SkipSlot
  PROVE  SInv'
<1> USE DEF SInv
<1>1. /\ loc.at = "compact" /\ loc.i <= Len(activeArcs) /\ activeArcs[loc.i] = Null
      /\ loc' = [loc EXCEPT !.i = @ + 1]
      /\ UNCHANGED <<latticeVars, stateVars, epsVars, arcVars, netVars>>
  BY DEF SkipSlot, uttVars
<1>2. /\ DOMAIN loc' = {"at", "i", "j", "best", "threshold", "state", "cost"}
      /\ loc'.at = "compact" /\ loc'.i = loc.i + 1 /\ loc'.j = loc.j
  BY <1>1 DEF Shape
<1>3. EmptySlots'
  <2>1. activeStates' = activeStates /\ activeArcs' = activeArcs /\ loc.i \in Nat /\ loc.j \in Nat
        /\ Len(activeArcs) \in Nat /\ \A k \in DOMAIN activeArcs : k \in Nat
    BY <1>1 DEF stateVars, arcVars, Shape
  <2>2. QED
    BY <1>1, <1>2, <2>1 DEF EmptySlots
<1>4. Queue'
  BY <1>1, <1>2 DEF Queue, epsVars, netVars, States
<1>5. QED
  BY <1>1, <1>2, <1>3, <1>4, ControlKeeps DEF Shape

LEMMA EndArcsSInv ==
  ASSUME SInv, EndArcs
  PROVE  SInv'
<1> DEFINE L == ArcIds \cup {Null}
           pi == [k \in DOMAIN activeArcs' |-> k]
<1> USE DEF SInv
<1>1. /\ loc.at = "compact" /\ loc.i > Len(activeArcs) /\ activeArcs' = SubSeq(activeArcs, 1, loc.j)
      /\ Goto("epsilon", MaxCost)
      /\ UNCHANGED <<latticeVars, stateVars, epsVars, tokens, arcActive, netVars>>
  BY DEF EndArcs, uttVars
<1>2. /\ DOMAIN loc' = {"at", "i", "j", "best", "threshold", "state", "cost"}
      /\ loc'.at = "epsilon" /\ loc'.i = 1 /\ loc'.j = 0
  BY <1>1, GotoLoc
<1>3. net' = net /\ class' = class /\ activeStates' = activeStates
  BY <1>1 DEF netVars, stateVars
<1>4. /\ activeArcs' \in Seq(L) /\ DOMAIN activeArcs' = 1 .. loc.j
      /\ DOMAIN activeArcs = 1 .. Len(activeArcs) /\ Len(activeArcs) \in Nat
      /\ loc.i \in Nat /\ loc.j \in Nat /\ loc.j < loc.i /\ loc.i <= Len(activeArcs) + 1
      /\ \A k \in 1 .. loc.j : k \in DOMAIN activeArcs /\ activeArcs'[k] = activeArcs[k]
  <2>1. loc.i \in Nat /\ loc.j \in Nat /\ loc.j < loc.i /\ loc.i <= Len(activeArcs) + 1
    BY <1>1 DEF EmptySlots, Shape
  <2>2. activeArcs \in Seq(L)
    BY DEF Shape
  <2> HIDE DEF L
  <2>3. Len(activeArcs) \in Nat /\ DOMAIN activeArcs = 1 .. Len(activeArcs) /\ loc.j <= Len(activeArcs)
    BY <2>1, <2>2
  <2>4. activeArcs' \in Seq(L) /\ DOMAIN activeArcs' = 1 .. loc.j
        /\ \A k \in 1 .. loc.j : activeArcs'[k] = activeArcs[k]
    BY <1>1, <2>1, <2>2, <2>3
  <2>5. QED
    BY <2>1, <2>3, <2>4
<1>5. ArcSlots'
  <2>1. pi \in [DOMAIN activeArcs' -> DOMAIN activeArcs] /\ \A k \in DOMAIN activeArcs' : pi[k] = k
    BY <1>4
  <2>2. \A i \in DOMAIN activeArcs : activeArcs[i] # Null => i \in DOMAIN activeArcs' /\ activeArcs'[i] = activeArcs[i]
    BY <1>1, <1>4 DEF EmptySlots
  <2> HIDE DEF pi
  <2>3. /\ \A i \in DOMAIN activeArcs' : activeArcs'[i] # Null => activeArcs'[i] = activeArcs[pi[i]]
        /\ \A i, k \in DOMAIN activeArcs' : activeArcs'[i] # Null /\ activeArcs'[k] # Null /\ pi[i] = pi[k] => i = k
        /\ \A i \in DOMAIN activeArcs : activeArcs[i] # Null =>
             \E k \in DOMAIN activeArcs' : activeArcs'[k] = activeArcs[i]
    BY <1>4, <2>1, <2>2
  <2>4. QED
    BY <1>1, <1>3, <2>1, <2>3, MoveSlots
<1>6. Shape'
  BY <1>1, <1>2, <1>3, <1>4 DEF Shape, latticeVars, stateVars, States, ArcIds
<1>7. EmptySlots'
  <2>1. Full(activeArcs') /\ Full(activeStates')
    BY <1>1, <1>3, <1>4 DEF EmptySlots, Full
  <2>2. QED
    BY <1>2, <2>1 DEF EmptySlots
<1>8. Queue' /\ OwnStates'
  BY <1>1, <1>2, <1>3, LatticeFrame DEF Queue, epsVars, States, stateVars
<1>9. QED
  BY <1>1, <1>3, <1>5, <1>6, <1>7, <1>8, StatesFrame

\* A list with another element in one slot.
Put(s, i, x, r) == r = [s EXCEPT ![i] = x]

LEMMA SlotShape ==
  ASSUME NEW S, NEW s \in Seq(S), NEW i \in DOMAIN s, NEW x \in S, NEW r, Put(s, i, x, r)
  PROVE  /\ r \in Seq(S) /\ DOMAIN r = DOMAIN s /\ Len(r) = Len(s)
         /\ \A k \in DOMAIN s : r[k] = IF k = i THEN x ELSE s[k]
  BY DEF Put

\* The slot of an arc that stays moves down to the first emptied one.
LEMMA KeepArc ==
  ASSUME Shape, ArcSlots, EmptySlots, loc.at = "compact", net' = net, arcActive' = arcActive, tokens' = tokens,
         NEW a \in ArcIds, loc.i <= Len(activeArcs), activeArcs[loc.i] = a,
         NEW kept, Put(activeArcs, loc.i, Null, kept), Put(kept, loc.j + 1, a, activeArcs')
  PROVE  /\ ArcSlots' /\ activeArcs' \in Seq(ArcIds' \cup {Null}) /\ Len(activeArcs') = Len(activeArcs)
         /\ DOMAIN activeArcs' = DOMAIN activeArcs
         /\ \A k \in DOMAIN activeArcs :
              activeArcs'[k] = IF k = loc.j + 1 THEN a ELSE IF k = loc.i THEN Null ELSE activeArcs[k]
<1> DEFINE L == ArcIds \cup {Null}
           i == loc.i
           j == loc.j + 1
           pi == [k \in DOMAIN activeArcs' |-> IF k = j THEN i ELSE k]
<1>1. i \in Nat \ {0} /\ j \in Nat \ {0} /\ j <= i /\ Len(activeArcs) \in Nat /\ i <= Len(activeArcs)
      /\ DOMAIN activeArcs = 1 .. Len(activeArcs)
      /\ \A k \in DOMAIN activeArcs : j <= k /\ k < i => activeArcs[k] = Null
  BY DEF Shape, EmptySlots
<1>2. i \in DOMAIN activeArcs /\ j \in DOMAIN activeArcs
  BY <1>1
<1>3. /\ activeArcs' \in Seq(L) /\ DOMAIN activeArcs' = DOMAIN activeArcs /\ Len(activeArcs') = Len(activeArcs)
      /\ \A k \in DOMAIN activeArcs :
           activeArcs'[k] = IF k = j THEN a ELSE IF k = i THEN Null ELSE activeArcs[k]
  <2>1. activeArcs \in Seq(L) /\ Null \in L /\ a \in L
    BY DEF Shape
  <2>2. Put(activeArcs, i, Null, kept) /\ Put(kept, j, a, activeArcs')
    OBVIOUS
  <2> HIDE DEF L, i, j
  <2>3. /\ kept \in Seq(L) /\ DOMAIN kept = DOMAIN activeArcs /\ Len(kept) = Len(activeArcs)
        /\ \A k \in DOMAIN activeArcs : kept[k] = IF k = i THEN Null ELSE activeArcs[k]
    BY <1>2, <2>1, <2>2, SlotShape
  <2>4. /\ activeArcs' \in Seq(L) /\ DOMAIN activeArcs' = DOMAIN kept /\ Len(activeArcs') = Len(kept)
        /\ \A k \in DOMAIN kept : activeArcs'[k] = IF k = j THEN a ELSE kept[k]
    BY <1>2, <2>1, <2>2, <2>3, SlotShape
  <2>5. QED
    BY <2>3, <2>4
<1>4. /\ pi \in [DOMAIN activeArcs' -> DOMAIN activeArcs]
      /\ \A k \in DOMAIN activeArcs' : pi[k] = IF k = j THEN i ELSE k
  BY <1>2, <1>3
<1>5. activeArcs[i] = a /\ ArcIds' = ArcIds
  BY DEF ArcIds
<1> HIDE DEF pi, i, j
<1>6. /\ \A k \in DOMAIN activeArcs' : activeArcs'[k] # Null => activeArcs'[k] = activeArcs[pi[k]]
      /\ \A k, l \in DOMAIN activeArcs' : activeArcs'[k] # Null /\ activeArcs'[l] # Null /\ pi[k] = pi[l] => k = l
  BY <1>2, <1>3, <1>4, <1>5
<1>7. \A k \in DOMAIN activeArcs : activeArcs[k] # Null => \E l \in DOMAIN activeArcs' : activeArcs'[l] = activeArcs[k]
  <2>1. TAKE k \in DOMAIN activeArcs
  <2>2. HAVE activeArcs[k] # Null
  <2>3. CASE k = i
    BY <1>2, <1>3, <1>5, <2>3
  <2>4. CASE k # i
    <3>1. k # j
      BY <1>1, <2>2, <2>4
    <3>2. activeArcs'[k] = activeArcs[k]
      BY <1>3, <2>4, <3>1
    <3>3. QED
      BY <1>3, <3>2
  <2>5. QED
    BY <2>3, <2>4
<1>8. ArcSlots'
  BY <1>4, <1>6, <1>7, MoveSlots
<1>9. QED
  BY <1>3, <1>5, <1>8 DEF i, j

LEMMA CompactArcSInv ==
  ASSUME SInv, CompactArc
  PROVE  SInv'
<1> DEFINE a == activeArcs[loc.i]
           last == tokens[a][NumStates(Hmm(a))]
           left == GetExitCost(a) < MaxCost /\ GetExitCost(a) < loc.threshold
           dst == net.arcs[a].dst
           kept == [activeArcs EXCEPT ![loc.i] = Null]
           Fields == {"at", "i", "j", "best", "threshold", "state", "cost"}
<1> USE DEF SInv
<1>1. /\ loc.at = "compact" /\ loc.i \in DOMAIN activeArcs /\ loc.i <= Len(activeArcs) /\ a # Null /\ a \in ArcIds
      /\ UNCHANGED <<epsVars, netVars>> /\ Full(activeStates)
  BY DEF CompactArc, EmptySlots, Shape, uttVars
<1>2. net' = net /\ class' = class /\ dst \in States /\ Len(activeArcs) \in Nat /\ DOMAIN activeArcs = 1 .. Len(activeArcs)
      /\ loc.i \in Nat \ {0} /\ loc.j \in Nat /\ loc.j < loc.i
  BY <1>1, NetworkShape DEF netVars, Shape, EmptySlots
<1>3. CASE BestCost(tokens[a]) <= loc.threshold
  <2>1. /\ activeArcs' = [kept EXCEPT ![loc.j + 1] = a]
        /\ IF left THEN ExpandToFollowingState(a, last.tb, GetExitCost(a)) ELSE UNCHANGED <<latticeVars, stateVars>>
        /\ \E th : loc' = [loc EXCEPT !.i = @ + 1, !.j = @ + 1, !.threshold = th]
        /\ UNCHANGED <<tokens, arcActive>>
    BY <1>3 DEF CompactArc
  <2>2. DOMAIN loc' = Fields /\ loc'.at = "compact" /\ loc'.i = loc.i + 1 /\ loc'.j = loc.j + 1
    BY <1>1, <2>1 DEF Shape
  <2>3. /\ ArcSlots' /\ activeArcs' \in Seq(ArcIds' \cup {Null}) /\ Len(activeArcs') = Len(activeArcs)
        /\ DOMAIN activeArcs' = DOMAIN activeArcs
        /\ \A k \in DOMAIN activeArcs :
             activeArcs'[k] = IF k = loc.j + 1 THEN a ELSE IF k = loc.i THEN Null ELSE activeArcs[k]
    <3>1. Put(activeArcs, loc.i, Null, kept) /\ Put(kept, loc.j + 1, a, activeArcs')
      BY <2>1 DEF Put
    <3> HIDE DEF kept, a
    <3>2. loc.at = "compact" /\ a \in ArcIds /\ loc.i <= Len(activeArcs) /\ activeArcs[loc.i] = a
      BY <1>1 DEF a
    <3>3. QED
      BY <1>2, <2>1, <3>1, <3>2, KeepArc
  <2>4. /\ DOMAIN token' = States' /\ position' \in [States' -> Int]
        /\ activeStates' \in Seq(States' \cup {Null}) /\ Full(activeStates')
        /\ usedList' \in Seq(LS) /\ DOMAIN node' = LS
        /\ StateSlots' /\ OwnStates'
    <3>1. CASE left
      <4>1. \E tb : Arrives(dst, tb)
        BY <1>1, <1>2, <2>1, <3>1, SetTokenArrives DEF ExpandToFollowingState
      <4> HIDE DEF dst
      <4>2. QED
        BY <1>1, <1>2, <4>1, ArrivesKeeps
    <3>2. CASE ~left
      <4>1. UNCHANGED <<latticeVars, stateVars>>
        BY <2>1, <3>2
      <4> HIDE DEF left
      <4>2. QED
        BY <1>1, <1>2, <4>1, StatesFrame, LatticeFrame DEF Shape, stateVars, latticeVars, States
    <3>3. QED
      BY <3>1, <3>2
  <2>5. Shape'
    BY <1>2, <2>1, <2>2, <2>3, <2>4 DEF Shape, ArcIds
  <2>6. EmptySlots'
    <3>1. \A k \in DOMAIN activeArcs' : /\ k <= loc.j + 1 => activeArcs'[k] # Null
                                        /\ loc.j + 1 < k /\ k < loc.i + 1 => activeArcs'[k] = Null
      BY <1>1, <1>2, <2>3 DEF EmptySlots
    <3>2. loc'.at = "compact" /\ loc'.j < loc'.i /\ loc'.i <= Len(activeArcs') + 1 /\ Full(activeStates')
      BY <1>1, <1>2, <2>2, <2>3, <2>4
    <3>3. loc'.i = loc.i + 1 /\ loc'.j = loc.j + 1
      BY <2>2
    <3> HIDE DEF a, last, left, dst, kept, Fields
    <3>4. QED
      BY <3>1, <3>2, <3>3 DEF EmptySlots
  <2>7. Queue'
    BY <1>1, <1>2, <2>2 DEF Queue, epsVars, States
  <2>8. QED
    BY <2>3, <2>4, <2>5, <2>6, <2>7
<1>4. CASE ~(BestCost(tokens[a]) <= loc.threshold)
  <2>1. activeArcs' = kept /\ DeactivateArc(a) /\ loc' = [loc EXCEPT !.i = @ + 1] /\ UNCHANGED <<latticeVars, stateVars>>
    BY <1>4 DEF CompactArc
  <2>2. DOMAIN loc' = Fields /\ loc'.at = "compact" /\ loc'.i = loc.i + 1 /\ loc'.j = loc.j
    BY <1>1, <2>1 DEF Shape
  <2>3. /\ DOMAIN tokens' = ArcIds' /\ arcActive' \in [ArcIds' -> BOOLEAN]
        /\ activeArcs' \in Seq(ArcIds' \cup {Null}) /\ Len(activeArcs') = Len(activeArcs)
        /\ DOMAIN activeArcs' = DOMAIN activeArcs
        /\ \A k \in DOMAIN activeArcs : activeArcs'[k] = IF k = loc.i THEN Null ELSE activeArcs[k]
        /\ ArcSlots'
    BY <1>1, <1>2, <2>1, RemoveArc
  <2>4. Shape'
    BY <1>2, <2>1, <2>2, <2>3 DEF Shape, stateVars, latticeVars, States
  <2>5. EmptySlots'
    <3>1. \A k \in DOMAIN activeArcs' : /\ k <= loc.j => activeArcs'[k] # Null
                                        /\ loc.j < k /\ k < loc.i + 1 => activeArcs'[k] = Null
      BY <1>1, <1>2, <2>3 DEF EmptySlots
    <3>2. Full(activeStates')
      BY <1>1, <2>1 DEF stateVars
    <3>3. loc'.at = "compact" /\ loc'.j < loc'.i /\ loc'.i <= Len(activeArcs') + 1
      BY <1>1, <1>2, <2>2, <2>3
    <3>4. loc'.i = loc.i + 1 /\ loc'.j = loc.j
      BY <2>2
    <3> HIDE DEF a, last, left, dst, kept, Fields
    <3>5. QED
      BY <3>1, <3>2, <3>3, <3>4 DEF EmptySlots
  <2>6. Queue'
    BY <1>1, <1>2, <2>2 DEF Queue, epsVars, States
  <2>7. StateSlots' /\ OwnStates'
    BY <1>1, <1>2, <2>1, StatesFrame, LatticeFrame DEF stateVars
  <2>8. QED
    BY <2>3, <2>4, <2>5, <2>6, <2>7
<1>5. QED
  BY <1>3, <1>4

-----------------------------------------------------------------------------
(* EndDecode, CleanUp *)

\* A collection leaves of the states in use those that are not pooled.
LEMMA CollectKeeps ==
  ASSUME Shape, class = "Lattice" => pool \subseteq LS /\ Used \cap pool = {},
         NEW roots, CollectFrom(roots) \/ UNCHANGED latticeVars
  PROVE  /\ usedList' \in Seq(LS) /\ DOMAIN node' = LS
         /\ class = "Lattice" => pool' \subseteq LS /\ Used' \cap pool' = {}
<1>1. CASE UNCHANGED latticeVars
  BY <1>1 DEF latticeVars, Shape, Used
<1>2. CASE CollectFrom(roots)
  <2>1. CASE class = "Lattice"
    <3>1. PICK M : Sweep(M)
      BY <1>2, <2>1 DEF CollectFrom
    <3>2. QED
      BY <2>1, <3>1, SweepKeeps DEF Shape
  <2>2. CASE class # "Lattice"
    BY <1>2, <2>2 DEF CollectFrom, SimpleSweep, latticeVars, Shape
  <2>3. QED
    BY <2>1, <2>2
<1>3. QED
  BY <1>1, <1>2

LEMMA EndDecodeSInv ==
  ASSUME SInv, EndDecode
  PROVE  SInv'
<1> USE DEF SInv
<1>1. /\ loc.at = "end" /\ UNCHANGED <<stateVars, epsVars, arcVars, netVars>> /\ Goto("cleanup", MaxCost)
      /\ \E roots : CollectFrom(roots) \/ UNCHANGED latticeVars
  BY DEF EndDecode, uttVars
<1>2. /\ DOMAIN loc' = {"at", "i", "j", "best", "threshold", "state", "cost"}
      /\ loc'.at = "cleanup" /\ loc'.i = 1 /\ loc'.j = 0
  BY <1>1, GotoLoc
<1>3. /\ usedList' \in Seq(LS) /\ DOMAIN node' = LS
      /\ class = "Lattice" => pool' \subseteq LS /\ Used' \cap pool' = {}
  BY <1>1, CollectKeeps DEF OwnStates
<1>4. net' = net /\ class' = class /\ States' = States
  BY <1>1 DEF netVars, States
<1>5. Shape'
  BY <1>1, <1>2, <1>3, <1>4 DEF Shape, stateVars, arcVars, ArcIds
<1>6. EmptySlots' /\ Queue' /\ OwnStates'
  BY <1>1, <1>2, <1>3, <1>4 DEF EmptySlots, Full, Queue, OwnStates, stateVars, arcVars, epsVars
<1>7. QED
  BY <1>1, <1>4, <1>5, <1>6, StatesFrame, ArcsFrame

LEMMA CleanUpSInv ==
  ASSUME SInv, CleanUp
  PROVE  SInv'
<1> USE DEF SInv
<1>1. /\ loc.at = "cleanup" /\ activeStates' = <<>> /\ activeArcs' = <<>>
      /\ UNCHANGED <<epsVars, netVars>> /\ ClearSearchHash
  BY DEF CleanUp
<1>2. PICK at \in {"idle", "fatal"} : Goto(at, MaxCost)
  BY DEF CleanUp
<1>3. /\ DOMAIN loc' = {"at", "i", "j", "best", "threshold", "state", "cost"}
      /\ loc'.at = at /\ loc'.i = 1 /\ loc'.j = 0
  BY <1>2, GotoLoc
<1>4. net' = net /\ class' = class /\ States' = States /\ ArcIds' = ArcIds
  BY <1>1 DEF netVars, States, ArcIds
<1>5. /\ usedList' \in Seq(LS) /\ DOMAIN node' = LS
      /\ class = "Lattice" => pool' \subseteq LS /\ Used' \cap pool' = {}
  <2>1. CASE class = "Lattice"
    <3>1. Sweep({})
      BY <2>1 DEF CleanUp
    <3>2. QED
      BY <2>1, <3>1, SweepKeeps DEF Shape, OwnStates
  <2>2. CASE class # "Lattice"
    BY <2>2 DEF CleanUp, SimpleClear, Shape
  <2>3. QED
    BY <2>1, <2>2
<1>6. /\ token' = [q \in States |-> Inactive] /\ position' = [q \in States |-> -1]
      /\ tokens' = [a \in ArcIds |-> NoTokens(Hmm(a))] /\ arcActive' = [a \in ArcIds |-> FALSE]
  BY <1>1 DEF ClearSearchHash
<1>7. Shape'
  BY <1>1, <1>3, <1>4, <1>5, <1>6 DEF Shape
<1>8. \A q \in States : ~Active(token'[q]) /\ position'[q] = -1
  BY <1>6 DEF Active, Inactive
<1>9. StateSlots'
  BY <1>1, <1>4, <1>8 DEF StateSlots
<1>10. ArcSlots'
  <2>1. ASSUME NEW a \in ArcIds
        PROVE  HeldBy(a)' = {} /\ ~arcActive'[a]
    BY <1>6 DEF HeldBy, NoTokens, Inactive
  <2>2. QED
    BY <1>1, <1>4, <2>1 DEF ArcSlots
<1>11. EmptySlots'
  BY <1>1, <1>2, <1>3 DEF EmptySlots, Full
<1>12. Queue' /\ OwnStates'
  BY <1>1, <1>2, <1>3, <1>4, <1>5, <1>8 DEF Queue, OwnStates, epsVars
<1>13. QED
  BY <1>7, <1>9, <1>10, <1>11, <1>12

-----------------------------------------------------------------------------
(* The theorems *)

\* Every step keeps the invariant.
LEMMA NextSInv == SInv /\ [HNext]_hvars => SInv'
<1> SUFFICES ASSUME SInv, [HNext]_hvars
             PROVE  SInv'
  OBVIOUS
<1>1. CASE UNCHANGED hvars
  <2>1. UNCHANGED <<latticeVars, stateVars, epsVars, arcVars, netVars, loc>>
    BY <1>1 DEF hvars, vars, uttVars
  <2>2. Shape' /\ EmptySlots' /\ Queue'
    BY <2>1 DEF SInv, Shape, EmptySlots, Full, Queue, latticeVars, stateVars, epsVars, arcVars, netVars, States, ArcIds
  <2>3. OwnStates'
    BY <2>1 DEF SInv, OwnStates, latticeVars, stateVars, netVars, States, Used
  <2>4. QED
    BY <2>1, <2>2, <2>3, StatesFrame, ArcsFrame DEF SInv, netVars
<1>2. CASE BeginDecode
  BY <1>2, BeginDecodeSInv
<1>3. CASE NextFrame
  BY <1>3, NextFrameSInv
<1>4. CASE QueueStates
  BY <1>4, QueueStatesSInv
<1>5. CASE PopState
  BY <1>5, PopStateSInv
<1>6. CASE RelaxArc
  BY <1>6, RelaxArcSInv
<1>7. CASE EndRelax \/ EndEpsilon
  BY <1>7, EndRelaxSInv
<1>8. CASE ExpandActiveState
  BY <1>8, ExpandActiveStateSInv
<1>9. CASE EndStates
  BY <1>9, EndStatesSInv
<1>10. CASE Gc
  BY <1>10, GcSInv
<1>11. CASE ExpandActiveArc
  BY <1>11, ExpandActiveArcSInv
<1>12. CASE SwapArcs
  BY <1>12, SwapArcsSInv
<1>13. CASE CompactArc
  BY <1>13, CompactArcSInv
<1>14. CASE SkipSlot
  BY <1>14, SkipSlotSInv
<1>15. CASE EndArcs
  BY <1>15, EndArcsSInv
<1>16. CASE EndDecode
  BY <1>16, EndDecodeSInv
<1>17. CASE CleanUp
  BY <1>17, CleanUpSInv
<1>18. QED
  BY <1>1, <1>2, <1>3, <1>4, <1>5, <1>6, <1>7, <1>8, <1>9, <1>10, <1>11, <1>12, <1>13, <1>14, <1>15,
     <1>16, <1>17 DEF HNext, Next

\* The lists, the tokens and the lattice states are in order after every sequence
\* of steps, however the beams, the band and the queue prune.
THEOREM SpecSInv == HSpec => []SInv
<1>1. HInit => SInv
  BY InitSInv DEF HInit
<1>2. QED
  BY <1>1, NextSInv, PTL DEF HSpec

\* The active lists and the objects in them always agree: an active search state is
\* in active_states_ once, at its index_, and an arc with a token is in active_arcs_
\* once, through ExpandActiveStates, ExpandActiveArcs and its in-place compaction.
THEOREM SpecListsCoherent == HSpec => []ListsCoherent
<1>1. SInv => ListsCoherent
  <2> SUFFICES ASSUME SInv
               PROVE  ListsCoherent
    OBVIOUS
  <2>1. ASSUME NEW a \in ArcIds
        PROVE  Cardinality({i \in DOMAIN activeArcs : activeArcs[i] = a}) = IF arcActive[a] THEN 1 ELSE 0
    <3> DEFINE at == {i \in DOMAIN activeArcs : activeArcs[i] = a}
    <3>1. a # Null
      BY NetworkShape DEF SInv, Shape, Null
    <3>2. CASE arcActive[a]
      <4>1. PICK i \in DOMAIN activeArcs : activeArcs[i] = a
        BY <3>2 DEF SInv, ArcSlots
      <4>2. at = {i}
        BY <3>1, <4>1 DEF SInv, ArcSlots
      <4>3. Cardinality({i}) = 1
        BY FS_Singleton
      <4>4. QED
        BY <3>2, <4>2, <4>3
    <3>3. CASE ~arcActive[a]
      <4>1. at = {}
        BY <3>1, <3>3 DEF SInv, ArcSlots
      <4>2. QED
        BY <3>3, <4>1, FS_EmptySet
    <3>4. QED
      BY <3>2, <3>3
  <2>2. QED
    BY <2>1 DEF ListsCoherent, SInv, StateSlots, ArcSlots
<1>2. QED
  BY <1>1, SpecSInv, PTL

\* Up to the end of an utterance an active search state's token points to a lattice
\* state that is allocated and that no other token points to, with its cost.
THEOREM SpecTokensMatchLattice == HSpec => []TokensMatchLattice
<1>1. SInv => TokensMatchLattice
  BY DEF SInv, OwnStates, TokensMatchLattice
<1>2. QED
  BY <1>1, SpecSInv, PTL

-----------------------------------------------------------------------------
(***************************************************************************)
(* The decoder with the collecting lattice implements TokenLattice, on     *)
(* every network without epsilon cycles: each of its steps is one that     *)
(* TokenLattice allows, or changes nothing TokenLattice sees.              *)
(***************************************************************************)


-----------------------------------------------------------------------------
(* Minima *)

LEMMA LeastNumber ==
  ASSUME NEW T \in SUBSET Nat, T # {}
  PROVE  \E x \in T : \A y \in T : x <= y
<1> DEFINE R == {ss \in Nat \X Nat : ss[1] < ss[2]}
<1>1. R = OpToRel(<, Nat)
  BY DEF OpToRel
<1>2. IsWellFoundedOn(R, Nat)
  BY <1>1, NatLessThanWellFounded
<1>3. PICK x \in T : \A y \in T : ~(<<y, x>> \in R)
  <2> HIDE DEF R
  <2> QED BY <1>2, WFMin
<1>4. ASSUME NEW y \in T
      PROVE  x <= y
  <2>1. ~(<<y, x>> \in R)
    BY <1>3
  <2>2. <<y, x>>[1] = y /\ <<y, x>>[2] = x /\ <<y, x>> \in Nat \X Nat
    OBVIOUS
  <2>3. ~(y < x)
    BY <2>1, <2>2
  <2>4. QED
    BY <2>3
<1>5. QED
  BY <1>4

\* A function with integer values takes its least value on a finite set: the
\* position with the fewest positions below it has it.
LEMMA LeastValue ==
  ASSUME NEW S, IsFiniteSet(S), S # {}, NEW f \in [S -> Int]
  PROVE  \E x \in S : \A y \in S : f[x] <= f[y]
<1> DEFINE below(x) == {z \in S : f[z] < f[x]}
           T == {Cardinality(below(x)) : x \in S}
<1>1. \A x \in S : IsFiniteSet(below(x)) /\ Cardinality(below(x)) \in Nat
  <2>1. TAKE x \in S
  <2>2. below(x) \in SUBSET S
    OBVIOUS
  <2> HIDE DEF below
  <2>3. QED
    BY <2>2, FS_Subset, FS_CardinalityType
<1>2. PICK x \in S : \A y \in S : Cardinality(below(x)) <= Cardinality(below(y))
  <2>1. T \in SUBSET Nat /\ T # {}
    BY <1>1
  <2>2. PICK m \in T : \A k \in T : m <= k
    <3> HIDE DEF T
    <3> QED BY <2>1, LeastNumber
  <2>3. QED
    BY <2>2
<1>3. ASSUME NEW y \in S, f[y] < f[x]
      PROVE  FALSE
  <2>1. below(y) \in SUBSET below(x) /\ y \in below(x) /\ y \notin below(y)
    BY <1>3
  <2>2. Cardinality(below(y)) < Cardinality(below(x))
    <3>1. IsFiniteSet(below(x)) /\ IsFiniteSet(below(y)) /\ Cardinality(below(x)) \in Nat /\ Cardinality(below(y)) \in Nat
      BY <1>1
    <3> HIDE DEF below
    <3>2. Cardinality(below(y)) <= Cardinality(below(x)) /\ Cardinality(below(x)) # Cardinality(below(y))
      BY <2>1, <3>1, FS_Subset
    <3>3. QED
      BY <3>1, <3>2
  <2>3. QED
    <3>1. Cardinality(below(x)) \in Nat /\ Cardinality(below(y)) \in Nat
      BY <1>1
    <3> HIDE DEF below
    <3>2. QED
      BY <1>2, <2>2, <3>1
<1>4. QED
  BY <1>3

LEMMA MinType ==
  ASSUME NEW S \in SUBSET Int, IsFiniteSet(S), S # {}
  PROVE  Min(S) \in S
<1>1. [x \in S |-> x] \in [S -> Int]
  OBVIOUS
<1>2. \E x \in S : \A y \in S : x <= y
  <2>1. \E x \in S : \A y \in S : [z \in S |-> z][x] <= [z \in S |-> z][y]
    BY <1>1, LeastValue
  <2>2. QED
    BY <2>1
<1>3. QED
  BY <1>2 DEF Min

LEMMA MaxType ==
  ASSUME NEW S \in SUBSET Int, IsFiniteSet(S), S # {}
  PROVE  Max(S) \in S
<1>1. [x \in S |-> -x] \in [S -> Int]
  OBVIOUS
<1>2. \E x \in S : \A y \in S : y <= x
  <2>1. \E x \in S : \A y \in S : [z \in S |-> -z][x] <= [z \in S |-> -z][y]
    BY <1>1, LeastValue
  <2>2. QED
    BY <2>1
<1>3. QED
  BY <1>2 DEF Max

LEMMA FiniteImage ==
  ASSUME NEW S, IsFiniteSet(S), NEW f
  PROVE  IsFiniteSet({f[x] : x \in S})
<1> DEFINE T == {f[x] : x \in S}
           g == [x \in S |-> f[x]]
<1>1. g \in Surjection(S, T)
  BY DEF Surjection
<1> HIDE DEF g, T
<1>2. IsFiniteSet(T)
  BY <1>1, FS_Surjection
<1>3. QED
  BY <1>2 DEF T

-----------------------------------------------------------------------------
(* The tokens of an arc *)

\* The tokens an HMM may hold: one without a lattice state costs kMaxCost.
ArcTokens(hmm) ==
  {t \in [0 .. NumStates(hmm) -> Token] : \A n \in 0 .. NumStates(hmm) : ~Active(t[n]) => MaxCost <= t[n].cost}

LEMMA PlusType ==
  ASSUME NEW c \in Int, NEW w \in Int
  PROVE  Plus(c, w) \in Int /\ (MaxCost <= c => Plus(c, w) = MaxCost)
  BY LatticeAssumption DEF LatticeAssumption, Plus

LEMMA NumStatesType ==
  ASSUME NEW hmm, HmmOK(hmm)
  PROVE  NumStates(hmm) \in Nat
  BY DEF HmmOK, NumStates

LEMMA NoTokensType ==
  ASSUME NEW hmm
  PROVE  NoTokens(hmm) \in ArcTokens(hmm)
  BY LatticeAssumption DEF LatticeAssumption, NoTokens, ArcTokens, Inactive, Active, Token

\* What an HMM's tokens are after a frame: tokens again, and no token points to a
\* lattice state that none pointed to.
Advanced(hmm, tks, next) ==
  /\ next \in ArcTokens(hmm)
  /\ \A n \in 0 .. NumStates(hmm) : Active(next[n]) => \E k \in 0 .. NumStates(hmm) : next[n].tb = tks[k].tb

LEMMA LeftToRightAdvances ==
  ASSUME NEW hmm, HmmOK(hmm), hmm.type = "leftToRight", NEW tks \in ArcTokens(hmm),
         NEW labels, NEW am \in [labels -> Int], HmmLabels(hmm) \subseteq labels
  PROVE  Advanced(hmm, tks, ExpandLeftToRight(hmm, tks, am).tokens)
<1> DEFINE loop(n) == Plus(tks[n].cost, hmm.weights[2 * n - 1] + am[hmm.labels[n]])
           prev(n) == Plus(tks[n - 1].cost, hmm.weights[2 * n - 2] + am[hmm.labels[n]])
           next == [n \in 0 .. 3 |->
                      IF n = 0 THEN Inactive
                      ELSE IF ~Active(tks[n]) /\ ~Active(tks[n - 1]) THEN tks[n]
                      ELSE IF loop(n) < prev(n) THEN [tks[n] EXCEPT !.cost = loop(n)]
                      ELSE [tb |-> tks[n - 1].tb, cost |-> prev(n)]]
<1>1. ExpandLeftToRight(hmm, tks, am).tokens = next
  BY DEF ExpandLeftToRight
<1>2. NumStates(hmm) = 3
  BY DEF NumStates
<1>3. \A n \in 0 .. 3 : tks[n] \in Token /\ tks[n].cost \in Int /\ (~Active(tks[n]) => MaxCost <= tks[n].cost)
  BY <1>2 DEF ArcTokens, Token
<1>4. \A n \in 1 .. 3 : /\ loop(n) \in Int /\ (~Active(tks[n]) => loop(n) = MaxCost)
                        /\ prev(n) \in Int /\ (~Active(tks[n - 1]) => prev(n) = MaxCost)
  <2>1. hmm.weights \in [0 .. 6 -> Int] /\ hmm.labels \in [1 .. 3 -> HmmLabels(hmm)]
    BY DEF HmmOK
  <2>2. TAKE n \in 1 .. 3
  <2>3. hmm.weights[2 * n - 1] \in Int /\ hmm.weights[2 * n - 2] \in Int /\ am[hmm.labels[n]] \in Int
    BY <2>1
  <2>4. tks[n].cost \in Int /\ tks[n - 1].cost \in Int
    BY <1>3
  <2> DEFINE x == hmm.weights[2 * n - 1] + am[hmm.labels[n]]
             y == hmm.weights[2 * n - 2] + am[hmm.labels[n]]
             c == tks[n].cost
             d == tks[n - 1].cost
  <2>5. x \in Int /\ y \in Int /\ c \in Int /\ d \in Int
    BY <2>3, <2>4
  <2>6. loop(n) = Plus(c, x) /\ prev(n) = Plus(d, y)
    OBVIOUS
  <2> HIDE DEF x, y, c, d, loop, prev
  <2>7. Plus(c, x) \in Int /\ (MaxCost <= c => Plus(c, x) = MaxCost)
    BY <2>5, PlusType
  <2>8. Plus(d, y) \in Int /\ (MaxCost <= d => Plus(d, y) = MaxCost)
    BY <2>5, PlusType
  <2>9. QED
    BY <1>3, <2>6, <2>7, <2>8 DEF c, d
<1>5. ASSUME NEW n \in 0 .. 3
      PROVE  /\ next[n] \in Token
             /\ ~Active(next[n]) => MaxCost <= next[n].cost
             /\ Active(next[n]) => \E k \in 0 .. 3 : next[n].tb = tks[k].tb
  <2> HIDE DEF loop, prev
  <2>1. MaxCost \in Nat
    BY LatticeAssumption DEF LatticeAssumption
  <2>2. CASE n = 0
    BY <2>1, <2>2 DEF Inactive, Active, Token
  <2>3. CASE n # 0 /\ ~Active(tks[n]) /\ ~Active(tks[n - 1])
    BY <1>3, <2>3
  <2>4. CASE n # 0 /\ ~(~Active(tks[n]) /\ ~Active(tks[n - 1])) /\ loop(n) < prev(n)
    <3>1. next[n] = [tks[n] EXCEPT !.cost = loop(n)]
      BY <2>4
    <3>2. loop(n) \in Int /\ (~Active(tks[n]) => loop(n) = MaxCost)
      BY <1>4, <2>4
    <3>3. next[n] \in Token /\ next[n].tb = tks[n].tb /\ next[n].cost = loop(n)
      BY <1>3, <3>1, <3>2 DEF Token
    <3>4. QED
      BY <2>1, <3>2, <3>3 DEF Active
  <2>5. CASE n # 0 /\ ~(~Active(tks[n]) /\ ~Active(tks[n - 1])) /\ ~(loop(n) < prev(n))
    <3>1. next[n] = [tb |-> tks[n - 1].tb, cost |-> prev(n)]
      BY <2>5
    <3>2. prev(n) \in Int /\ (~Active(tks[n - 1]) => prev(n) = MaxCost) /\ n - 1 \in 0 .. 3
      BY <1>4, <2>5
    <3>3. next[n] \in Token /\ next[n].tb = tks[n - 1].tb /\ next[n].cost = prev(n)
      BY <1>3, <3>1, <3>2 DEF Token
    <3>4. QED
      BY <2>1, <3>2, <3>3 DEF Active
  <2>6. QED
    BY <2>2, <2>3, <2>4, <2>5
<1> HIDE DEF next
<1>6. next \in [0 .. 3 -> Token]
  <2>1. DOMAIN next = 0 .. 3 /\ next = [n \in DOMAIN next |-> next[n]]
    BY DEF next
  <2>2. QED
    BY <1>5, <2>1
<1>7. QED
  BY <1>1, <1>2, <1>5, <1>6 DEF Advanced, ArcTokens

LEMMA GenericAdvances ==
  ASSUME NEW hmm, HmmOK(hmm), hmm.type = "ergodic", NEW tks \in ArcTokens(hmm),
         NEW labels, NEW am \in [labels -> Int], HmmLabels(hmm) \subseteq labels, NEW threshold
  PROVE  Advanced(hmm, tks, ExpandGeneric(hmm, tks, am, threshold).tokens)
<1> DEFINE arc(k) == hmm.arcs[k]
           cost(k) == Plus(tks[arc(k).from].cost, arc(k).weight + am[arc(k).label])
           into(n) == {k \in DOMAIN hmm.arcs :
                         /\ arc(k).to = n /\ arc(k).from # hmm.numStates
                         /\ Active(tks[arc(k).from]) /\ cost(k) <= threshold /\ cost(k) < MaxCost}
           first(k, K) == \A l \in K : cost(k) < cost(l) \/ (cost(k) = cost(l) /\ k <= l)
           best(n) == CHOOSE k \in into(n) : first(k, into(n))
           next == [n \in 0 .. hmm.numStates |->
                      IF into(n) = {} THEN Inactive
                      ELSE [tb |-> tks[arc(best(n)).from].tb, cost |-> cost(best(n))]]
           D == DOMAIN hmm.arcs
<1>1. ExpandGeneric(hmm, tks, am, threshold).tokens = next
  BY DEF ExpandGeneric
<1>2. NumStates(hmm) = hmm.numStates /\ hmm.numStates \in Nat
  BY DEF NumStates, HmmOK
<1>3. /\ IsFiniteSet(D) /\ D \in SUBSET Nat
      /\ \A k \in D : arc(k).from \in 0 .. hmm.numStates /\ arc(k).weight \in Int /\ arc(k).label \in HmmLabels(hmm)
  <2> DEFINE A == [from : 0 .. hmm.numStates, to : 0 .. hmm.numStates, weight : Int, label : HmmLabels(hmm)]
  <2>1. hmm.arcs \in Seq(A)
    BY DEF HmmOK
  <2>2. D = 1 .. Len(hmm.arcs) /\ Len(hmm.arcs) \in Nat /\ \A k \in D : arc(k) \in A
    <3> HIDE DEF A
    <3> QED BY <2>1
  <2>3. IsFiniteSet(D)
    <3> DEFINE n == Len(hmm.arcs)
    <3>1. n \in Int /\ D = 1 .. n
      BY <2>2
    <3> HIDE DEF n, D, A, arc
    <3>2. QED
      BY <3>1, FS_Interval
  <2>4. QED
    BY <2>2, <2>3
<1>4. \A k \in D : cost(k) \in Int
  <2>1. TAKE k \in D
  <2>2. tks[arc(k).from].cost \in Int
    BY <1>2, <1>3 DEF ArcTokens, Token
  <2>3. arc(k).weight + am[arc(k).label] \in Int
    BY <1>3
  <2>4. QED
    BY <2>2, <2>3, PlusType
<1>5. ASSUME NEW K \in SUBSET D, K # {}
      PROVE  \E k \in K : first(k, K)
  <2> DEFINE f == [k \in K |-> cost(k)]
  <2>1. IsFiniteSet(K)
    <3> HIDE DEF D
    <3> QED BY <1>3, FS_Subset
  <2>2. f \in [K -> Int]
    <3> HIDE DEF cost
    <3> QED BY <1>4
  <2>3. PICK x \in K : \A y \in K : f[x] <= f[y]
    <3> HIDE DEF f
    <3> QED BY <1>5, <2>1, <2>2, LeastValue
  <2>4. PICK k \in {y \in K : cost(y) = cost(x)} : \A l \in {y \in K : cost(y) = cost(x)} : k <= l
    <3> DEFINE E == {y \in K : cost(y) = cost(x)}
    <3>1. E \in SUBSET Nat /\ E # {}
      BY <1>3, <2>3
    <3> HIDE DEF E
    <3>2. \E k \in E : \A l \in E : k <= l
      BY <3>1, LeastNumber
    <3>3. QED
      BY <3>2 DEF E
  <2>5. \A l \in K : cost(x) <= cost(l)
    <3> HIDE DEF cost
    <3> QED BY <2>3
  <2>6. first(k, K)
    <3> HIDE DEF cost
    <3> QED BY <1>4, <2>3, <2>4, <2>5
  <2>7. QED
    BY <2>4, <2>6
<1>6. ASSUME NEW n \in 0 .. hmm.numStates, into(n) # {}
      PROVE  best(n) \in into(n)
  <2>1. into(n) \in SUBSET D
    OBVIOUS
  <2> HIDE DEF into, first
  <2>2. \E k \in into(n) : first(k, into(n))
    BY <1>5, <1>6, <2>1
  <2>3. QED
    BY <2>2
<1>7. ASSUME NEW n \in 0 .. hmm.numStates
      PROVE  /\ next[n] \in Token
             /\ ~Active(next[n]) => MaxCost <= next[n].cost
             /\ Active(next[n]) => \E k \in 0 .. hmm.numStates : next[n].tb = tks[k].tb
  <2>1. CASE into(n) = {}
    <3>1. next[n] = Inactive
      BY <2>1
    <3> HIDE DEF next
    <3>2. QED
      BY <3>1, LatticeAssumption DEF LatticeAssumption, Inactive, Active, Token
  <2>2. CASE into(n) # {}
    <3> DEFINE k == best(n)
    <3>1. k \in into(n)
      BY <1>6, <2>2
    <3>2. next[n] = [tb |-> tks[arc(k).from].tb, cost |-> cost(k)]
      BY <2>2
    <3> HIDE DEF k, next
    <3>3. k \in D /\ Active(tks[arc(k).from]) /\ arc(k).from \in 0 .. hmm.numStates /\ cost(k) \in Int
      BY <1>3, <1>4, <3>1
    <3>4. tks[arc(k).from] \in Token
      BY <1>2, <3>3 DEF ArcTokens
    <3> HIDE DEF cost, into
    <3>5. next[n] \in Token /\ Active(next[n]) /\ next[n].tb = tks[arc(k).from].tb
      BY <3>2, <3>3, <3>4 DEF Token, Active
    <3>6. QED
      BY <3>3, <3>5
  <2>3. QED
    BY <2>1, <2>2
<1>8. next \in [0 .. hmm.numStates -> Token]
  <2>1. DOMAIN next = 0 .. hmm.numStates /\ next = [n \in DOMAIN next |-> next[n]]
    OBVIOUS
  <2> HIDE DEF next
  <2>2. QED
    BY <1>7, <2>1
<1> HIDE DEF next
<1>9. QED
  BY <1>1, <1>2, <1>7, <1>8 DEF Advanced, ArcTokens

\* HMMTransitionModel::Expand on the tokens of an arc.
LEMMA ExpandAdvances ==
  ASSUME NEW hmm, HmmOK(hmm), ~IsNonEmitting(hmm), NEW tks \in ArcTokens(hmm),
         NEW labels, NEW am \in [labels -> Int], HmmLabels(hmm) \subseteq labels, NEW threshold
  PROVE  Advanced(hmm, tks, Expand(hmm, tks, am, threshold).tokens)
<1>1. CASE hmm.type = "leftToRight"
  BY <1>1, LeftToRightAdvances DEF Expand
<1>2. CASE hmm.type = "ergodic"
  BY <1>2, GenericAdvances DEF Expand
<1>3. QED
  BY <1>1, <1>2 DEF HmmOK, IsNonEmitting

-----------------------------------------------------------------------------
(* The inductive invariant *)

\* A numbering of the network states that every epsilon arc increases.
EpsilonAcyclic ==
  \A w \in Networks : \E h \in [DOMAIN w.final -> Nat] :
    \A a \in Range(w.arcs) : IsNonEmitting(Hmms[a.ilabel]) => h[a.src] < h[a.dst]

Height(w) == CHOOSE h \in [DOMAIN w.final -> Nat] :
               \A a \in Range(w.arcs) : IsNonEmitting(Hmms[a.ilabel]) => h[a.src] < h[a.dst]

\* Tokens and costs are what their declarations say, and only emitting arcs are active.
Types ==
  /\ token \in [States -> Token]
  /\ \A a \in ArcIds : tokens[a] \in ArcTokens(Hmm(a)) /\ (arcActive[a] => ~IsNonEmitting(Hmm(a)))
  /\ \A x \in LS : node[x].fwd \in Int
  /\ loc.at \in {"pop", "relax"} => loc.best \in Int
  /\ loc.at = "relax" => loc.cost \in Int

InFrame == {"states", "gc", "arcs", "compact", "undefined"}
InClosure == {"epsilon", "pop", "relax"}

\* A frame that is being decoded has a row in the features, and one after it.
Frames ==
  /\ time \in Nat \cup {-1}
  /\ loc.at = "idle" => time = -1
  /\ loc.at \notin {"idle", "fatal"} => utt \in Utterances /\ frame \in 0 .. Len(utt) - 1
  /\ loc.at \in InFrame => time # -1
  /\ loc.at \in InFrame \/ (loc.at \in InClosure /\ time # -1) => frame < Len(utt) - 1

\* What arcs' tokens and back pointers name is allocated.
Live ==
  loc.at # "cleanup" => /\ ArcHeld \subseteq Used
                        /\ \A y \in Used : BackPointers(y) \subseteq Used

\* Within a frame the lattice grows forwards: no state points back to one that a
\* search state's token has now, except along epsilon arcs, which lead upwards.
Layers ==
  /\ loc.at = "compact" => /\ ArcHeld \cap StateHeld = {}
                           /\ \A y \in Used : BackPointers(y) \cap StateHeld = {}
  /\ loc.at \in InClosure =>
       /\ \A y \in Used \ StateHeld : BackPointers(y) \cap StateHeld = {}
       /\ \A p, q \in States : Active(token[p]) /\ Active(token[q]) /\ token[p].tb \in BackPointers(token[q].tb)
                                 => Height(net)[p] < Height(net)[q]

RInv == class = "Lattice" /\ Types /\ Frames /\ Live /\ Layers

\* What TokenLattice sees of a step.
LatticeStep == TL!Next \/ UNCHANGED TL!vars

-----------------------------------------------------------------------------
(* The abstract lattice *)

\* The operations of the lattice are TokenLattice's.
LEMMA SameOperations ==
  ASSUME NEW src, NEW x, NEW cost, NEW olabel, NEW M
  PROVE  /\ TL!CombineNew(src, x, cost, olabel) <=> CombineNew(src, x, cost, olabel)
         /\ TL!CombineActive(src, x, cost, olabel) <=> CombineActive(src, x, cost, olabel)
         /\ TL!CreateStartState(x) <=> CreateStartState(x)
         /\ TL!Sweep(M) <=> Sweep(M)
<1>1. TL!Blank = Blank
  BY DEF TL!Blank, Blank, TL!NoArc, NoArc, TL!NoLabel, NoLabel
<1>2. TL!Used = Used /\ TL!Allocatable = Allocatable
  BY DEF TL!Used, Used, TL!Allocatable, Allocatable
<1>3. \A n : TL!NewState(x, n) <=> NewState(x, n)
  BY <1>2 DEF TL!NewState, NewState
<1>4. \A n : TL!WithArc(n, src, cost, olabel) = WithArc(n, src, cost, olabel)
  BY DEF TL!WithArc, WithArc
<1>5. /\ \A S : TL!Cardinality(S) = Cardinality(S)
      /\ \A s, N, i : TL!Rank(s, N, i) = Rank(s, N, i)
  <2>1. \A S : TL!Cardinality(S) = Cardinality(S)
    BY DEF TL!Cardinality, Cardinality
  <2>2. QED
    BY <2>1 DEF TL!Rank, Rank
<1>6. \A s : TL!Compact(s, M) = Compact(s, M)
  BY DEF TL!Compact, Compact, TL!Rank, Rank, TL!Cardinality, Cardinality
<1>7. TL!SweepStates(M) <=> SweepStates(M)
  BY <1>2, <1>5 DEF TL!SweepStates, SweepStates
<1>8. QED
  BY <1>1, <1>3, <1>4, <1>6, <1>7 DEF TL!CombineNew, CombineNew, TL!CombineActive, CombineActive,
     TL!CreateStartState, CreateStartState, TL!Sweep, Sweep

LEMMA SameReachable ==
  ASSUME NEW roots
  PROVE  TL!Reachable(roots) = Reachable(roots)
<1>1. TL!Used = Used /\ \A y : TL!BackPointers(y) = BackPointers(y)
  BY DEF TL!Used, Used, TL!BackPointers, BackPointers
<1>2. QED
  BY <1>1 DEF TL!Reachable, Reachable

LEMMA StutterStep ==
  ASSUME UNCHANGED <<latticeVars, net, token, tokens>>, Mode' = Mode
  PROVE  LatticeStep
<1>1. StateHeld' = StateHeld /\ ArcHeld' = ArcHeld
  BY DEF StateHeld, ArcHeld, HeldBy, States, ArcIds
<1>2. QED
  BY <1>1 DEF LatticeStep, TL!vars, latticeVars

LEMMA MoveStep ==
  ASSUME UNCHANGED latticeVars, Mode = "search", Mode' = "search",
         StateHeld' \subseteq StateHeld, ArcHeld' \subseteq StateHeld \cup ArcHeld
  PROVE  LatticeStep
<1>1. TL!MoveTokens
  BY DEF TL!MoveTokens, TL!Held, latticeVars
<1>2. QED
  BY <1>1 DEF LatticeStep, TL!Next

-----------------------------------------------------------------------------
(* A token arrives in a search state *)

LEMMA WithArcShape ==
  ASSUME NEW n, NEW src, NEW cost, NEW olabel
  PROVE  LET m == WithArc(n, src, cost, olabel)
         IN  /\ m.fwd \in {cost, n.fwd}
             /\ m.best.prev \in {src, n.best.prev}
             /\ {a.prev : a \in m.arcs} \subseteq {a.prev : a \in n.arcs} \cup {src}
  BY DEF WithArc

\* The back pointers a step leaves.
BackPointersAfter(y) == ({node'[y].best.prev} \ {NoLS}) \cup {a.prev : a \in node'[y].arcs}

\* What an arrival at lattice state tb of search state q, from src, does to the lattice.
Landed(q, src, tb) ==
  /\ Arrives(q, tb)
  /\ StateHeld' = StateHeld \cup {tb} /\ tb # NoLS
  /\ Active(token[q]) => tb \in StateHeld
  /\ BackPointersAfter(tb) \subseteq {src} \cup (IF Active(token[q]) THEN BackPointers(tb) ELSE {})
  /\ \A y \in LS \ {tb} : BackPointersAfter(y) = BackPointers(y)
  /\ \A x \in LS : node'[x].fwd \in Int
  /\ token' \in [States -> Token]

LEMMA StateHeldArrives ==
  ASSUME Shape, OwnStates, loc.at # "cleanup", net' = net, NEW q \in States, NEW tb, Arrives(q, tb)
  PROVE  /\ StateHeld' = StateHeld \cup {tb} /\ tb # NoLS
         /\ Active(token[q]) => tb \in StateHeld
<1>1. States' = States /\ tb # NoLS
  BY LatticeAssumption DEF States, Arrives, LatticeAssumption
<1>2. /\ \A p \in States : p # q => token'[p] = token[p]
      /\ token'[q].tb = tb
  BY DEF Arrives, Shape
<1>3. Active(token[q]) => token[q].tb = tb
  BY DEF Arrives
<1>4. \A x : x \in StateHeld' <=> x # NoLS /\ \E p \in States : token'[p].tb = x
  BY <1>1 DEF StateHeld
<1>5. \A x : x \in StateHeld <=> x # NoLS /\ \E p \in States : token[p].tb = x
  BY DEF StateHeld
<1>6. ASSUME NEW x, x \in StateHeld'
      PROVE  x \in StateHeld \cup {tb}
  BY <1>2, <1>4, <1>5, <1>6
<1>7. tb \in StateHeld'
  BY <1>1, <1>2, <1>4
<1>8. ASSUME NEW x \in StateHeld
      PROVE  x \in StateHeld'
  <2>1. PICK p \in States : token[p].tb = x /\ x # NoLS
    BY <1>5
  <2>2. CASE p = q
    BY <1>1, <1>2, <1>3, <1>7, <2>1, <2>2 DEF Active
  <2>3. CASE p # q
    BY <1>2, <1>4, <2>1, <2>3
  <2>4. QED
    BY <2>2, <2>3
<1>9. QED
  BY <1>1, <1>3, <1>5, <1>6, <1>7, <1>8

LEMMA LandedByCombine ==
  ASSUME Shape, OwnStates, Types, loc.at # "cleanup", net' = net, NEW q \in States, NEW tb, Arrives(q, tb),
         NEW src, NEW cost \in Int, NEW olabel,
         IF Active(token[q]) THEN CombineActive(src, tb, cost, olabel) ELSE CombineNew(src, tb, cost, olabel)
  PROVE  Landed(q, src, tb)
<1> DEFINE old == IF Active(token[q]) THEN node[tb] ELSE Blank
           n == WithArc(old, src, cost, olabel)
<1>1. tb \in LS /\ node' = [node EXCEPT ![tb] = n]
  <2>1. tb \in LS
    BY DEF Arrives
  <2>2. CASE Active(token[q])
    BY <2>1, <2>2 DEF CombineActive
  <2>3. CASE ~Active(token[q])
    BY <2>1, <2>3 DEF CombineNew, NewState
  <2>4. QED
    BY <2>1, <2>2, <2>3
<1>2. /\ n.fwd \in {cost, old.fwd}
      /\ n.best.prev \in {src, old.best.prev}
      /\ {a.prev : a \in n.arcs} \subseteq {a.prev : a \in old.arcs} \cup {src}
  <2> HIDE DEF old
  <2> QED BY WithArcShape
<1>3. Active(token[q]) \/ (old.best.prev = NoLS /\ old.arcs = {} /\ old.fwd = MaxCost)
  BY DEF Blank, NoArc
<1>4. old.fwd \in Int
  BY <1>1, <1>3, LatticeAssumption DEF LatticeAssumption, Types
<1>5. Active(token[q]) => old = node[tb]
  OBVIOUS
<1> HIDE DEF old, n
<1>6. node'[tb] = n /\ \A y \in LS : y # tb => node'[y] = node[y]
  BY <1>1 DEF Shape
<1>7. BackPointersAfter(tb) \subseteq {src} \cup (IF Active(token[q]) THEN BackPointers(tb) ELSE {})
  <2>1. BackPointersAfter(tb) = ({n.best.prev} \ {NoLS}) \cup {a.prev : a \in n.arcs}
    BY <1>6 DEF BackPointers, BackPointersAfter
  <2>2. CASE Active(token[q])
    <3>1. BackPointers(tb) = ({old.best.prev} \ {NoLS}) \cup {a.prev : a \in old.arcs}
      BY <1>5, <2>2 DEF BackPointers
    <3>2. QED
      BY <1>2, <2>1, <2>2, <3>1
  <2>3. CASE ~Active(token[q])
    BY <1>2, <1>3, <2>1, <2>3
  <2>4. QED
    BY <2>2, <2>3
<1>8. \A y \in LS \ {tb} : BackPointersAfter(y) = BackPointers(y)
  BY <1>6 DEF BackPointers, BackPointersAfter
<1>9. \A x \in LS : node'[x].fwd \in Int
  BY <1>2, <1>4, <1>6 DEF Types
<1>10. token' \in [States -> Token]
  <2>1. token' = [token EXCEPT ![q] = [tb |-> tb, cost |-> node'[tb].fwd]]
    BY DEF Arrives
  <2>2. node'[tb].fwd \in Int
    BY <1>1, <1>9
  <2>3. [tb |-> tb, cost |-> node'[tb].fwd] \in Token
    BY <1>1, <2>2 DEF Token
  <2>4. QED
    BY <2>1, <2>3 DEF Types
<1>11. QED
  BY <1>7, <1>8, <1>9, <1>10, StateHeldArrives DEF Landed

\* The arrival is a step of TokenLattice, if the destination is not among the
\* states the source descends from.
LEMMA ArrivalStep ==
  ASSUME SInv, RInv, {c \in Int : c < MaxCost} \subseteq Costs,
         UNCHANGED <<net, class, tokens>>, loc.at # "cleanup", Mode = "search", Mode' = "search",
         NEW q \in States, NEW src \in StateHeld \cup ArcHeld, NEW cost \in Int, cost < MaxCost,
         NEW olabel \in OLabels, SetToken(q, src, cost, olabel),
         Active(token[q]) => token[q].tb \notin Reachable({src})
  PROVE  LatticeStep /\ \E tb : Landed(q, src, tb)
<1> USE DEF SInv, RInv
<1>1. PICK tb : Arrives(q, tb)
  BY SetTokenArrives
<1>2. /\ IF Active(token[q]) THEN CombineActive(src, tb, cost, olabel) ELSE CombineNew(src, tb, cost, olabel)
      /\ Active(token[q]) => token[q].tb = tb
  <2> DEFINE e == IF Active(token[q]) THEN token[q].tb ELSE NewLatticeState
  <2>1. CombineToken(q, src, e, cost, olabel) /\ token' = [token EXCEPT ![q] = [tb |-> e, cost |-> node'[e].fwd]]
    BY DEF SetToken
  <2>2. Active(token[q]) => token[q].tb = e
    OBVIOUS
  <2> HIDE DEF e
  <2>3. e = tb
    <3>1. token'[q].tb = e
      BY <2>1 DEF Shape
    <3>2. token'[q].tb = tb
      BY <1>1 DEF Arrives, Shape
    <3>3. QED
      BY <3>1, <3>2
  <2>4. QED
    BY <2>1, <2>2, <2>3 DEF CombineToken
<1>3. Landed(q, src, tb)
  BY <1>1, <1>2, LandedByCombine
<1>4. StateHeld' = StateHeld \cup {tb} /\ ArcHeld' = ArcHeld /\ tb \in LS
  BY <1>3 DEF Landed, Arrives, ArcHeld, HeldBy, ArcIds
<1>5. src \in LS /\ cost \in Costs
  <2>1. StateHeld \subseteq Used
    BY DEF StateHeld, OwnStates, Active
  <2>2. ArcHeld \subseteq Used /\ Used \subseteq LS
    BY DEF Live, Used, Shape
  <2>3. QED
    BY <2>1, <2>2
<1>6. CASE Active(token[q])
  <2>1. CombineActive(src, tb, cost, olabel) /\ tb \in StateHeld /\ tb \notin Reachable({src})
    BY <1>2, <1>3, <1>6 DEF Landed
  <2>2. StateHeld' = StateHeld
    BY <1>4, <2>1
  <2>3. TL!EnterActive(src, tb, cost, olabel)
    BY <1>4, <2>1, <2>2, SameOperations, SameReachable DEF TL!EnterActive, TL!Held
  <2>4. QED
    BY <1>3, <1>4, <1>5, <2>3 DEF LatticeStep, TL!Next
<1>7. CASE ~Active(token[q])
  <2>1. CombineNew(src, tb, cost, olabel)
    BY <1>2, <1>7
  <2>2. TL!EnterInactive(src, tb, cost, olabel)
    BY <1>4, <2>1, SameOperations DEF TL!EnterInactive, TL!Held
  <2>3. QED
    BY <1>3, <1>4, <1>5, <2>2 DEF LatticeStep, TL!Next
<1>8. QED
  BY <1>6, <1>7

\* Nothing that is allocated names what is not.
LEMMA LandedLive ==
  ASSUME SInv, RInv, loc.at # "cleanup", UNCHANGED <<net, tokens>>,
         NEW q \in States, NEW src \in StateHeld \cup ArcHeld, NEW tb, Landed(q, src, tb)
  PROVE  Live'
<1> USE DEF SInv, RInv
<1>1. Used \subseteq Used' /\ tb \in Used' /\ Used' \subseteq Used \cup {tb} /\ tb \in LS /\ Used \subseteq LS
  <2>1. Used \subseteq LS
    BY DEF Used, Shape
  <2>2. QED
    BY <2>1 DEF Landed, Arrives, OwnStates
<1>2. ArcHeld' = ArcHeld
  BY DEF ArcHeld, HeldBy, ArcIds
<1>3. src \in Used
  BY DEF StateHeld, OwnStates, Active, Live
<1>4. ASSUME NEW y \in Used'
      PROVE  BackPointersAfter(y) \subseteq Used'
  <2>1. CASE y = tb
    <3>1. Active(token[q]) => tb \in Used
      BY DEF Landed, Arrives, OwnStates
    <3>2. BackPointersAfter(tb) \subseteq {src} \cup Used
      BY <3>1 DEF Landed, Live
    <3>3. QED
      BY <1>1, <1>3, <2>1, <3>2
  <2>2. CASE y # tb
    <3>1. y \in Used /\ y \in LS \ {tb}
      BY <1>1, <2>2
    <3>2. BackPointersAfter(y) = BackPointers(y)
      BY <3>1 DEF Landed
    <3>3. QED
      BY <1>1, <3>1, <3>2 DEF Live
  <2>3. QED
    BY <2>1, <2>2
<1>5. ArcHeld' \subseteq Used'
  BY <1>1, <1>2 DEF Live
<1>6. QED
  BY <1>4, <1>5 DEF Live, BackPointers, BackPointersAfter

LEMMA HeightShape ==
  ASSUME EpsilonAcyclic, net \in Networks
  PROVE  /\ Height(net) \in [States -> Nat]
         /\ \A a \in ArcIds : IsNonEmitting(Hmm(a)) => Height(net)[net.arcs[a].src] < Height(net)[net.arcs[a].dst]
<1>1. /\ Height(net) \in [DOMAIN net.final -> Nat]
      /\ \A a \in Range(net.arcs) : IsNonEmitting(Hmms[a.ilabel]) => Height(net)[a.src] < Height(net)[a.dst]
  BY DEF EpsilonAcyclic, Height
<1>2. \A a \in ArcIds : net.arcs[a] \in Range(net.arcs)
  BY DEF ArcIds, Range
<1>3. QED
  BY <1>1, <1>2 DEF States, Hmm

\* A destination above the source is not among the states the source descends from.
LEMMA UpwardsAcyclic ==
  ASSUME SInv, RInv, EpsilonAcyclic, loc.at \in InClosure, NEW s \in States, NEW d \in States,
         Active(token[s]), Active(token[d]), Height(net)[s] < Height(net)[d]
  PROVE  token[d].tb \notin Reachable({token[s].tb})
<1> DEFINE h == Height(net)
           C == {y \in Used : \A p \in States : Active(token[p]) /\ token[p].tb = y => h[p] < h[d]}
<1> USE DEF SInv, RInv
<1>1. loc.at # "cleanup" /\ \A p \in States : h[p] \in Nat
  BY HeightShape DEF InClosure, Shape
<1> HIDE DEF h
<1>2. /\ \A y \in Used \ StateHeld : BackPointers(y) \cap StateHeld = {}
      /\ \A p, q \in States : Active(token[p]) /\ Active(token[q]) /\ token[p].tb \in BackPointers(token[q].tb)
                                => h[p] < h[q]
  BY DEF Layers, h
<1>3. \A y \in Used : BackPointers(y) \subseteq Used
  BY <1>1 DEF Live
<1>4. ASSUME NEW y \in C, NEW z \in BackPointers(y)
      PROVE  z \in C
  <2>1. z \in Used
    BY <1>3, <1>4
  <2>2. ASSUME NEW p \in States, Active(token[p]), token[p].tb = z
        PROVE  h[p] < h[d]
    <3>1. z \in StateHeld
      BY <2>2 DEF StateHeld, Active
    <3>2. y \in StateHeld
      BY <1>2, <1>4, <3>1
    <3>3. PICK r \in States : token[r].tb = y /\ Active(token[r])
      BY <3>2 DEF StateHeld, Active
    <3>4. h[p] < h[r]
      BY <1>2, <1>4, <2>2, <3>3
    <3>5. h[r] < h[d]
      BY <1>4, <3>3
    <3>6. QED
      BY <1>1, <3>4, <3>5
  <2>3. QED
    BY <2>1, <2>2
<1>5. {token[s].tb} \subseteq C
  <2>1. token[s].tb \in Used /\ \A p \in States : token[p].tb = token[s].tb => p = s
    BY <1>1 DEF OwnStates
  <2>2. h[s] < h[d]
    BY DEF h
  <2>3. QED
    BY <2>1, <2>2
<1>6. token[d].tb \notin C
  BY <1>1
<1>7. Reachable({token[s].tb}) \subseteq C
  <2>1. C \in SUBSET Used /\ \A y \in C : BackPointers(y) \subseteq C
    BY <1>4
  <2> HIDE DEF C
  <2>2. QED
    BY <1>5, <2>1, ReachableLeast
<1>8. QED
  BY <1>6, <1>7

\* Nor is a state entered in this frame, when the source is not one.
LEMMA ForwardsAcyclic ==
  ASSUME SInv, RInv, loc.at = "compact", NEW src \in ArcHeld, NEW x \in StateHeld
  PROVE  x \notin Reachable({src})
<1> DEFINE C == Used \ StateHeld
<1> USE DEF SInv, RInv
<1>1. \A y \in C : BackPointers(y) \subseteq C
  BY DEF Live, Layers
<1>2. {src} \subseteq C
  BY DEF Live, Layers
<1>3. Reachable({src}) \subseteq C
  BY <1>1, <1>2, ReachableLeast
<1>4. QED
  BY <1>3

LEMMA LandedUpwards ==
  ASSUME SInv, RInv, EpsilonAcyclic, net' = net, loc.at \in InClosure, loc'.at \in InClosure,
         NEW s \in States, NEW d \in States, NEW tb,
         Active(token[s]), Landed(d, token[s].tb, tb), Height(net)[s] < Height(net)[d]
  PROVE  Layers'
<1> DEFINE h == Height(net)
           src == token[s].tb
<1> USE DEF SInv, RInv
<1>1. loc.at # "cleanup" /\ \A p \in States : h[p] \in Nat
  BY HeightShape DEF InClosure, Shape
<1>2. /\ \A y \in Used \ StateHeld : BackPointers(y) \cap StateHeld = {}
      /\ \A p, q \in States : Active(token[p]) /\ Active(token[q]) /\ token[p].tb \in BackPointers(token[q].tb)
                                => h[p] < h[q]
  BY DEF Layers
<1>3. \A y \in Used : BackPointers(y) \subseteq Used
  BY <1>1 DEF Live
<1>4. /\ StateHeld' = StateHeld \cup {tb} /\ Used' \subseteq Used \cup {tb} /\ tb \in LS /\ Used \subseteq LS
      /\ \A y \in LS \ {tb} : BackPointersAfter(y) = BackPointers(y)
      /\ tb \in Used => tb \in StateHeld
  <2>1. Used \subseteq LS
    BY DEF Used, Shape
  <2>2. QED
    BY <2>1 DEF Landed, Arrives
<1>5. ASSUME NEW y \in Used' \ StateHeld'
      PROVE  BackPointersAfter(y) \cap StateHeld' = {}
  <2>1. y \in Used \ StateHeld /\ BackPointersAfter(y) = BackPointers(y)
    BY <1>4, <1>5
  <2>2. tb \notin BackPointers(y)
    BY <1>2, <1>3, <1>4, <2>1
  <2>3. QED
    BY <1>2, <1>4, <2>1, <2>2
<1>6. States' = States /\ Height(net)' = h
  BY DEF States
<1>7. /\ \A p \in States : p # d => token'[p] = token[p]
      /\ token'[d].tb = tb
      /\ \A p \in States : p # d => token[p].tb # tb
  <2>1. tb # NoLS
    BY DEF Landed
  <2>2. CASE Active(token[d])
    BY <1>1, <2>2 DEF Landed, Arrives, Shape, OwnStates
  <2>3. CASE ~Active(token[d])
    BY <1>1, <2>1, <2>3 DEF Landed, Arrives, Shape, OwnStates, Active
  <2>4. QED
    BY <2>2, <2>3
<1>8. src \in Used /\ \A p \in States : token[p].tb = src => p = s
  BY <1>1 DEF OwnStates
<1>9. s # d
  BY <1>1
<1> HIDE DEF h, src
<1>10. ASSUME NEW p \in States, NEW q \in States, Active(token'[p]), Active(token'[q]),
              token'[p].tb \in BackPointersAfter(token'[q].tb)
       PROVE  h[p] < h[q]
  <2>1. CASE q = d
    <3>1. token'[p].tb \in {src} \cup (IF Active(token[d]) THEN BackPointers(tb) ELSE {})
      BY <1>7, <1>10, <2>1 DEF Landed, src
    <3>2. CASE token'[p].tb = src
      <4>1. p # d
        BY <1>7, <1>9, <3>2 DEF src
      <4>2. p = s
        BY <1>7, <1>8, <3>2, <4>1
      <4>3. QED
        BY <2>1, <4>2 DEF h
    <3>3. CASE Active(token[d]) /\ token'[p].tb \in BackPointers(tb)
      <4>1. token[d].tb = tb
        BY <3>3 DEF Landed, Arrives
      <4>2. token'[p].tb = token[p].tb /\ Active(token[p])
        BY <1>7, <1>10, <4>1 DEF Active
      <4>3. QED
        BY <1>2, <2>1, <3>3, <4>1, <4>2
    <3>4. QED
      BY <3>1, <3>2, <3>3
  <2>2. CASE q # d
    <3>1. token'[q] = token[q] /\ token[q].tb \in Used /\ token[q].tb \in LS \ {tb}
      BY <1>1, <1>4, <1>7, <1>10, <2>2 DEF OwnStates
    <3>2. BackPointersAfter(token'[q].tb) = BackPointers(token[q].tb)
      BY <1>4, <3>1
    <3>3. token'[p].tb \in BackPointers(token[q].tb) /\ token'[p].tb \in Used
      BY <1>3, <1>10, <3>1, <3>2
    <3>4. token'[p].tb = token[p].tb /\ Active(token[p])
      <4>1. CASE p = d
        <5>1. tb \in Used
          BY <1>7, <3>3, <4>1
        <5>2. Active(token[d]) /\ token[d].tb = tb
          BY <5>1 DEF Landed, Arrives
        <5>3. QED
          BY <1>7, <4>1, <5>2
      <4>2. CASE p # d
        BY <1>7, <1>10, <4>2
      <4>3. QED
        BY <4>1, <4>2
    <3>5. QED
      BY <1>2, <1>10, <3>1, <3>3, <3>4
  <2>3. QED
    BY <2>1, <2>2
<1>11. loc'.at # "compact"
  BY DEF InClosure
<1>12. QED
  BY <1>5, <1>6, <1>10, <1>11 DEF Layers, BackPointers, BackPointersAfter, h

LEMMA LandedForwards ==
  ASSUME SInv, RInv, loc.at = "compact", loc'.at = "compact", UNCHANGED <<net, tokens>>,
         NEW q \in States, NEW src \in ArcHeld, NEW tb, Landed(q, src, tb)
  PROVE  Layers'
<1> USE DEF SInv, RInv
<1>1. /\ ArcHeld \cap StateHeld = {} /\ ArcHeld \subseteq Used
      /\ \A y \in Used : BackPointers(y) \cap StateHeld = {} /\ BackPointers(y) \subseteq Used
  BY DEF Layers, Live
<1>2. /\ StateHeld' = StateHeld \cup {tb} /\ Used' \subseteq Used \cup {tb} /\ tb \in LS /\ Used \subseteq LS
      /\ tb \in Used => tb \in StateHeld
  <2>1. Used \subseteq LS
    BY DEF Used, Shape
  <2>2. QED
    BY <2>1 DEF Landed, Arrives
<1>3. ArcHeld' = ArcHeld
  BY DEF ArcHeld, HeldBy, ArcIds
<1>4. ArcHeld' \cap StateHeld' = {}
  BY <1>1, <1>2, <1>3
<1>5. ASSUME NEW y \in Used'
      PROVE  BackPointersAfter(y) \cap StateHeld' = {}
  <2>1. CASE y = tb
    <3>1. Active(token[q]) => tb \in Used
      BY DEF Landed, Arrives, OwnStates
    <3>2. BackPointersAfter(tb) \subseteq {src} \cup (IF Active(token[q]) THEN BackPointers(tb) ELSE {})
      BY DEF Landed
    <3>3. tb # src /\ src \notin StateHeld
      BY <1>1, <1>2
    <3>4. Active(token[q]) => BackPointers(tb) \cap (StateHeld \cup {tb}) = {}
      BY <1>1, <3>1 DEF Landed
    <3>5. QED
      BY <1>2, <2>1, <3>2, <3>3, <3>4
  <2>2. CASE y # tb
    <3>1. y \in Used /\ BackPointersAfter(y) = BackPointers(y)
      BY <1>2, <2>2 DEF Landed
    <3>2. tb \notin BackPointers(y)
      BY <1>1, <1>2, <3>1
    <3>3. QED
      BY <1>1, <1>2, <3>1, <3>2
  <2>3. QED
    BY <2>1, <2>2
<1>6. QED
  BY <1>4, <1>5 DEF Layers, InClosure, BackPointers, BackPointersAfter

-----------------------------------------------------------------------------
(* Steps that only move control *)

LEMMA UtteranceShape ==
  ASSUME NEW u \in Utterances
  PROVE  /\ Len(u) \in Nat \ {0}
         /\ \A i \in 1 .. Len(u) : u[i] \in [UNION {HmmLabels(Hmms[l]) : l \in DOMAIN Hmms} -> Int]
<1> DEFINE R == [UNION {HmmLabels(Hmms[l]) : l \in DOMAIN Hmms} -> Int]
<1>1. u \in Seq(R) \ {<<>>}
  BY DecoderAssumption DEF DecoderAssumption
<1> HIDE DEF R
<1>2. Len(u) \in Nat \ {0} /\ \A i \in 1 .. Len(u) : u[i] \in R
  BY <1>1
<1>3. QED
  BY <1>2 DEF R

LEMMA FramesKept ==
  ASSUME Frames, UNCHANGED <<time, frame, utt>>, loc.at \notin {"idle", "fatal"}, loc'.at # "idle",
         loc'.at \in InFrame => loc.at \in InFrame,
         loc'.at \in InClosure => loc.at \in InFrame \cup InClosure
  PROVE  Frames'
  BY DEF Frames, InFrame, InClosure

Searching == {"frame", "end"} \cup InFrame \cup InClosure

LEMMA ControlRefines ==
  ASSUME SInv, RInv, UNCHANGED <<latticeVars, token, tokens, arcActive, netVars>>,
         loc.at \in Searching, loc'.at \in Searching, Frames',
         loc'.at \in {"pop", "relax"} => loc'.best \in Int, loc'.at = "relax" => loc'.cost \in Int,
         loc'.at \in InClosure => loc.at \in InClosure \cup {"compact"},
         loc'.at = "compact" => loc.at = "compact" \/ StateHeld = {}
  PROVE  RInv' /\ LatticeStep
<1> USE DEF SInv, RInv
<1>1. /\ net' = net /\ class' = class /\ States' = States /\ ArcIds' = ArcIds
      /\ usedList' = usedList /\ node' = node
  BY DEF netVars, States, ArcIds, latticeVars
<1>2. Mode = "search" /\ Mode' = "search"
  BY DEF Mode, Searching, InFrame, InClosure
<1>3. LatticeStep
  BY <1>1, <1>2, StutterStep
<1>4. StateHeld' = StateHeld /\ ArcHeld' = ArcHeld /\ Used' = Used
  BY <1>1 DEF StateHeld, ArcHeld, HeldBy, Used
<1>5. Types'
  BY <1>1 DEF Types, Hmm
<1>6. loc.at # "cleanup" /\ loc'.at # "cleanup"
  BY DEF Searching, InFrame, InClosure
<1>7. Live'
  BY <1>1, <1>4, <1>6 DEF Live, BackPointers
<1>8. Layers'
  <2>1. CASE loc'.at = "compact"
    <3>1. loc'.at \notin InClosure
      BY <2>1 DEF InClosure
    <3>2. QED
      BY <1>1, <1>4, <2>1, <3>1 DEF Layers, BackPointers
  <2>2. CASE loc'.at \in InClosure
    <3>1. loc'.at # "compact"
      BY <2>2 DEF InClosure
    <3>2. CASE loc.at = "compact"
      <4>1. \A y \in Used : BackPointers(y) \cap StateHeld = {}
        BY <3>2 DEF Layers
      <4>2. \A q \in States : Active(token[q]) => token[q].tb \in Used /\ token[q].tb \in StateHeld
        BY <1>6 DEF OwnStates, StateHeld, Active
      <4>3. QED
        BY <1>1, <1>4, <3>1, <4>1, <4>2 DEF Layers, BackPointers
    <3>3. CASE loc.at \in InClosure
      BY <1>1, <1>4, <3>1, <3>3 DEF Layers, BackPointers
    <3>4. QED
      BY <2>2, <3>2, <3>3
  <2>3. QED
    BY <2>1, <2>2 DEF Layers
<1>9. QED
  BY <1>1, <1>3, <1>5, <1>7, <1>8

LEMMA NextFrameRefines ==
  ASSUME SInv, RInv, NextFrame
  PROVE  RInv' /\ LatticeStep
<1> USE DEF SInv, RInv
<1>1. loc.at = "frame" /\ UNCHANGED <<latticeVars, token, tokens, arcActive, netVars, utt, frame>>
  BY DEF NextFrame, stateVars, arcVars
<1>2. utt \in Utterances /\ frame \in 0 .. Len(utt) - 1 /\ Len(utt) \in Nat \ {0} /\ time \in Nat \cup {-1}
  BY <1>1, UtteranceShape DEF Frames
<1>3. CASE frame = Len(utt) - 1
  <2>1. loc'.at = "end" /\ time' = time
    BY <1>3, GotoLoc DEF NextFrame
  <2>2. Frames'
    BY <1>1, <1>2, <2>1 DEF Frames, InFrame, InClosure
  <2>3. QED
    BY <1>1, <2>1, <2>2, ControlRefines DEF Searching, InFrame, InClosure
<1>4. CASE frame # Len(utt) - 1
  <2>1. loc'.at = "states" /\ time' = time + 1
    BY <1>4, GotoLoc DEF NextFrame
  <2>2. Frames'
    BY <1>1, <1>2, <1>4, <2>1 DEF Frames, InFrame, InClosure
  <2>3. QED
    BY <1>1, <2>1, <2>2, ControlRefines DEF Searching, InFrame, InClosure
<1>5. QED
  BY <1>3, <1>4

LEMMA EndEpsilonRefines ==
  ASSUME SInv, RInv, EndEpsilon
  PROVE  RInv' /\ LatticeStep
<1> USE DEF SInv, RInv
<1>1. /\ loc.at = "pop" /\ UNCHANGED <<latticeVars, token, tokens, arcActive, netVars, utt, time>>
      /\ frame' = IF time = -1 THEN frame ELSE frame + 1
  BY DEF EndEpsilon, stateVars, arcVars
<1>2. loc'.at = "frame"
  BY GotoLoc DEF EndEpsilon
<1>3. /\ utt \in Utterances /\ frame \in 0 .. Len(utt) - 1 /\ Len(utt) \in Nat \ {0}
      /\ time # -1 => frame < Len(utt) - 1
  BY <1>1, UtteranceShape DEF Frames, InClosure
<1>4. Frames'
  BY <1>1, <1>2, <1>3 DEF Frames, InFrame, InClosure
<1>5. QED
  BY <1>1, <1>2, <1>4, ControlRefines DEF Searching, InFrame, InClosure

LEMMA NoStatesHeld ==
  ASSUME SInv, activeStates = <<>>
  PROVE  StateHeld = {}
  BY NoStateTokens DEF SInv, StateHeld, Active

LEMMA EndStatesRefines ==
  ASSUME SInv, RInv, EndStates \/ SwapArcs \/ SkipSlot \/ EndArcs
  PROVE  RInv' /\ LatticeStep
<1> USE DEF SInv, RInv
<1>1. UNCHANGED <<latticeVars, token, tokens, arcActive, netVars, utt, time, frame>>
  BY DEF EndStates, SwapArcs, SkipSlot, EndArcs, stateVars, arcVars, uttVars
<1>2. \/ loc.at = "states" /\ loc'.at \in {"gc", "arcs"}
      \/ loc.at = "arcs" /\ loc'.at \in {"undefined", "compact"}
      \/ loc.at = "compact" /\ loc'.at = "compact"
      \/ loc.at = "compact" /\ loc'.at = "epsilon"
  <2>1. CASE EndStates
    BY <2>1, GotoLoc DEF EndStates
  <2>2. CASE SwapArcs
    BY <2>2, GotoLoc DEF SwapArcs, Shape
  <2>3. CASE SkipSlot
    BY <2>3 DEF SkipSlot, Shape
  <2>4. CASE EndArcs
    BY <2>4, GotoLoc DEF EndArcs
  <2>5. QED
    BY <2>1, <2>2, <2>3, <2>4
<1>3. loc.at = "arcs" => StateHeld = {}
  BY NoStatesHeld DEF EmptySlots
<1>4. Frames'
  BY <1>1, <1>2, FramesKept DEF InFrame, InClosure
<1>5. QED
  BY <1>1, <1>2, <1>3, <1>4, ControlRefines DEF Searching, InFrame, InClosure

\* The control of the epsilon expansion, and its costs.
LEMMA EpsilonControlRefines ==
  ASSUME SInv, RInv, QueueStates \/ PopState \/ EndRelax
  PROVE  RInv' /\ LatticeStep
<1> USE DEF SInv, RInv
<1>1. UNCHANGED <<latticeVars, token, tokens, arcActive, netVars, utt, time, frame>>
  BY DEF QueueStates, PopState, EndRelax, stateVars, arcVars, uttVars
<1>2. MaxCost \in Int
  BY LatticeAssumption DEF LatticeAssumption
<1>3. /\ loc.at \in InClosure /\ loc'.at \in {"pop", "relax"}
      /\ loc'.best \in Int /\ (loc'.at = "relax" => loc'.cost \in Int)
  <2>1. CASE QueueStates
    <3> DEFINE costs == {token[q].cost : q \in Range(activeStates)}
    <3>1. loc.at = "epsilon" /\ loc'.at = "pop" /\ loc'.best = Min({MaxCost} \cup costs)
      BY <2>1 DEF QueueStates, Shape
    <3>2. costs \subseteq Int
      <4>1. \A i \in DOMAIN activeStates : activeStates[i] \in States
        BY <3>1 DEF EmptySlots, Full, Shape
      <4>2. \A q \in States : token[q].cost \in Int
        BY DEF Types, Token
      <4>3. QED
        BY <4>1, <4>2 DEF Range
    <3>3. IsFiniteSet(costs)
      <4> DEFINE n == Len(activeStates)
                 f == [i \in 1 .. n |-> token[activeStates[i]].cost]
      <4>1. n \in Nat /\ DOMAIN activeStates = 1 .. n
        BY DEF Shape
      <4>2. costs = {f[i] : i \in 1 .. n}
        BY <4>1 DEF Range
      <4>3. IsFiniteSet(1 .. n)
        <5> HIDE DEF n
        <5> QED BY <4>1, FS_Interval
      <4> HIDE DEF f, n, costs
      <4>4. QED
        BY <4>2, <4>3, FiniteImage
    <3> HIDE DEF costs
    <3>4. IsFiniteSet({MaxCost} \cup costs)
      BY <3>3, FS_Singleton, FS_Union
    <3>5. Min({MaxCost} \cup costs) \in {MaxCost} \cup costs
      BY <1>2, <3>2, <3>4, MinType
    <3>6. QED
      BY <1>2, <3>1, <3>2, <3>5 DEF InClosure
  <2>2. CASE PopState
    <3> DEFINE q == Head(epsQueue)
    <3>1. /\ loc.at = "pop" /\ loc.best \in Int
          /\ \/ loc' = loc
             \/ loc' = [loc EXCEPT !.at = "relax", !.state = q, !.i = 1, !.cost = MaxCost]
      BY <2>2 DEF PopState, Types
    <3> HIDE DEF q
    <3>2. QED
      BY <1>2, <3>1 DEF InClosure, Shape
  <2>3. CASE EndRelax
    <3>1. /\ loc.at = "relax" /\ loc.best \in Int /\ loc.cost \in Int
          /\ \/ loc' = [loc EXCEPT !.at = "pop", !.best = loc.cost, !.threshold = Plus(loc.cost, Beam)]
             \/ loc' = [loc EXCEPT !.at = "pop"]
      BY <2>3 DEF EndRelax, Types
    <3>2. QED
      BY <3>1 DEF InClosure, Shape
  <2>4. QED
    BY <2>1, <2>2, <2>3
<1>4. Frames'
  BY <1>1, <1>3, FramesKept DEF InFrame, InClosure
<1>5. QED
  BY <1>1, <1>3, <1>4, ControlRefines DEF Searching, InFrame, InClosure

-----------------------------------------------------------------------------
(* The utterance begins *)

LEMMA InitRInv ==
  ASSUME Init, LatticeClasses \subseteq {"Lattice"}
  PROVE  RInv /\ TL!Init
<1> USE DEF Init, Fresh
<1>1. States = DOMAIN net.final /\ ArcIds = DOMAIN net.arcs /\ MaxCost \in Nat
  BY LatticeAssumption DEF States, ArcIds, LatticeAssumption
<1>2. StateHeld = {} /\ Used = {}
  BY <1>1 DEF StateHeld, Inactive, Used
<1>3. \A a \in ArcIds : HeldBy(a) = {} /\ tokens[a] \in ArcTokens(Hmm(a)) /\ ~arcActive[a]
  <2>1. TAKE a \in ArcIds
  <2>2. tokens[a] = NoTokens(Hmm(a))
    BY <1>1 DEF Hmm
  <2>3. \A n \in DOMAIN NoTokens(Hmm(a)) : NoTokens(Hmm(a))[n].tb = NoLS
    BY DEF NoTokens, Inactive
  <2>4. HeldBy(a) = {}
    BY <2>2, <2>3 DEF HeldBy
  <2>5. QED
    BY <1>1, <2>2, <2>4, NoTokensType
<1>4. ArcHeld = {}
  BY <1>3 DEF ArcHeld
<1>5. Types
  <2>1. token \in [States -> Token] /\ \A x \in LS : node[x].fwd \in Int
    BY <1>1 DEF Token, Inactive, Blank
  <2>2. loc.at = "idle"
    OBVIOUS
  <2>3. QED
    BY <1>3, <2>1, <2>2 DEF Types
<1>6. Frames /\ Live /\ Layers
  BY <1>2, <1>4 DEF Frames, Live, Layers, InFrame, InClosure
<1>7. TL!Init
  <2>1. TL!Blank = Blank /\ Mode = "idle"
    BY DEF TL!Blank, Blank, TL!NoArc, NoArc, TL!NoLabel, NoLabel, Mode
  <2>2. QED
    BY <1>2, <1>4, <2>1 DEF TL!Init
<1>8. QED
  BY <1>5, <1>6, <1>7 DEF RInv

LEMMA BeginDecodeRefines ==
  ASSUME SInv, RInv, BeginDecode
  PROVE  RInv' /\ LatticeStep
<1> DEFINE x == NewLatticeState
           q == net.start
           t == [tb |-> x, cost |-> 0]
<1> USE DEF SInv, RInv
<1>1. loc.at = "idle" /\ activeStates = <<>> /\ q \in States /\ time = -1
  BY NetworkShape DEF BeginDecode, EmptySlots, Shape, Frames
<1>2. ~Active(token[q]) /\ StateHeld = {}
  BY <1>1, NoStateTokens, NoStatesHeld
<1>3. /\ CreateStartState(x) /\ Activate(q, t) /\ Goto("epsilon", MaxCost)
      /\ utt' \in Utterances /\ frame' = 0
      /\ net' = net /\ class' = class /\ tokens' = tokens /\ arcActive' = arcActive /\ time' = time
  BY DEF BeginDecode, netVars, arcVars
<1> HIDE DEF x
<1>4. Allocates(x, [Blank EXCEPT !.fwd = 0])
  BY <1>3, NewStateAllocates DEF CreateStartState
<1>5. /\ x \in LS \ Used /\ Used' = Used \cup {x}
      /\ node' = [node EXCEPT ![x] = [Blank EXCEPT !.fwd = 0]]
  BY <1>4 DEF Allocates
<1>6. node'[x] = [Blank EXCEPT !.fwd = 0] /\ \A y \in LS : y # x => node'[y] = node[y]
  BY <1>5 DEF Shape
<1>7. token' = [token EXCEPT ![q] = t] /\ JoinActiveStates(q)
  BY <1>2, <1>3 DEF Activate
<1>8. node'[x].fwd = 0 /\ BackPointersAfter(x) = {} /\ \A y \in LS : y # x => BackPointersAfter(y) = BackPointers(y)
  BY <1>6 DEF BackPointers, BackPointersAfter, Blank, NoArc
<1>9. Arrives(q, x)
  BY <1>2, <1>4, <1>7, <1>8, AllocatesArrives
<1>10. /\ StateHeld' = {x} /\ ArcHeld' = ArcHeld /\ States' = States /\ ArcIds' = ArcIds
  <2>1. StateHeld' = StateHeld \cup {x}
    BY <1>1, <1>3, <1>9, StateHeldArrives
  <2>2. QED
    BY <1>2, <1>3, <2>1 DEF ArcHeld, HeldBy, ArcIds, States
<1>11. loc'.at = "epsilon" /\ Mode = "idle" /\ Mode' = "search"
  BY <1>1, <1>3, GotoLoc DEF Mode
<1>12. Types'
  <2>1. t \in Token
    BY <1>5 DEF Token
  <2>2. token' \in [States -> Token]
    BY <1>7, <2>1 DEF Types
  <2>3. \A y \in LS : node'[y].fwd \in Int
    <3>1. \A y \in LS : y # x => node'[y] = node[y] /\ node[y].fwd \in Int
      BY <1>6 DEF Types
    <3>2. QED
      BY <1>8, <3>1
  <2>4. QED
    BY <1>3, <1>10, <1>11, <2>2, <2>3 DEF Types, Hmm
<1>13. Frames'
  <2>1. Len(utt') \in Nat \ {0}
    BY <1>3, UtteranceShape
  <2>2. QED
    BY <1>1, <1>3, <1>11, <2>1 DEF Frames, InFrame, InClosure
<1>14. ArcHeld \subseteq Used /\ (\A y \in Used : BackPointers(y) \subseteq Used) /\ Used \subseteq LS
  BY <1>1 DEF Live, Used, Shape
<1>15. Live'
  <2>1. \A y \in Used' : BackPointersAfter(y) \subseteq Used'
    BY <1>5, <1>8, <1>14
  <2>2. ArcHeld' \subseteq Used'
    BY <1>5, <1>10, <1>14
  <2>3. QED
    BY <2>1, <2>2 DEF Live, BackPointers, BackPointersAfter
<1>16. Layers'
  <2>1. \A y \in Used' \ StateHeld' : BackPointersAfter(y) \cap StateHeld' = {}
    BY <1>5, <1>8, <1>10, <1>14
  <2>2. \A p \in States : Active(token'[p]) => token'[p].tb = x
    BY <1>10 DEF StateHeld, Active
  <2>3. QED
    BY <1>8, <1>11, <2>1, <2>2, <1>10 DEF Layers, BackPointers, BackPointersAfter
<1>17. LatticeStep
  <2>1. TL!BeginDecode(x)
    BY <1>3, <1>10, <1>11, SameOperations DEF TL!BeginDecode
  <2>2. QED
    BY <1>5, <2>1 DEF LatticeStep, TL!Next
<1>18. QED
  BY <1>3, <1>12, <1>13, <1>15, <1>16, <1>17

-----------------------------------------------------------------------------
(* Epsilon arcs are followed *)

\* The best cost and the beam stay in the range of costs, up to kMaxCost: beyond it
\* AddArc records no best arc, and the state entered looks like a start state.
CostsInRange == PruneEps => Plus(loc.best, Beam) <= MaxCost

LEMMA RelaxArcRefines ==
  ASSUME SInv, RInv, CostsInRange, EpsilonAcyclic, {c \in Int : c < MaxCost} \subseteq Costs, RelaxArc
  PROVE  RInv' /\ LatticeStep
<1> DEFINE s == loc.state
           a == EpsilonArcs(s)[loc.i]
           dst == net.arcs[a].dst
           src == token[s].tb
           weight == net.arcs[a].weight
           cost == Plus(token[s].cost, weight)
           limit == IF PruneEps THEN Plus(loc.best, Beam) ELSE MaxCost
<1> USE DEF SInv, RInv
<1>1. /\ loc.at = "relax" /\ s \in States /\ Active(token[s]) /\ loc.i \in 1 .. Len(EpsilonArcs(s))
      /\ net' = net /\ class' = class /\ tokens' = tokens /\ arcActive' = arcActive
      /\ UNCHANGED <<utt, frame, time>> /\ States' = States /\ ArcIds' = ArcIds
  <2>1. Len(EpsilonArcs(loc.state)) \in Nat
    BY EpsilonArcsShape DEF RelaxArc, Queue, Shape
  <2>2. QED
    BY <2>1 DEF RelaxArc, Queue, Shape, uttVars, arcVars, netVars, States, ArcIds
<1>2. /\ a \in ArcIds /\ dst \in States /\ weight \in Int /\ net.arcs[a].olabel \in OLabels
      /\ net.arcs[a].src = s /\ IsNonEmitting(Hmm(a))
  <2>1. EpsilonArcs(s) \in Seq(ArcIds) /\ net.arcs[a].src = s /\ IsNonEmitting(Hmm(a))
    BY <1>1, EpsilonArcsShape DEF Shape
  <2>2. a \in ArcIds
    BY <1>1, <2>1
  <2> HIDE DEF a
  <2>3. QED
    BY <2>1, <2>2, NetworkShape DEF Shape
<1>3. cost \in Int
  <2>1. token[s].cost \in Int
    BY <1>1 DEF Types, Token
  <2> HIDE DEF weight
  <2>2. QED
    BY <1>2, <2>1, PlusType
<1>4. /\ loc'.at = "relax" /\ loc'.best = loc.best /\ loc'.cost \in Int
  <2>1. loc.cost \in Int /\ loc.best \in Int
    BY <1>1 DEF Types
  <2>2. Min({loc.cost, cost}) \in Int
    <3> DEFINE m == cost
               k == loc.cost
    <3>1. IsFiniteSet({k, m}) /\ {k, m} = {k} \cup {m}
      <4> HIDE DEF k, m
      <4>1. {k, m} = {k} \cup {m}
        OBVIOUS
      <4>2. IsFiniteSet({k}) /\ IsFiniteSet({m})
        BY FS_Singleton
      <4>3. QED
        BY <4>1, <4>2, FS_Union
    <3>2. {k, m} \in SUBSET Int /\ {k, m} # {}
      <4>1. k \in Int /\ m \in Int
        BY <1>3, <2>1
      <4> HIDE DEF k, m
      <4>2. QED
        BY <4>1
    <3> HIDE DEF k, m
    <3>3. Min({k, m}) \in {k, m}
      BY <3>1, <3>2, MinType
    <3>4. QED
      BY <3>2, <3>3 DEF k, m
  <2> HIDE DEF cost
  <2>3. \/ loc' = [loc EXCEPT !.i = @ + 1, !.cost = Min({@, cost})]
        \/ loc' = [loc EXCEPT !.i = @ + 1]
    BY DEF RelaxArc, cost
  <2>4. QED
    BY <1>1, <2>1, <2>2, <2>3 DEF Shape
<1>5. Frames'
  BY <1>1, <1>4, FramesKept DEF InFrame, InClosure
<1>6. Mode = "search" /\ Mode' = "search" /\ loc.at # "cleanup" /\ loc.at \in InClosure /\ loc'.at \in InClosure
  BY <1>1, <1>4 DEF Mode, InClosure
<1>7. CASE cost < limit
  <2>1. SetToken(dst, src, cost, net.arcs[a].olabel)
    BY <1>7 DEF RelaxArc, ExpandToFollowingState
  <2>2. cost < MaxCost
    <3>1. limit <= MaxCost /\ limit \in Int
      <4>1. loc.best \in Int /\ Beam \in Int /\ MaxCost \in Int
        BY <1>1, LatticeAssumption, DecoderAssumption DEF Types, LatticeAssumption, DecoderAssumption
      <4>2. Plus(loc.best, Beam) \in Int
        BY <4>1, PlusType
      <4>3. QED
        BY <4>1, <4>2 DEF CostsInRange
    <3> HIDE DEF cost, limit
    <3>2. MaxCost \in Int
      BY LatticeAssumption DEF LatticeAssumption
    <3>3. QED
      BY <1>3, <1>7, <3>1, <3>2
  <2>3. Height(net)[s] < Height(net)[dst]
    <3> HIDE DEF a
    <3> QED BY <1>2, HeightShape DEF Shape
  <2>4. src \in StateHeld
    BY <1>1 DEF StateHeld, Active
  <2>5. Active(token[dst]) => token[dst].tb \notin Reachable({src})
    <3> HIDE DEF dst
    <3> QED BY <1>1, <1>2, <1>6, <2>3, UpwardsAcyclic
  <2> HIDE DEF cost, src
  <2>6. LatticeStep /\ \E tb : Landed(dst, src, tb)
    <3> DEFINE olabel == net.arcs[a].olabel
    <3>1. olabel \in OLabels /\ SetToken(dst, src, cost, olabel) /\ dst \in States
      BY <1>2, <2>1
    <3> HIDE DEF olabel, dst
    <3>2. QED
      BY <1>1, <1>3, <1>6, <2>2, <2>4, <2>5, <3>1, ArrivalStep
  <2>7. PICK tb : Landed(dst, src, tb)
    BY <2>6
  <2>8. Live'
    <3> HIDE DEF dst
    <3> QED BY <1>1, <1>2, <1>6, <2>4, <2>7, LandedLive
  <2>9. Layers'
    <3>1. Landed(dst, token[s].tb, tb)
      BY <2>7 DEF src
    <3> HIDE DEF dst
    <3>2. QED
      BY <1>1, <1>2, <1>6, <2>3, <3>1, LandedUpwards
  <2>10. Types'
    <3>1. token' \in [States -> Token] /\ \A x \in LS : node'[x].fwd \in Int
      BY <2>7 DEF Landed
    <3>2. QED
      BY <1>1, <1>4, <3>1 DEF Types, Hmm
  <2>11. QED
    BY <1>1, <1>5, <2>6, <2>8, <2>9, <2>10
<1>8. CASE ~(cost < limit)
  <2>1. UNCHANGED <<latticeVars, stateVars>>
    BY <1>8 DEF RelaxArc
  <2>2. loc.best \in Int
    BY <1>1 DEF Types
  <2>3. UNCHANGED <<latticeVars, token, tokens, arcActive, netVars>>
    BY <1>1, <2>1 DEF stateVars, netVars
  <2>4. QED
    BY <1>1, <1>4, <1>5, <1>6, <2>2, <2>3, ControlRefines DEF Searching, InFrame, InClosure
<1>9. QED
  BY <1>7, <1>8

-----------------------------------------------------------------------------
(* Tokens move and leave the arcs *)

LEMMA HmmShape ==
  ASSUME net \in Networks, NEW a \in ArcIds
  PROVE  HmmOK(Hmm(a)) /\ GetExitWeight(Hmm(a)) \in Int /\ NumStates(Hmm(a)) \in Nat
         /\ HmmLabels(Hmm(a)) \subseteq UNION {HmmLabels(Hmms[l]) : l \in DOMAIN Hmms}
<1>1. net.arcs[a].ilabel \in DOMAIN Hmms
  BY NetworkShape
<1>2. HmmOK(Hmm(a))
  BY <1>1, DecoderAssumption DEF DecoderAssumption, Hmm
<1>3. GetExitWeight(Hmm(a)) \in Int
  BY <1>2 DEF HmmOK, GetExitWeight
<1>4. QED
  BY <1>1, <1>2, <1>3, NumStatesType DEF Hmm

\* Tokens move inside the network and no lattice state is touched.
LEMMA MovesRefine ==
  ASSUME SInv, RInv, UNCHANGED <<latticeVars, net, class, utt, frame, time>>,
         loc.at \in {"states", "arcs", "compact"}, loc'.at = loc.at,
         token' \in [States -> Token],
         \A a \in ArcIds : tokens'[a] \in ArcTokens(Hmm(a)) /\ (arcActive'[a] => ~IsNonEmitting(Hmm(a))),
         StateHeld' \subseteq StateHeld, ArcHeld' \subseteq StateHeld \cup ArcHeld,
         loc.at = "compact" => ArcHeld' \subseteq ArcHeld
  PROVE  RInv' /\ LatticeStep
<1> USE DEF SInv, RInv
<1>1. /\ States' = States /\ ArcIds' = ArcIds /\ usedList' = usedList /\ node' = node /\ Used' = Used
      /\ loc.at # "cleanup" /\ Mode = "search" /\ Mode' = "search"
  BY DEF States, ArcIds, latticeVars, Used, Mode
<1>2. LatticeStep
  BY <1>1, MoveStep
<1>3. Types'
  BY <1>1 DEF Types, Hmm
<1>4. Frames'
  BY FramesKept DEF InFrame, InClosure
<1>5. Live'
  <2>1. StateHeld \subseteq Used
    BY <1>1 DEF StateHeld, OwnStates, Active
  <2>2. QED
    BY <1>1, <2>1 DEF Live, BackPointers
<1>6. Layers'
  BY <1>1 DEF Layers, InClosure, BackPointers
<1>7. QED
  BY <1>2, <1>3, <1>4, <1>5, <1>6

\* What the arcs hold when the tokens of one have changed.
LEMMA ArcHeldAfter ==
  ASSUME Shape, net' = net, NEW a \in ArcIds, NEW t, tokens' = [tokens EXCEPT ![a] = t],
         NEW H, {t[n].tb : n \in DOMAIN t} \ {NoLS} \subseteq H
  PROVE  ArcHeld' \subseteq H \cup ArcHeld
<1>1. ArcIds' = ArcIds
  BY DEF ArcIds
<1>2. tokens'[a] = t /\ \A b \in ArcIds : b # a => tokens'[b] = tokens[b]
  BY DEF Shape
<1>3. HeldBy(a)' \subseteq H
  BY <1>2 DEF HeldBy
<1>4. \A b \in ArcIds : b # a => HeldBy(b)' = HeldBy(b)
  BY <1>2 DEF HeldBy
<1>5. \A b \in ArcIds : HeldBy(b)' \subseteq H \cup ArcHeld
  BY <1>3, <1>4 DEF ArcHeld
<1>6. QED
  BY <1>1, <1>5 DEF ArcHeld

\* An arc that is deactivated drops its tokens.
LEMMA DroppedArcRefines ==
  ASSUME SInv, RInv, UNCHANGED <<latticeVars, net, class, utt, frame, time, token>>,
         loc.at \in {"arcs", "compact"}, loc'.at = loc.at, NEW a \in ArcIds, DeactivateArc(a)
  PROVE  RInv' /\ LatticeStep
<1> USE DEF SInv, RInv
<1>1. tokens' = [tokens EXCEPT ![a] = NoTokens(Hmm(a))] /\ arcActive' = [arcActive EXCEPT ![a] = FALSE]
  BY DEF DeactivateArc
<1>2. {NoTokens(Hmm(a))[n].tb : n \in DOMAIN NoTokens(Hmm(a))} \ {NoLS} \subseteq {}
  BY DEF NoTokens, Inactive
<1>3. ArcHeld' \subseteq ArcHeld
  <2>1. ArcHeld' \subseteq {} \cup ArcHeld
    <3> DEFINE t == NoTokens(Hmm(a))
    <3>1. tokens' = [tokens EXCEPT ![a] = t] /\ {t[n].tb : n \in DOMAIN t} \ {NoLS} \subseteq {}
      BY <1>1, <1>2
    <3> HIDE DEF t
    <3>2. QED
      BY <3>1, ArcHeldAfter
  <2>2. QED
    BY <2>1
<1>4. StateHeld' = StateHeld /\ token' \in [States -> Token]
  BY DEF StateHeld, States, Types
<1>5. \A b \in ArcIds : tokens'[b] \in ArcTokens(Hmm(b)) /\ (arcActive'[b] => ~IsNonEmitting(Hmm(b)))
  <2>1. TAKE b \in ArcIds
  <2>2. CASE b = a
    <3>1. tokens'[a] = NoTokens(Hmm(a)) /\ ~arcActive'[a]
      BY <1>1 DEF Shape
    <3>2. QED
      BY <2>2, <3>1, NoTokensType
  <2>3. CASE b # a
    <3>1. tokens'[b] = tokens[b] /\ arcActive'[b] = arcActive[b]
      BY <1>1, <2>3 DEF Shape
    <3>2. QED
      BY <3>1 DEF Types
  <2>4. QED
    BY <2>2, <2>3
<1>6. QED
  BY <1>3, <1>4, <1>5, MovesRefine

LEMMA ExpandActiveArcRefines ==
  ASSUME SInv, RInv, ExpandActiveArc
  PROVE  RInv' /\ LatticeStep
<1> DEFINE a == activeArcs[loc.i]
           am == utt[frame + 1]
           r == Expand(Hmm(a), tokens[a], am, loc.threshold)
<1> USE DEF SInv, RInv
<1>1. /\ loc.at = "arcs" /\ loc.i \in DOMAIN activeArcs /\ a # Null /\ a \in ArcIds /\ arcActive[a]
      /\ UNCHANGED <<latticeVars, net, class, utt, frame, time, token>>
  BY DEF ExpandActiveArc, EmptySlots, ArcSlots, Shape, uttVars, netVars, stateVars
<1>2. loc'.at = loc.at
  <2> HIDE DEF r
  <2>1. \/ loc' = [loc EXCEPT !.i = @ + 1]
        \/ loc' = [loc EXCEPT !.i = @ + 1, !.j = loc.i, !.best = r.best, !.threshold = Plus(r.best, Beam)]
    BY DEF ExpandActiveArc, r
  <2>2. QED
    BY <2>1 DEF Shape
<1>3. CASE r.best >= loc.threshold
  <2>1. DeactivateArc(a)
    BY <1>3 DEF ExpandActiveArc
  <2> HIDE DEF a
  <2>2. QED
    BY <1>1, <1>2, <2>1, DroppedArcRefines
<1>4. CASE ~(r.best >= loc.threshold)
  <2> DEFINE t == r.tokens
             labels == UNION {HmmLabels(Hmms[l]) : l \in DOMAIN Hmms}
  <2>1. tokens' = [tokens EXCEPT ![a] = t] /\ arcActive' = arcActive
    BY <1>4 DEF ExpandActiveArc
  <2>2. Advanced(Hmm(a), tokens[a], t)
    <3>1. frame + 1 \in 1 .. Len(utt) /\ utt \in Utterances
      BY <1>1, UtteranceShape DEF Frames, InFrame
    <3>2. am \in [labels -> Int]
      BY <3>1, UtteranceShape
    <3>3. HmmOK(Hmm(a)) /\ HmmLabels(Hmm(a)) \subseteq labels
      BY <1>1, HmmShape DEF Shape
    <3>4. ~IsNonEmitting(Hmm(a)) /\ tokens[a] \in ArcTokens(Hmm(a))
      BY <1>1 DEF Types
    <3> HIDE DEF a, am, labels
    <3>5. QED
      BY <3>2, <3>3, <3>4, ExpandAdvances
  <2> HIDE DEF r, t, am, labels
  <2>3. {t[n].tb : n \in DOMAIN t} \ {NoLS} \subseteq ArcHeld
    <3>1. DOMAIN t = 0 .. NumStates(Hmm(a)) /\ DOMAIN tokens[a] = 0 .. NumStates(Hmm(a))
      BY <1>1, <2>2 DEF Advanced, ArcTokens, Types
    <3>2. ASSUME NEW n \in 0 .. NumStates(Hmm(a)), t[n].tb # NoLS
          PROVE  t[n].tb \in HeldBy(a)
      <4>1. Active(t[n])
        BY <3>2 DEF Active
      <4>2. PICK k \in 0 .. NumStates(Hmm(a)) : t[n].tb = tokens[a][k].tb
        BY <2>2, <4>1 DEF Advanced
      <4>3. QED
        BY <3>1, <3>2, <4>2 DEF HeldBy
    <3>3. HeldBy(a) \subseteq ArcHeld
      BY <1>1 DEF ArcHeld
    <3>4. QED
      BY <3>1, <3>2, <3>3
  <2>4. ArcHeld' \subseteq ArcHeld
    <3>1. ArcHeld' \subseteq ArcHeld \cup ArcHeld
      <4> HIDE DEF a
      <4> QED BY <1>1, <2>1, <2>3, ArcHeldAfter
    <3>2. QED
      BY <3>1
  <2>5. StateHeld' = StateHeld /\ token' \in [States -> Token]
    BY <1>1 DEF StateHeld, States, Types
  <2>6. \A b \in ArcIds : tokens'[b] \in ArcTokens(Hmm(b)) /\ (arcActive'[b] => ~IsNonEmitting(Hmm(b)))
    <3>1. tokens'[a] \in ArcTokens(Hmm(a))
      BY <1>1, <2>1, <2>2 DEF Advanced, Shape
    <3>2. \A b \in ArcIds : b # a => tokens'[b] = tokens[b]
      BY <2>1 DEF Shape
    <3>3. QED
      BY <2>1, <3>1, <3>2 DEF Types
  <2>7. QED
    BY <1>1, <1>2, <2>4, <2>5, <2>6, MovesRefine
<1>5. QED
  BY <1>3, <1>4

\* The token at the end of an arc leaves it into a search state that no state it
\* descends from belongs to.
LEMMA ExitRefines ==
  ASSUME SInv, RInv, {c \in Int : c < MaxCost} \subseteq Costs,
         UNCHANGED <<net, class, utt, frame, time, tokens, arcActive>>,
         loc.at = "compact", loc'.at = "compact", NEW a \in ArcIds, NEW src, GetExitCost(a) < MaxCost,
         src = tokens[a][NumStates(Hmm(a))].tb, ExpandToFollowingState(a, src, GetExitCost(a))
  PROVE  RInv' /\ LatticeStep
<1> DEFINE last == tokens[a][NumStates(Hmm(a))]
           cost == GetExitCost(a)
           dst == net.arcs[a].dst
           olabel == net.arcs[a].olabel
<1> USE DEF SInv, RInv
<1>1. /\ dst \in States /\ olabel \in OLabels /\ States' = States /\ ArcIds' = ArcIds
      /\ Mode = "search" /\ Mode' = "search" /\ loc.at # "cleanup"
  BY NetworkShape DEF Shape, Mode, States, ArcIds
<1>2. /\ last \in Token /\ (~Active(last) => MaxCost <= last.cost)
      /\ DOMAIN tokens[a] = 0 .. NumStates(Hmm(a)) /\ NumStates(Hmm(a)) \in Nat
  BY HmmShape DEF Types, ArcTokens, Shape
<1>3. cost \in Int /\ (MaxCost <= last.cost => cost = MaxCost)
  <2> DEFINE w == GetExitWeight(Hmm(a))
             c == last.cost
  <2>1. w \in Int /\ c \in Int /\ cost = Plus(c, w)
    BY <1>2, HmmShape DEF GetExitCost, Token, Shape
  <2> HIDE DEF w, cost
  <2>2. QED
    <3> HIDE DEF c
    <3>1. cost \in Int /\ (MaxCost <= c => cost = MaxCost)
      BY <2>1, PlusType
    <3>2. QED
      BY <3>1 DEF c
<1>4. src \in ArcHeld
  <2>1. MaxCost \in Int
    BY LatticeAssumption DEF LatticeAssumption
  <2>2. Active(last)
    <3> HIDE DEF last, cost
    <3>1. cost < MaxCost
      BY DEF cost
    <3>2. QED
      BY <1>2, <1>3, <2>1, <3>1
  <2>3. src \in HeldBy(a)
    BY <1>2, <2>2 DEF HeldBy, Active
  <2>4. QED
    BY <2>3 DEF ArcHeld
<1>5. SetToken(dst, src, cost, olabel) /\ cost < MaxCost
  BY DEF ExpandToFollowingState
<1> HIDE DEF dst, cost, olabel, last
<1>6. Active(token[dst]) => token[dst].tb \notin Reachable({src})
  <2>1. Active(token[dst]) => token[dst].tb \in StateHeld
    BY <1>1 DEF StateHeld, Active
  <2>2. QED
    BY <1>4, <2>1, ForwardsAcyclic
<1>7. LatticeStep /\ \E tb : Landed(dst, src, tb)
  BY <1>1, <1>3, <1>4, <1>5, <1>6, ArrivalStep
<1>8. PICK tb : Landed(dst, src, tb)
  BY <1>7
<1>9. Live' /\ Layers'
  BY <1>1, <1>4, <1>8, LandedLive, LandedForwards
<1>10. Types'
  BY <1>1, <1>8 DEF Landed, Types, Hmm
<1>11. Frames'
  BY FramesKept DEF InFrame, InClosure
<1>12. QED
  BY <1>7, <1>9, <1>10, <1>11

LEMMA CompactArcRefines ==
  ASSUME SInv, RInv, {c \in Int : c < MaxCost} \subseteq Costs, CompactArc
  PROVE  RInv' /\ LatticeStep
<1> DEFINE a == activeArcs[loc.i]
           last == tokens[a][NumStates(Hmm(a))]
           left == GetExitCost(a) < MaxCost /\ GetExitCost(a) < loc.threshold
<1> USE DEF SInv, RInv
<1>1. /\ loc.at = "compact" /\ a \in ArcIds
      /\ UNCHANGED <<net, class, utt, frame, time>>
  BY DEF CompactArc, EmptySlots, Shape, uttVars, netVars
<1>2. CASE BestCost(tokens[a]) <= loc.threshold
  <2>1. /\ IF left THEN ExpandToFollowingState(a, last.tb, GetExitCost(a)) ELSE UNCHANGED <<latticeVars, stateVars>>
        /\ \E th : loc' = [loc EXCEPT !.i = @ + 1, !.j = @ + 1, !.threshold = th]
        /\ UNCHANGED <<tokens, arcActive>>
    BY <1>2 DEF CompactArc
  <2>2. loc'.at = "compact"
    BY <1>1, <2>1 DEF Shape
  <2>3. CASE left
    <3>1. ExpandToFollowingState(a, last.tb, GetExitCost(a)) /\ GetExitCost(a) < MaxCost
      BY <2>1, <2>3
    <3> HIDE DEF a, left
    <3>2. QED
      BY <1>1, <2>1, <2>2, <3>1, ExitRefines
  <2>4. CASE ~left
    <3>1. UNCHANGED <<latticeVars, token, tokens, arcActive, netVars>>
      BY <1>1, <2>1, <2>4 DEF stateVars, netVars
    <3>2. Frames'
      BY <1>1, <2>2, FramesKept DEF InFrame, InClosure
    <3>3. QED
      BY <1>1, <2>2, <3>1, <3>2, ControlRefines DEF Searching, InFrame, InClosure
  <2>5. QED
    BY <2>3, <2>4
<1>3. CASE ~(BestCost(tokens[a]) <= loc.threshold)
  <2>1. DeactivateArc(a) /\ loc' = [loc EXCEPT !.i = @ + 1] /\ UNCHANGED <<latticeVars, stateVars>>
    BY <1>3 DEF CompactArc
  <2>2. loc'.at = loc.at /\ token' = token
    BY <2>1 DEF Shape, stateVars
  <2> HIDE DEF a
  <2>3. QED
    BY <1>1, <2>1, <2>2, DroppedArcRefines
<1>4. QED
  BY <1>2, <1>3

\* The tokens of an arc that a search state's token enters.
LEMMA EntryShape ==
  ASSUME SInv, RInv, loc.at # "cleanup", NEW q \in States, Active(token[q]), NEW a \in ArcIds
  PROVE  LET t == SetEntryToken(a, token[q])
         IN  /\ t \in ArcTokens(Hmm(a))
             /\ {t[n].tb : n \in DOMAIN t} \ {NoLS} \subseteq StateHeld \cup ArcHeld
<1> DEFINE old == IF arcActive[a] THEN tokens[a] ELSE NoTokens(Hmm(a))
           u == token[q]
           weight == net.arcs[a].weight
           e == Combine(old[0], u, weight)
           t == SetEntryToken(a, u)
<1> USE DEF SInv, RInv
<1>1. old \in ArcTokens(Hmm(a)) /\ {old[n].tb : n \in DOMAIN old} \ {NoLS} \subseteq ArcHeld
  <2>1. CASE arcActive[a]
    <3>1. old = tokens[a]
      BY <2>1
    <3>2. HeldBy(a) \subseteq ArcHeld
      BY DEF ArcHeld
    <3> HIDE DEF old
    <3>3. QED
      BY <3>1, <3>2 DEF Types, HeldBy
  <2>2. CASE ~arcActive[a]
    <3>1. old = NoTokens(Hmm(a))
      BY <2>2
    <3>2. \A n \in DOMAIN NoTokens(Hmm(a)) : NoTokens(Hmm(a))[n].tb = NoLS
      BY DEF NoTokens, Inactive
    <3> HIDE DEF old
    <3>3. QED
      BY <3>1, <3>2, NoTokensType
  <2>3. QED
    BY <2>1, <2>2
<1>2. u \in Token /\ Active(u) /\ u.tb \in StateHeld /\ weight \in Int /\ NumStates(Hmm(a)) \in Nat
  BY NetworkShape, HmmShape DEF Types, StateHeld, Active, Shape
<1>3. t = [old EXCEPT ![0] = e]
  BY DEF SetEntryToken
<1> HIDE DEF old, u, weight, t
<1>4. /\ DOMAIN old = 0 .. NumStates(Hmm(a)) /\ 0 \in DOMAIN old /\ old[0] \in Token
      /\ ~Active(old[0]) => MaxCost <= old[0].cost
  BY <1>1, <1>2 DEF ArcTokens
<1>5. /\ e \in Token /\ (~Active(e) => MaxCost <= e.cost) /\ e.tb \in {old[0].tb, u.tb}
  <2>1. Plus(u.cost, weight) \in Int
    <3> DEFINE c == u.cost
    <3>1. c \in Int
      BY <1>2 DEF Token
    <3> HIDE DEF c
    <3>2. Plus(c, weight) \in Int
      BY <1>2, <3>1, PlusType
    <3>3. QED
      BY <3>2 DEF c
  <2>2. CASE e = old[0]
    BY <1>4, <2>2
  <2>3. CASE e = [tb |-> u.tb, cost |-> Plus(u.cost, weight)]
    <3> HIDE DEF e
    <3> QED BY <1>2, <2>1, <2>3 DEF Token, Active
  <2>4. QED
    BY <2>2, <2>3 DEF Combine
<1> HIDE DEF e
<1>6. DOMAIN t = 0 .. NumStates(Hmm(a)) /\ t[0] = e /\ \A n \in DOMAIN t : n # 0 => t[n] = old[n]
  BY <1>3, <1>4
<1>7. t \in ArcTokens(Hmm(a))
  <2>1. t \in [0 .. NumStates(Hmm(a)) -> Token]
    BY <1>1, <1>3, <1>5 DEF ArcTokens
  <2>2. QED
    BY <1>1, <1>5, <1>6, <2>1 DEF ArcTokens
<1>8. {t[n].tb : n \in DOMAIN t} \ {NoLS} \subseteq StateHeld \cup ArcHeld
  <2>1. ASSUME NEW n \in DOMAIN t, t[n].tb # NoLS
        PROVE  t[n].tb \in StateHeld \cup ArcHeld
    <3>1. \A k \in DOMAIN old : old[k].tb # NoLS => old[k].tb \in ArcHeld
      BY <1>1
    <3>2. CASE n = 0
      BY <1>2, <1>4, <1>5, <1>6, <2>1, <3>1, <3>2
    <3>3. CASE n # 0
      BY <1>4, <1>6, <2>1, <3>1, <3>3
    <3>4. QED
      BY <3>2, <3>3
  <2>2. QED
    BY <2>1
<1>9. QED
  BY <1>7, <1>8 DEF t, u

\* Only emitting arcs are entered.
LEMMA EnteredEmits ==
  ASSUME Shape, NEW q \in States, NEW threshold
  PROVE  \A a \in Range(ExpandIntoArcs(q, threshold)) : a \in ArcIds /\ ~IsNonEmitting(Hmm(a))
<1> DEFINE arcs == EmittingArcs(q)
           M == {a \in ArcIds : Plus(token[q].cost, net.arcs[a].weight) < threshold}
<1>1. arcs = ArcsInOrder(net, FALSE)[q]
  BY DEF EmittingArcs, EmittingArcsOf, Shape
<1>2. ExpandIntoArcs(q, threshold) = Compact(arcs, M)
  BY DEF ExpandIntoArcs
<1> HIDE DEF arcs, M
<1>3. arcs \in Seq(ArcIds) /\ \A i \in 1 .. Len(arcs) : IsNonEmitting(Hmm(arcs[i])) = FALSE
  BY <1>1, ArcsInOrderShape DEF Shape
<1>4. DOMAIN arcs = 1 .. Len(arcs)
  BY <1>3
<1>5. {Compact(arcs, M)[k] : k \in DOMAIN Compact(arcs, M)} = {arcs[i] : i \in DOMAIN arcs} \cap M
  BY <1>3, CompactRange
<1>6. \A i \in DOMAIN arcs : arcs[i] \in ArcIds
  BY <1>3
<1>7. QED
  BY <1>2, <1>3, <1>4, <1>5, <1>6 DEF Range

LEMMA ExpandActiveStateRefines ==
  ASSUME SInv, RInv, ExpandActiveState
  PROVE  RInv' /\ LatticeStep
<1> DEFINE q == activeStates[loc.i]
           entered == IF token[q].cost > loc.threshold THEN <<>> ELSE ExpandIntoArcs(q, loc.threshold)
           entry(a) == SetEntryToken(a, token[q])
<1> USE DEF SInv, RInv
<1>1. /\ loc.at = "states" /\ loc.i \in DOMAIN activeStates /\ q # Null /\ q \in States
      /\ UNCHANGED <<latticeVars, net, class, utt, frame, time>> /\ DeactivateState(loc.i)
  <2>1. /\ loc.at = "states" /\ loc.i <= Len(activeStates)
        /\ UNCHANGED <<latticeVars, net, class, utt, frame, time>> /\ DeactivateState(loc.i)
    BY DEF ExpandActiveState, uttVars, netVars
  <2>2. loc.i \in DOMAIN activeStates
    BY <2>1 DEF Shape
  <2>3. q # Null
    BY <2>1, <2>2 DEF EmptySlots
  <2>4. q \in States
    BY <2>2, <2>3 DEF Shape
  <2>5. QED
    BY <2>1, <2>2, <2>3, <2>4
<1>2. Active(token[q])
  <2>1. position[q] = loc.i - 1 /\ loc.i \in Nat \ {0}
    BY <1>1 DEF StateSlots, Shape
  <2>2. position[q] # -1
    BY <2>1
  <2>3. QED
    BY <1>1, <2>2 DEF StateSlots
<1>3. /\ tokens' = [a \in ArcIds |-> IF a \in Range(entered) THEN entry(a) ELSE tokens[a]]
      /\ arcActive' = [a \in ArcIds |-> arcActive[a] \/ a \in Range(entered)]
      /\ \E th : loc' = [loc EXCEPT !.i = @ + 1, !.threshold = th]
  BY DEF ExpandActiveState
<1>4. loc'.at = "states"
  BY <1>1, <1>3 DEF Shape
<1>5. \A a \in Range(entered) : ~IsNonEmitting(Hmm(a))
  <2>1. CASE token[q].cost > loc.threshold
    BY <2>1 DEF Range
  <2>2. CASE ~(token[q].cost > loc.threshold)
    <3>1. entered = ExpandIntoArcs(q, loc.threshold)
      BY <2>2
    <3> HIDE DEF entered, q
    <3>2. QED
      BY <1>1, <3>1, EnteredEmits
  <2>3. QED
    BY <2>1, <2>2
<1> HIDE DEF entered
<1>6. \A a \in ArcIds : entry(a) \in ArcTokens(Hmm(a)) /\ {entry(a)[n].tb : n \in DOMAIN entry(a)} \ {NoLS} \subseteq StateHeld \cup ArcHeld
  <2> HIDE DEF q
  <2> QED BY <1>1, <1>2, EntryShape
<1> HIDE DEF entry
<1>7. \A a \in ArcIds : tokens'[a] \in ArcTokens(Hmm(a)) /\ (arcActive'[a] => ~IsNonEmitting(Hmm(a)))
  BY <1>3, <1>5, <1>6 DEF Types
<1>8. ArcHeld' \subseteq StateHeld \cup ArcHeld
  <2>1. ASSUME NEW a \in ArcIds
        PROVE  HeldBy(a)' \subseteq StateHeld \cup ArcHeld
    <3>1. HeldBy(a)' = {tokens'[a][n].tb : n \in DOMAIN tokens'[a]} \ {NoLS}
      BY DEF HeldBy
    <3>2. CASE a \in Range(entered)
      <4>1. tokens'[a] = entry(a)
        BY <1>3, <3>2
      <4>2. QED
        BY <1>6, <3>1, <4>1
    <3>3. CASE a \notin Range(entered)
      <4>1. tokens'[a] = tokens[a]
        BY <1>3, <3>3
      <4>2. QED
        BY <3>1, <4>1 DEF HeldBy, ArcHeld
    <3>4. QED
      BY <3>2, <3>3
  <2>2. ArcIds' = ArcIds
    BY <1>1 DEF ArcIds
  <2>3. QED
    BY <2>1, <2>2 DEF ArcHeld
<1>9. token' = [token EXCEPT ![q] = Inactive]
  BY <1>1 DEF DeactivateState
<1>10. token' \in [States -> Token]
  <2>1. Inactive \in Token
    BY LatticeAssumption DEF LatticeAssumption, Inactive, Token
  <2>2. QED
    BY <1>9, <2>1 DEF Types
<1>11. StateHeld' \subseteq StateHeld
  <2>1. \A p \in States : token'[p].tb # NoLS => token'[p] = token[p]
    BY <1>1, <1>9 DEF Inactive, Shape
  <2>2. States' = States
    BY <1>1 DEF States
  <2>3. QED
    BY <2>1, <2>2 DEF StateHeld
<1>12. QED
  BY <1>1, <1>4, <1>7, <1>8, <1>10, <1>11, MovesRefine

-----------------------------------------------------------------------------
(* Collection, and the end of the utterance *)

\* The arcs in the list hold every token there is: they are roots enough.
LEMMA RootsAreHeld ==
  ASSUME SInv, RInv, Full(activeArcs)
  PROVE  UNION {ArcMarks(a) : a \in Range(activeArcs)} = ArcHeld
<1> USE DEF SInv, RInv
<1>1. Range(activeArcs) \subseteq ArcIds
  BY DEF Full, Shape, Range
<1>2. \A a \in ArcIds : ArcMarks(a) = HeldBy(a)
  <2>1. \A a \in ArcIds : DOMAIN tokens[a] = 0 .. NumStates(Hmm(a))
    BY DEF Types, ArcTokens
  <2>2. QED
    BY <2>1 DEF ArcMarks, HeldBy
<1>3. \A a \in ArcIds : HeldBy(a) # {} => a \in Range(activeArcs)
  BY DEF ArcSlots, Range
<1>4. QED
  BY <1>1, <1>2, <1>3 DEF ArcHeld

LEMMA GcRefines ==
  ASSUME SInv, RInv, Gc
  PROVE  RInv' /\ LatticeStep
<1> USE DEF SInv, RInv
<1>1. /\ loc.at = "gc" /\ Full(activeArcs) /\ activeStates = <<>>
      /\ UNCHANGED <<token, tokens, arcActive, net, class, utt, frame, time>>
  BY DEF Gc, EmptySlots, stateVars, arcVars, uttVars, netVars
<1>2. loc'.at = "arcs" /\ Mode = "search" /\ Mode' = "search"
  BY <1>1, GotoLoc DEF Gc, Mode
<1> DEFINE M == Reachable(ArcHeld)
<1>3. Sweep(M)
  BY <1>1, RootsAreHeld DEF Gc, CollectFrom
<1>4. /\ StateHeld = {} /\ StateHeld' = StateHeld /\ ArcHeld' = ArcHeld /\ States' = States /\ ArcIds' = ArcIds
  <2>1. StateHeld = {}
    BY <1>1, NoStatesHeld
  <2>2. States' = States /\ ArcIds' = ArcIds
    BY <1>1 DEF States, ArcIds
  <2>3. StateHeld' = StateHeld
    BY <1>1, <2>2 DEF StateHeld
  <2>4. \A a \in ArcIds : HeldBy(a)' = HeldBy(a)
    BY <1>1 DEF HeldBy
  <2>5. ArcHeld' = ArcHeld
    BY <2>2, <2>4 DEF ArcHeld
  <2>6. QED
    BY <2>1, <2>2, <2>3, <2>5
<1>5. Used' = Used \cap M /\ node' = node
  <2> HIDE DEF M
  <2> QED BY <1>3, SweepKeeps DEF Shape
<1>6. M \subseteq Used /\ ArcHeld \subseteq M /\ \A y \in M : BackPointers(y) \subseteq M
  BY <1>1, ReachableClosed DEF Live
<1> HIDE DEF M
<1>7. Live'
  <2>1. \A y \in Used' : BackPointers(y) \subseteq Used'
    BY <1>5, <1>6
  <2>2. \A y : BackPointers(y)' = BackPointers(y)
    BY <1>5 DEF BackPointers
  <2>3. QED
    BY <1>4, <1>5, <1>6, <2>1, <2>2 DEF Live
<1>8. Types'
  BY <1>1, <1>2, <1>4, <1>5 DEF Types, Hmm
<1>9. Frames' /\ Layers'
  BY <1>1, <1>2, FramesKept DEF Layers, InFrame, InClosure
<1>10. LatticeStep
  <2>1. TL!Sweep(M)
    BY <1>3, SameOperations
  <2>2. TL!Reachable(ArcHeld) = M
    BY SameReachable DEF M
  <2>3. TL!Gc
    BY <1>2, <1>4, <2>1, <2>2 DEF TL!Gc, TL!Sweep
  <2>4. QED
    BY <2>3 DEF LatticeStep, TL!Next
<1>11. QED
  BY <1>1, <1>7, <1>8, <1>9, <1>10

\* The state EndDecode finds has a token.
LEMMA BestStateActive ==
  ASSUME SInv, RInv, Full(activeStates), FindBestState # Null
  PROVE  FindBestState \in States /\ Active(token[FindBestState])
<1> DEFINE D == DOMAIN activeStates
           final == {i \in D : AcceptCost(activeStates[i]) < MaxCost}
           least == {i \in final : \A k \in final : AcceptCost(activeStates[i]) <= AcceptCost(activeStates[k])}
           alive == {i \in D : token[activeStates[i]].cost < MaxCost}
<1> USE DEF SInv, RInv
<1>1. IsFiniteSet(D) /\ D \in SUBSET Int
  <2> DEFINE n == Len(activeStates)
  <2>1. n \in Nat /\ D = 1 .. n
    BY DEF Shape
  <2> HIDE DEF n, D
  <2>2. QED
    BY <2>1, FS_Interval
<1>2. \A i \in D : /\ activeStates[i] \in States /\ activeStates[i] # Null
                   /\ Active(token[activeStates[i]]) /\ AcceptCost(activeStates[i]) \in Int
  <2>1. TAKE i \in D
  <2> DEFINE q == activeStates[i]
  <2>2. q \in States /\ q # Null /\ position[q] = i - 1 /\ i \in Nat \ {0}
    BY DEF Full, Shape, StateSlots
  <2> HIDE DEF q, D
  <2>3. Active(token[q])
    <3>1. position[q] # -1
      BY <2>2
    <3>2. QED
      BY <2>2, <3>1 DEF StateSlots
  <2>4. AcceptCost(q) \in Int
    <3> DEFINE c == token[q].cost
               w == net.final[q]
    <3>1. c \in Int
      BY <2>2 DEF Types, Token
    <3>2. w \in Int
      <4>1. NetworkOK(net)
        BY DecoderAssumption DEF DecoderAssumption, Shape
      <4>2. net.final \in Seq(Int)
        BY <4>1 DEF NetworkOK
      <4>3. QED
        BY <2>2, <4>2 DEF States
    <3> HIDE DEF c, w
    <3>3. Plus(c, w) \in Int
      BY <3>1, <3>2, PlusType
    <3>4. QED
      BY <3>3 DEF AcceptCost, c, w
  <2>5. QED
    BY <2>2, <2>3, <2>4 DEF q
<1> HIDE DEF D
<1>3. CASE final # {}
  <2> DEFINE f == [i \in final |-> AcceptCost(activeStates[i])]
  <2>1. IsFiniteSet(final) /\ final \in SUBSET D
    <3>1. final \in SUBSET D
      OBVIOUS
    <3> HIDE DEF final
    <3>2. QED
      BY <1>1, <3>1, FS_Subset
  <2>2. f \in [final -> Int]
    BY <1>2
  <2> HIDE DEF final
  <2>3. PICK i \in final : \A k \in final : f[i] <= f[k]
    <3> HIDE DEF f
    <3> QED BY <1>3, <2>1, <2>2, LeastValue
  <2>4. i \in least
    BY <2>3
  <2>5. least \in SUBSET final
    OBVIOUS
  <2> HIDE DEF least
  <2>6. Min(least) \in least
    <3>1. IsFiniteSet(least)
      BY <2>1, <2>5, FS_Subset
    <3>2. least \in SUBSET Int
      BY <1>1, <2>1, <2>5
    <3>3. QED
      BY <2>4, <3>1, <3>2, MinType
  <2>7. FindBestState = activeStates[Min(least)]
    BY <1>3 DEF FindBestState, final, least, D
  <2>8. Min(least) \in D
    BY <2>1, <2>5, <2>6
  <2>9. QED
    BY <1>2, <2>7, <2>8
<1>4. CASE final = {}
  <2>1. alive # {} /\ FindBestState = activeStates[Max(alive)]
    BY <1>4 DEF FindBestState, D
  <2>2. alive \in SUBSET D
    OBVIOUS
  <2> HIDE DEF alive
  <2>3. Max(alive) \in alive
    <3>1. IsFiniteSet(alive)
      BY <1>1, <2>2, FS_Subset
    <3>2. alive \in SUBSET Int
      BY <1>1, <2>2
    <3>3. QED
      BY <2>1, <3>1, <3>2, MaxType
  <2>4. QED
    BY <1>2, <2>1, <2>2, <2>3
<1>5. QED
  BY <1>3, <1>4

LEMMA EndDecodeRefines ==
  ASSUME SInv, RInv, EndDecode
  PROVE  RInv' /\ LatticeStep
<1> DEFINE q == FindBestState
           s == token[q].tb
<1> USE DEF SInv, RInv
<1>1. /\ loc.at = "end" /\ Full(activeStates) /\ GenLattice \in BOOLEAN
      /\ UNCHANGED <<token, tokens, arcActive, net, class, utt, frame, time>>
  BY LatticeAssumption DEF EndDecode, EmptySlots, stateVars, arcVars, uttVars, netVars, LatticeAssumption
<1>2. loc'.at = "cleanup" /\ Mode = "search"
  BY <1>1, GotoLoc DEF EndDecode, Mode
<1>3. /\ StateHeld' = StateHeld /\ ArcHeld' = ArcHeld /\ States' = States /\ ArcIds' = ArcIds
  BY <1>1 DEF StateHeld, ArcHeld, HeldBy, States, ArcIds
<1> HIDE DEF q
<1>4. ASSUME q # Null /\ GenLattice
      PROVE  LatticeStep
  <2>1. Sweep(Reachable({s})) /\ result'.lattice = TRUE
    BY <1>4 DEF EndDecode, CollectFrom, q
  <2>2. Mode' = "finished"
    BY <1>2, <2>1 DEF Mode
  <2>3. s \in StateHeld /\ s \in LS
    <3>1. q \in States /\ Active(token[q])
      BY <1>1, <1>4, BestStateActive DEF q
    <3>2. s \in Used /\ Used \subseteq LS
      BY <1>1, <3>1 DEF OwnStates, Used, Shape
    <3>3. QED
      BY <3>1, <3>2 DEF StateHeld, Active
  <2> HIDE DEF s
  <2>4. TL!Sweep(TL!Reachable({s}))
    BY <2>1, SameOperations, SameReachable
  <2>5. TL!GetLattice(s)
    BY <1>2, <1>3, <2>2, <2>3, <2>4 DEF TL!GetLattice
  <2>6. node' = node
    BY <2>1 DEF Sweep, SweepStates
  <2>7. QED
    BY <2>3, <2>5, <2>6 DEF LatticeStep, TL!Next
<1>5. ASSUME ~(q # Null /\ GenLattice)
      PROVE  LatticeStep
  <2>1. UNCHANGED latticeVars /\ result'.lattice = FALSE
    BY <1>1, <1>5 DEF EndDecode, NoResult, q
  <2>2. Mode' = "search"
    BY <1>2, <2>1 DEF Mode
  <2>3. QED
    BY <1>1, <1>2, <2>1, <2>2, StutterStep
<1>6. LatticeStep
  BY <1>4, <1>5
<1>7. node' = node
  <2>1. CASE q # Null /\ GenLattice
    BY <2>1 DEF EndDecode, CollectFrom, q, Sweep, SweepStates
  <2>2. CASE ~(q # Null /\ GenLattice)
    BY <1>1, <2>2 DEF EndDecode, q, latticeVars
  <2>3. QED
    BY <2>1, <2>2
<1>8. Types'
  BY <1>1, <1>2, <1>3, <1>7 DEF Types, Hmm
<1>9. Frames' /\ Live' /\ Layers'
  BY <1>1, <1>2, FramesKept DEF Live, Layers, InFrame, InClosure
<1>10. QED
  BY <1>1, <1>6, <1>8, <1>9

LEMMA CleanUpRefines ==
  ASSUME SInv, RInv, CleanUp
  PROVE  RInv' /\ LatticeStep
<1> USE DEF SInv, RInv
<1>1. /\ loc.at = "cleanup" /\ Sweep({}) /\ Goto(IF outstanding' = 0 THEN "idle" ELSE "fatal", MaxCost)
      /\ net' = net /\ class' = class /\ time' = -1
      /\ token' = [p \in States |-> Inactive]
      /\ tokens' = [a \in ArcIds |-> NoTokens(Hmm(a))] /\ arcActive' = [a \in ArcIds |-> FALSE]
  BY DEF CleanUp, ClearSearchHash, netVars
<1>2. loc'.at = IF outstanding' = 0 THEN "idle" ELSE "fatal"
  BY <1>1, GotoLoc
<1>3. Mode \in {"search", "finished"} /\ Mode' = loc'.at
  BY <1>1, <1>2 DEF Mode
<1>4. States' = States /\ ArcIds' = ArcIds
  BY <1>1 DEF States, ArcIds
<1>5. StateHeld' = {}
  BY <1>1, <1>4 DEF StateHeld, Inactive
<1>6. \A a \in ArcIds : HeldBy(a)' = {} /\ tokens'[a] \in ArcTokens(Hmm(a)) /\ ~arcActive'[a]
  <2>1. TAKE a \in ArcIds
  <2>2. tokens'[a] = NoTokens(Hmm(a)) /\ ~arcActive'[a]
    BY <1>1
  <2>3. \A n \in DOMAIN NoTokens(Hmm(a)) : NoTokens(Hmm(a))[n].tb = NoLS
    BY DEF NoTokens, Inactive
  <2>4. HeldBy(a)' = {}
    BY <2>2, <2>3 DEF HeldBy
  <2>5. QED
    BY <2>2, <2>4, NoTokensType
<1>7. ArcHeld' = {}
  BY <1>4, <1>6 DEF ArcHeld
<1>8. Used' = {} /\ node' = node
  BY <1>1, SweepKeeps DEF Shape
<1>9. Types'
  <2>1. Inactive \in Token
    BY LatticeAssumption DEF LatticeAssumption, Inactive, Token
  <2>2. QED
    BY <1>1, <1>2, <1>4, <1>6, <1>8, <2>1 DEF Types, Hmm
<1>10. Frames' /\ Live' /\ Layers'
  BY <1>1, <1>2, <1>7, <1>8 DEF Frames, Live, Layers, InFrame, InClosure
<1>11. LatticeStep
  <2>1. TL!CleanUp
    BY <1>1, <1>2, <1>3, <1>5, <1>7, SameOperations DEF TL!CleanUp
  <2>2. QED
    BY <2>1 DEF LatticeStep, TL!Next
<1>12. QED
  BY <1>1, <1>9, <1>10, <1>11

-----------------------------------------------------------------------------
(* The theorem *)

LEMMA NextRefines ==
  ASSUME SInv, RInv, CostsInRange, EpsilonAcyclic, {c \in Int : c < MaxCost} \subseteq Costs, [HNext]_hvars
  PROVE  RInv' /\ LatticeStep
<1>1. CASE UNCHANGED hvars
  <2>1. UNCHANGED <<latticeVars, token, tokens, arcActive, net, class, utt, frame, time, result, loc>>
    BY <1>1 DEF hvars, vars, stateVars, arcVars, uttVars, netVars, endVars
  <2>2. /\ States' = States /\ ArcIds' = ArcIds /\ node' = node /\ Used' = Used
        /\ StateHeld' = StateHeld /\ ArcHeld' = ArcHeld /\ Mode' = Mode
    BY <2>1 DEF States, ArcIds, StateHeld, ArcHeld, HeldBy, Used, latticeVars, Mode
  <2>3. Types' /\ Frames' /\ Live' /\ Layers'
    BY <2>1, <2>2 DEF RInv, Types, Frames, Live, Layers, Hmm, BackPointers
  <2>4. QED
    BY <2>1, <2>2, <2>3, StutterStep DEF RInv
<1>2. CASE BeginDecode
  BY <1>2, BeginDecodeRefines
<1>3. CASE NextFrame
  BY <1>3, NextFrameRefines
<1>4. CASE QueueStates \/ PopState \/ EndRelax
  BY <1>4, EpsilonControlRefines
<1>5. CASE RelaxArc
  BY <1>5, RelaxArcRefines
<1>6. CASE EndEpsilon
  BY <1>6, EndEpsilonRefines
<1>7. CASE ExpandActiveState
  BY <1>7, ExpandActiveStateRefines
<1>8. CASE EndStates \/ SwapArcs \/ SkipSlot \/ EndArcs
  BY <1>8, EndStatesRefines
<1>9. CASE Gc
  BY <1>9, GcRefines
<1>10. CASE ExpandActiveArc
  BY <1>10, ExpandActiveArcRefines
<1>11. CASE CompactArc
  BY <1>11, CompactArcRefines
<1>12. CASE EndDecode
  BY <1>12, EndDecodeRefines
<1>13. CASE CleanUp
  BY <1>13, CleanUpRefines
<1>14. QED
  BY <1>1, <1>2, <1>3, <1>4, <1>5, <1>6, <1>7, <1>8, <1>9, <1>10, <1>11, <1>12, <1>13 DEF HNext, Next

\* CLevelDecoder drives Lattice as TokenLattice allows, whatever it prunes and
\* whenever it collects: AddArc's source is held by a token, no cycle of back
\* pointers arises, the roots of a collection are all the tokens there are, and the
\* lattice generated is that of a live token.
THEOREM SpecImplementsTokenLattice ==
  ASSUME LatticeClasses \subseteq {"Lattice"}, EpsilonAcyclic, {c \in Int : c < MaxCost} \subseteq Costs
  PROVE  HSpec /\ []CostsInRange => ImplementsTokenLattice
<1>1. HInit => SInv /\ RInv /\ TL!Init
  BY InitSInv, InitRInv DEF HInit
<1>2. SInv /\ RInv /\ CostsInRange /\ [HNext]_hvars => SInv' /\ RInv' /\ [TL!Next]_(TL!vars)
  BY NextSInv, NextRefines DEF LatticeStep
<1>3. QED
  BY <1>1, <1>2, PTL DEF HSpec, ImplementsTokenLattice, TL!Spec
=============================================================================
