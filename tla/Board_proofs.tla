---------------------------- MODULE Board_proofs ----------------------------
(***************************************************************************)
(* What holds on every board. The search for legal moves is right, however *)
(* the heap breaks ties and with steps that cost nothing. Lines and rays   *)
(* between any two hexes of a board without borders go from neighbour to   *)
(* neighbour, and sight is mutual. A state written on the wire is read     *)
(* back as it was, board and all. A scenario file that loads puts all its  *)
(* units on the board.                                                     *)
(***************************************************************************)
EXTENDS MoveSearch, BoardGeometry, Loading, TLAPS, FiniteSetTheorems, FunctionTheorems

-----------------------------------------------------------------------------
(* The search for legal moves: its invariant. *)

TypeOK ==
    /\ board \in Boards
    /\ DOMAIN costs \subseteq Places
    /\ costs \in [DOMAIN costs -> Nat]
    /\ came_from \in [DOMAIN costs -> Places \cup {None}]
    /\ heap \subseteq Nat \X DOMAIN costs

\* The start is never reached again.
StartIsFree ==
    /\ board.start \in DOMAIN costs
    /\ costs[board.start] = 0

\* An entry of the heap is at least as dear as what is known of its hex.
HeapIsNoCheaper == \A e \in heap : costs[e[2]] <= e[1]

\* A hex that waits for no expansion has passed its cost on to its neighbours.
Relaxed(h) ==
    \A n \in Entries(h) : costs[h] + board.cost[<<h, n>>] <= board.budget =>
        n \in DOMAIN costs /\ costs[n] <= costs[h] + board.cost[<<h, n>>]

WaitingOrRelaxed ==
    \A h \in DOMAIN costs : <<costs[h], h>> \in heap \/ Stops(h) \/ Relaxed(h)

\* A hex was reached by a legal step, at no less than that step costs by now.
ReachedByAStep ==
    \A n \in DOMAIN costs \ {board.start} :
        /\ came_from[n] \in DOMAIN costs
        /\ ~Stops(came_from[n])
        /\ n \in Entries(came_from[n])
        /\ costs[came_from[n]] + board.cost[<<came_from[n], n>>] <= costs[n]
        /\ costs[n] <= board.budget

IInv == TypeOK /\ StartIsFree /\ HeapIsNoCheaper /\ WaitingOrRelaxed /\ ReachedByAStep

-----------------------------------------------------------------------------

LEMMA BoardFields ==
    ASSUME board \in Boards
    PROVE  /\ board.start \in Places /\ board.budget \in Nat
           /\ \A h, n \in Places : board.cost[<<h, n>>] \in Nat
  BY DEF Boards

LEMMA InitIInv == board \in Boards /\ Init => IInv
<1> SUFFICES ASSUME board \in Boards, Init PROVE IInv
  OBVIOUS
<1>0. board.start \in Places
  BY BoardFields
<1>1. DOMAIN costs = {board.start} /\ costs[board.start] = 0
  BY DEF Init
<1>2. TypeOK
  BY <1>0, <1>1 DEF Init, TypeOK
<1>3. StartIsFree /\ ReachedByAStep
  BY <1>1 DEF StartIsFree, ReachedByAStep
<1>4. HeapIsNoCheaper /\ WaitingOrRelaxed
  BY <1>1 DEF Init, HeapIsNoCheaper, WaitingOrRelaxed
<1> QED BY <1>2, <1>3, <1>4 DEF IInv

LEMMA DiscardKeepsIInv ==
    ASSUME IInv, NEW e \in heap, Discard(e)
    PROVE  IInv'
<1>1. UNCHANGED <<board, costs, came_from>> /\ heap' = heap \ {e}
  BY DEF Discard
<1>2. \A h : Stops(h)' = Stops(h) /\ Entries(h)' = Entries(h) /\ Relaxed(h)' = Relaxed(h)
  BY <1>1 DEF Stops, Entries, Relaxed
<1>3. TypeOK' /\ StartIsFree' /\ HeapIsNoCheaper'
  BY <1>1 DEF IInv, TypeOK, StartIsFree, HeapIsNoCheaper
<1>4. ReachedByAStep'
  BY <1>1, <1>2 DEF IInv, ReachedByAStep
<1>5. WaitingOrRelaxed'
  <2> SUFFICES ASSUME NEW h \in DOMAIN costs
               PROVE  <<costs[h], h>> \in heap' \/ Stops(h) \/ Relaxed(h)
    BY <1>1, <1>2 DEF WaitingOrRelaxed
  <2>1. CASE e = <<costs[h], h>>
    <3>1. costs[h] \in Nat
      BY DEF IInv, TypeOK
    <3>2. Stops(h)
      BY <2>1, <3>1 DEF Discard
    <3> QED BY <3>2
  <2>2. CASE e # <<costs[h], h>>
    BY <1>1, <2>2 DEF IInv, WaitingOrRelaxed
  <2> QED BY <2>1, <2>2
<1> QED BY <1>3, <1>4, <1>5 DEF IInv

\* What an expansion does to the costs: improved neighbours get the new cost, which is
\* less than the old one, and nothing else changes.
LEMMA ExpandSteps ==
    ASSUME IInv, NEW e \in heap, Expand(e)
    PROVE  LET h == e[2]
               better == Improved(e[1], h)
           IN /\ h \in DOMAIN costs /\ h \in Places /\ e = <<costs[h], h>> /\ ~Stops(h)
              /\ board' = board
              /\ better \subseteq Entries(h) /\ better \subseteq Places
              /\ board.start \notin better /\ h \notin better
              /\ DOMAIN costs' = DOMAIN costs \cup better
              /\ DOMAIN came_from' = DOMAIN costs \cup better
              /\ \A n \in better : /\ costs'[n] = costs[h] + board.cost[<<h, n>>]
                                   /\ costs'[n] \in Nat /\ costs'[n] <= board.budget
                                   /\ n \in DOMAIN costs => costs'[n] < costs[n]
                                   /\ came_from'[n] = h
                                   /\ <<costs'[n], n>> \in heap'
              /\ \A n \in DOMAIN costs \ better : /\ costs'[n] = costs[n]
                                                  /\ came_from'[n] = came_from[n]
              /\ \A f \in heap' : \/ f \in heap /\ f # e
                                  \/ f[2] \in better /\ f = <<costs'[f[2]], f[2]>>
              /\ \A f \in heap : f = e \/ f \in heap'
<1> DEFINE h == e[2]
           better == Improved(e[1], h)
           New(n) == e[1] + board.cost[<<h, n>>]
<1>1. /\ h \in DOMAIN costs /\ h \in Places /\ e[1] \in Nat /\ e = <<e[1], h>>
      /\ costs[h] \in Nat
  BY DEF IInv, TypeOK
<1>2. e[1] = costs[h] /\ ~Stops(h)
  <2>1. e[1] <= costs[h] /\ ~Stops(h)
    BY DEF Expand
  <2>2. costs[h] <= e[1]
    BY DEF IInv, HeapIsNoCheaper
  <2> QED BY <1>1, <2>1, <2>2
<1>3. /\ better \subseteq Entries(h) /\ better \subseteq Places
      /\ \A n \in better : New(n) <= board.budget /\ (n \in DOMAIN costs => New(n) < costs[n])
  BY DEF Improved, Entries
<1>4. \A n \in better : New(n) \in Nat /\ board.cost[<<h, n>>] \in Nat
  BY <1>1, <1>3, BoardFields DEF IInv, TypeOK
<1> HIDE DEF better
<1>5. board.start \notin better
  <2>1. board.start \in DOMAIN costs /\ costs[board.start] = 0
    BY DEF IInv, StartIsFree
  <2>2. board.start \in better => New(board.start) \in Nat /\ New(board.start) < 0
    BY <1>3, <1>4, <2>1
  <2> QED BY <2>2
<1>6. h \notin better
  <2>1. h \in better => New(h) < costs[h] /\ board.cost[<<h, h>>] \in Nat
    BY <1>1, <1>3, <1>4
  <2> QED BY <1>1, <1>2, <2>1
<1>7. /\ board' = board
      /\ costs' = [n \in DOMAIN costs \cup better |-> IF n \in better THEN New(n) ELSE costs[n]]
      /\ came_from' = [n \in DOMAIN costs \cup better |->
                          IF n \in better THEN h ELSE came_from[n]]
      /\ heap' = (heap \ {e}) \cup {<<New(n), n>> : n \in better}
  BY DEF Expand, better
<1>8. /\ DOMAIN costs' = DOMAIN costs \cup better
      /\ DOMAIN came_from' = DOMAIN costs \cup better
      /\ \A n \in better : costs'[n] = New(n) /\ came_from'[n] = h
      /\ \A n \in DOMAIN costs \ better : costs'[n] = costs[n] /\ came_from'[n] = came_from[n]
  BY <1>7
<1>9. /\ \A n \in better : <<costs'[n], n>> \in heap'
      /\ \A f \in heap' : \/ f \in heap /\ f # e
                          \/ f[2] \in better /\ f = <<costs'[f[2]], f[2]>>
      /\ \A f \in heap : f = e \/ f \in heap'
  <2>1. \A n \in better : <<costs'[n], n>> = <<New(n), n>>
    BY <1>8
  <2>2. ASSUME NEW f \in heap', ~(f \in heap /\ f # e)
        PROVE  f[2] \in better /\ f = <<costs'[f[2]], f[2]>>
    <3>1. PICK n \in better : f = <<New(n), n>>
      BY <1>7, <2>2
    <3>2. f[2] = n
      BY <3>1
    <3> QED BY <3>1, <3>2, <2>1
  <2>3. \A n \in better : <<costs'[n], n>> \in heap'
    BY <1>7, <2>1
  <2>4. \A f \in heap : f = e \/ f \in heap'
    BY <1>7
  <2> QED BY <2>2, <2>3, <2>4
<1> QED BY <1>1, <1>2, <1>3, <1>4, <1>5, <1>6, <1>7, <1>8, <1>9 DEF better

LEMMA ExpandKeepsIInv ==
    ASSUME IInv, NEW e \in heap, Expand(e)
    PROVE  IInv'
<1> DEFINE h == e[2]
           better == Improved(e[1], h)
<1>1. /\ h \in DOMAIN costs /\ h \in Places /\ e = <<costs[h], h>> /\ ~Stops(h)
      /\ board' = board
      /\ better \subseteq Entries(h) /\ better \subseteq Places
      /\ board.start \notin better /\ h \notin better
  BY ExpandSteps
<1>2. /\ DOMAIN costs' = DOMAIN costs \cup better
      /\ DOMAIN came_from' = DOMAIN costs \cup better
  BY ExpandSteps
<1>3. \A n \in better : /\ costs'[n] = costs[h] + board.cost[<<h, n>>]
                        /\ costs'[n] \in Nat /\ costs'[n] <= board.budget
                        /\ n \in DOMAIN costs => costs'[n] < costs[n]
                        /\ came_from'[n] = h
                        /\ <<costs'[n], n>> \in heap'
  BY ExpandSteps
<1>4. \A n \in DOMAIN costs \ better : costs'[n] = costs[n] /\ came_from'[n] = came_from[n]
  BY ExpandSteps
<1>5. /\ \A f \in heap' : \/ f \in heap /\ f # e
                          \/ f[2] \in better /\ f = <<costs'[f[2]], f[2]>>
      /\ \A f \in heap : f = e \/ f \in heap'
  BY ExpandSteps
<1>6. \A p : Stops(p)' = Stops(p) /\ Entries(p)' = Entries(p)
  BY <1>1 DEF Stops, Entries
<1>7. ASSUME NEW p \in DOMAIN costs
      PROVE  costs[p] \in Nat /\ costs'[p] \in Nat /\ costs'[p] <= costs[p]
  <2>1. costs[p] \in Nat
    BY DEF IInv, TypeOK
  <2>2. CASE p \in better
    <3>1. costs'[p] \in Nat /\ costs'[p] < costs[p]
      BY <2>2, <1>3
    <3> QED BY <2>1, <3>1
  <2>3. CASE p \notin better
    BY <2>1, <2>3, <1>4
  <2> QED BY <2>2, <2>3
<1>8. \A p, n \in Places : board.cost[<<p, n>>] \in Nat
  BY BoardFields DEF IInv, TypeOK
<1> HIDE DEF better, h
<1>9. TypeOK'
  <2>1. /\ costs' \in [DOMAIN costs' -> Nat]
        /\ came_from' \in [DOMAIN costs' -> Places \cup {None}]
    <3>1. \A n \in DOMAIN costs' : costs'[n] \in Nat
      BY <1>2, <1>3, <1>7
    <3>2. \A n \in DOMAIN costs' : came_from'[n] \in Places \cup {None}
      BY <1>1, <1>2, <1>3, <1>4 DEF IInv, TypeOK
    <3>3. /\ costs' = [n \in DOMAIN costs' |-> costs'[n]]
          /\ came_from' = [n \in DOMAIN costs' |-> came_from'[n]]
      BY <1>2, ExpandSteps DEF Expand
    <3> QED BY <3>1, <3>2, <3>3
  <2>2. heap' \subseteq Nat \X DOMAIN costs'
    <3> SUFFICES ASSUME NEW f \in heap' PROVE f \in Nat \X DOMAIN costs'
      OBVIOUS
    <3>1. CASE f \in heap
      <4>1. f \in Nat \X DOMAIN costs
        BY <3>1 DEF IInv, TypeOK
      <4> QED BY <4>1, <1>2
    <3>2. CASE f[2] \in better /\ f = <<costs'[f[2]], f[2]>>
      <4>1. f[2] \in DOMAIN costs' /\ costs'[f[2]] \in Nat
        BY <3>2, <1>2, <1>3
      <4> QED BY <3>2, <4>1
    <3> QED BY <3>1, <3>2, <1>5
  <2>3. DOMAIN costs' \subseteq Places
    BY <1>1, <1>2 DEF IInv, TypeOK
  <2> QED BY <1>1, <2>1, <2>2, <2>3 DEF IInv, TypeOK
<1>10. StartIsFree'
  BY <1>1, <1>2, <1>4 DEF IInv, StartIsFree
<1>11. HeapIsNoCheaper'
  <2> SUFFICES ASSUME NEW f \in heap' PROVE costs'[f[2]] <= f[1]
    BY DEF HeapIsNoCheaper
  <2>1. CASE f \in heap
    <3>1. f[2] \in DOMAIN costs /\ f[1] \in Nat
      BY <2>1 DEF IInv, TypeOK
    <3>2. costs[f[2]] <= f[1]
      BY <2>1 DEF IInv, HeapIsNoCheaper
    <3>3. costs[f[2]] \in Nat /\ costs'[f[2]] \in Nat /\ costs'[f[2]] <= costs[f[2]]
      BY <3>1, <1>7
    <3> QED BY <3>1, <3>2, <3>3
  <2>2. CASE f[2] \in better /\ f = <<costs'[f[2]], f[2]>>
    <3>1. \A x, y : f = <<x, y>> => f[1] = x
      OBVIOUS
    <3>2. costs'[f[2]] \in Nat
      BY <2>2, <1>3
    <3>3. f[1] = costs'[f[2]]
      BY <2>2, <3>1
    <3> QED BY <3>2, <3>3
  <2> QED BY <2>1, <2>2, <1>5
<1>12. ReachedByAStep'
  <2> SUFFICES ASSUME NEW n \in DOMAIN costs', n # board.start
               PROVE  /\ came_from'[n] \in DOMAIN costs'
                      /\ ~Stops(came_from'[n])
                      /\ n \in Entries(came_from'[n])
                      /\ costs'[came_from'[n]] + board.cost[<<came_from'[n], n>>] <= costs'[n]
                      /\ costs'[n] <= board.budget
    BY <1>1, <1>6 DEF ReachedByAStep
  <2>1. CASE n \in better
    <3>1. costs'[h] = costs[h] /\ h \in DOMAIN costs' /\ ~Stops(h)
      BY <1>1, <1>2, <1>4
    <3>2. /\ came_from'[n] = h /\ n \in Entries(h) /\ costs'[n] <= board.budget
          /\ costs'[n] = costs[h] + board.cost[<<h, n>>] /\ costs'[n] \in Nat
      BY <2>1, <1>1, <1>3
    <3> QED BY <3>1, <3>2
  <2>2. CASE n \notin better
    <3> DEFINE p == came_from[n]
    <3>1. n \in DOMAIN costs /\ came_from'[n] = p /\ costs'[n] = costs[n]
      BY <2>2, <1>2, <1>4
    <3>2. /\ p \in DOMAIN costs /\ ~Stops(p) /\ n \in Entries(p)
          /\ costs[p] + board.cost[<<p, n>>] <= costs[n] /\ costs[n] <= board.budget
      BY <3>1 DEF IInv, ReachedByAStep
    <3>3. p \in Places /\ n \in Places /\ board.cost[<<p, n>>] \in Nat /\ costs[n] \in Nat
      BY <3>1, <3>2, <1>8 DEF IInv, TypeOK
    <3>4. costs'[p] <= costs[p] /\ costs'[p] \in Nat /\ costs[p] \in Nat
      BY <3>2, <1>7
    <3>5. costs'[p] + board.cost[<<p, n>>] <= costs[n]
      BY <3>2, <3>3, <3>4
    <3> QED BY <3>1, <3>2, <3>5, <1>2
  <2> QED BY <2>1, <2>2
<1>13. WaitingOrRelaxed'
  <2> SUFFICES ASSUME NEW p \in DOMAIN costs', ~Stops(p), <<costs'[p], p>> \notin heap'
               PROVE  Relaxed(p)'
    BY <1>6 DEF WaitingOrRelaxed
  <2>1. p \notin better
    BY <1>3
  <2>2. p \in DOMAIN costs /\ p \in Places /\ costs'[p] = costs[p]
    BY <2>1, <1>2, <1>4 DEF IInv, TypeOK
  <2> SUFFICES ASSUME NEW n \in Entries(p), costs[p] + board.cost[<<p, n>>] <= board.budget
               PROVE  n \in DOMAIN costs' /\ costs'[n] <= costs[p] + board.cost[<<p, n>>]
    BY <1>1, <1>6, <2>2 DEF Relaxed
  <2>3. n \in Places /\ board.cost[<<p, n>>] \in Nat /\ costs[p] \in Nat
    BY <2>2, <1>7, <1>8 DEF Entries
  <2>4. CASE p = h
    <3>1. CASE n \in better
      <4>1. /\ costs'[n] = costs[h] + board.cost[<<h, n>>] /\ costs'[n] \in Nat
            /\ n \in DOMAIN costs'
        BY <3>1, <1>2, <1>3
      <4> QED BY <4>1, <2>4
    <3>2. CASE n \notin better
      <4>1. e[1] = costs[h]
        BY <1>1
      <4>2. n \in DOMAIN costs /\ ~(costs[h] + board.cost[<<h, n>>] < costs[n])
        BY <3>2, <2>4, <4>1 DEF better, Improved, h
      <4> QED BY <4>2, <3>2, <2>3, <2>4, <1>2, <1>4, <1>7
    <3> QED BY <3>1, <3>2
  <2>5. CASE p # h
    <3>1. <<costs[p], p>> \notin heap
      <4>1. <<costs[p], p>> # e
        BY <2>5, <1>1
      <4> QED BY <4>1, <1>5, <2>2
    <3>2. Relaxed(p)
      BY <3>1, <2>2 DEF IInv, WaitingOrRelaxed
    <3>3. n \in DOMAIN costs /\ costs[n] <= costs[p] + board.cost[<<p, n>>]
      BY <3>2 DEF Relaxed
    <3> QED BY <3>3, <2>3, <1>2, <1>7
  <2> QED BY <2>4, <2>5
<1> QED BY <1>9, <1>10, <1>11, <1>12, <1>13 DEF IInv

\* The invariant of the search holds in every state of every search.
THEOREM SearchInvariant == Spec => []IInv
<1>1. IInv /\ [Next]_vars => IInv'
  <2>1. ASSUME IInv, UNCHANGED vars PROVE IInv'
    BY <2>1 DEF vars, IInv, TypeOK, StartIsFree, HeapIsNoCheaper, WaitingOrRelaxed, Relaxed,
                ReachedByAStep, Stops, Entries
  <2> QED BY <2>1, DiscardKeepsIInv, ExpandKeepsIInv DEF Next
<1> QED BY <1>1, InitIInv, PTL DEF Spec

\* NoStepImproves, for every board and every order of the heap: a finished search has
\* settled every hex it reached, and each by a step that pays exactly its cost.
THEOREM SearchIsSettled == Spec => []NoStepImproves
<1>1. IInv => NoStepImproves
  <2> SUFFICES ASSUME IInv, heap = {} PROVE NoStepImproves
    BY DEF NoStepImproves, Finished
  <2>1. \A h \in DOMAIN costs : ~Stops(h) => Relaxed(h)
    BY DEF IInv, WaitingOrRelaxed
  <2>2. ASSUME NEW n \in DOMAIN costs \ {board.start}
        PROVE  /\ came_from[n] \in DOMAIN costs /\ ~Stops(came_from[n])
               /\ n \in Entries(came_from[n])
               /\ costs[n] = costs[came_from[n]] + board.cost[<<came_from[n], n>>]
    <3> DEFINE p == came_from[n]
    <3>1. /\ p \in DOMAIN costs /\ ~Stops(p) /\ n \in Entries(p)
          /\ costs[p] + board.cost[<<p, n>>] <= costs[n] /\ costs[n] <= board.budget
      BY DEF IInv, ReachedByAStep
    <3>2. /\ p \in Places /\ n \in Places /\ costs[p] \in Nat /\ costs[n] \in Nat
          /\ board.cost[<<p, n>>] \in Nat /\ board.budget \in Nat
      BY <3>1, BoardFields DEF IInv, TypeOK
    <3>3. costs[n] <= costs[p] + board.cost[<<p, n>>]
      BY <3>1, <3>2, <2>1 DEF Relaxed
    <3> QED BY <3>1, <3>2, <3>3
  <2> QED BY <2>1, <2>2 DEF NoStepImproves, Relaxed
<1> QED BY <1>1, SearchInvariant, PTL

-----------------------------------------------------------------------------
(* The costs are the least. *)

AddStep(p, c, n) == c + board.cost[<<p[n], p[n + 1]>>]
Sums == INSTANCE Folding WITH op <- AddStep

LongerToo(x, paths, n) == paths \cup UNION {Extensions(p) : p \in paths}
Lengths == INSTANCE Folding WITH op <- LongerToo

\* A walk of n hexes by legal steps, which may come back to a hex; and what g says it costs
\* at least up to each of its hexes.
IsWalk(w, n) ==
    /\ n \in Nat \ {0} /\ w \in [1..n -> Places] /\ w[1] = board.start
    /\ \A k \in 1..(n - 1) : ~Stops(w[k]) /\ w[k + 1] \in Entries(w[k])

StepCost(w, k) == board.cost[<<w[k], w[k + 1]>>]

Pays(w, n, g) ==
    /\ g \in [1..n -> Nat]
    /\ \A k \in 1..(n - 1) : g[k] + StepCost(w, k) <= g[k + 1]

\* A walk of n hexes leads to h at no more than c.
Leads(h, c, n) ==
    \E w, g : IsWalk(w, n) /\ Pays(w, n, g) /\ w[n] = h /\ g[n] <= c

WalkedTo == \A h \in DOMAIN costs : \E n \in Nat \ {0} : Leads(h, costs[h], n)

LEMMA InitWalked == board \in Boards /\ Init => WalkedTo
<1> SUFFICES ASSUME board \in Boards, Init PROVE WalkedTo
  OBVIOUS
<1>1. DOMAIN costs = {board.start} /\ costs[board.start] = 0 /\ board.start \in Places
  BY BoardFields DEF Init
<1> DEFINE w == [k \in 1..1 |-> board.start]
           g == [k \in 1..1 |-> 0]
<1>2. IsWalk(w, 1) /\ Pays(w, 1, g) /\ w[1] = board.start /\ g[1] <= 0
  BY <1>1 DEF IsWalk, Pays
<1>3. Leads(board.start, 0, 1)
  BY <1>2 DEF Leads
<1> QED BY <1>1, <1>3 DEF WalkedTo

LEMMA LeadsStays ==
    ASSUME board' = board
    PROVE  \A h, c, n : Leads(h, c, n)' <=> Leads(h, c, n)
  BY DEF Leads, IsWalk, Pays, StepCost, Stops, Entries

\* One more step.
LEMMA LeadsOn ==
    ASSUME board \in Boards, NEW h \in Places, NEW c \in Nat, NEW n \in Nat \ {0}, Leads(h, c, n),
           ~Stops(h), NEW m \in Entries(h)
    PROVE  Leads(m, c + board.cost[<<h, m>>], n + 1)
<1>1. PICK w, g : IsWalk(w, n) /\ Pays(w, n, g) /\ w[n] = h /\ g[n] <= c
  BY DEF Leads
<1> DEFINE d == c + board.cost[<<h, m>>]
           v == [k \in 1..(n + 1) |-> IF k = n + 1 THEN m ELSE w[k]]
           f == [k \in 1..(n + 1) |-> IF k = n + 1 THEN d ELSE g[k]]
<1>2. /\ m \in Places /\ board.cost[<<h, m>>] \in Nat /\ d \in Nat /\ n \in Nat /\ n >= 1
      /\ w \in [1..n -> Places] /\ g \in [1..n -> Nat]
  BY <1>1, BoardFields DEF Entries, IsWalk, Pays
<1>3. \A k \in 1..n : v[k] = w[k] /\ f[k] = g[k]
  BY <1>2
<1>4. v[n + 1] = m /\ f[n + 1] = d
  BY <1>2
<1>5. v \in [1..(n + 1) -> Places] /\ f \in [1..(n + 1) -> Nat]
  BY <1>2
<1> HIDE DEF v, f
<1>6. ASSUME NEW k \in 1..n
      PROVE  /\ ~Stops(v[k]) /\ v[k + 1] \in Entries(v[k])
             /\ f[k] + StepCost(v, k) <= f[k + 1]
  <2>1. CASE k = n
    <3>1. StepCost(v, k) = board.cost[<<h, m>>] /\ f[k] = g[n] /\ f[k + 1] = d
      BY <1>1, <1>2, <1>3, <1>4, <2>1 DEF StepCost
    <3>2. g[n] \in Nat /\ g[n] <= c
      BY <1>1, <1>2
    <3> QED BY <1>1, <1>2, <1>3, <1>4, <2>1, <3>1, <3>2
  <2>2. CASE k # n
    <3>1. k \in 1..(n - 1) /\ k + 1 \in 1..n
      BY <1>2, <2>2
    <3> QED BY <1>1, <1>3, <3>1 DEF IsWalk, Pays, StepCost
  <2> QED BY <2>1, <2>2
<1>7. IsWalk(v, n + 1)
  BY <1>1, <1>2, <1>3, <1>5, <1>6 DEF IsWalk
<1>8. Pays(v, n + 1, f)
  BY <1>2, <1>5, <1>6 DEF Pays
<1> QED BY <1>2, <1>4, <1>7, <1>8 DEF Leads

LEMMA NextWalked == IInv /\ WalkedTo /\ [Next]_vars => WalkedTo'
<1> SUFFICES ASSUME IInv, WalkedTo, [Next]_vars PROVE WalkedTo'
  OBVIOUS
<1>1. CASE costs' = costs /\ board' = board
  BY <1>1, LeadsStays DEF WalkedTo
<1>2. ASSUME NEW e \in heap, Expand(e) PROVE WalkedTo'
  <2> DEFINE h == e[2]
             better == Improved(e[1], h)
  <2>1. /\ h \in DOMAIN costs /\ h \in Places /\ ~Stops(h) /\ board' = board
        /\ better \subseteq Entries(h)
        /\ DOMAIN costs' = DOMAIN costs \cup better
        /\ \A n \in better : costs'[n] = costs[h] + board.cost[<<h, n>>]
        /\ \A n \in DOMAIN costs \ better : costs'[n] = costs[n]
    BY <1>2, ExpandSteps
  <2>2. PICK n \in Nat \ {0} : Leads(h, costs[h], n)
    BY <2>1 DEF WalkedTo
  <2>3. board \in Boards /\ costs[h] \in Nat /\ n + 1 \in Nat \ {0}
    BY <2>1 DEF IInv, TypeOK
  <2> HIDE DEF h, better
  <2>4. ASSUME NEW m \in DOMAIN costs'
        PROVE  \E k \in Nat \ {0} : Leads(m, costs'[m], k)
    <3>1. CASE m \in better
      <4>1. Leads(m, costs[h] + board.cost[<<h, m>>], n + 1)
        BY <2>1, <2>2, <2>3, <3>1, LeadsOn
      <4> QED BY <2>1, <2>3, <3>1, <4>1
    <3>2. CASE m \notin better
      BY <2>1, <3>2 DEF WalkedTo
    <3> QED BY <3>1, <3>2
  <2> QED BY <2>1, <2>4, LeadsStays DEF WalkedTo
<1> QED BY <1>1, <1>2 DEF Next, Discard, vars

\* A finished search reports whatever a walk within the budget leads to, at no more than it costs.
LEMMA WalksAreNoCheaper ==
    ASSUME IInv, heap = {}, NEW n, NEW w, NEW g, IsWalk(w, n), Pays(w, n, g), g[n] <= board.budget
    PROVE  w[n] \in DOMAIN costs /\ costs[w[n]] <= g[n]
<1>1. /\ n \in Nat /\ n >= 1 /\ w \in [1..n -> Places] /\ g \in [1..n -> Nat]
      /\ board.budget \in Nat /\ board.start \in Places
      /\ w[1] = board.start
  BY BoardFields DEF IsWalk, Pays, IInv, TypeOK
<1> DEFINE Bounded(k) == g[k] <= board.budget =>
                            w[k] \in DOMAIN costs /\ costs[w[k]] <= g[k]
           S == {k \in 0..(n - 1) : Bounded(k + 1)}
<1>2. 0 \in S
  <2>1. board.start \in DOMAIN costs /\ costs[board.start] = 0 /\ g[1] \in Nat
    BY <1>1 DEF IInv, StartIsFree
  <2> QED BY <1>1, <2>1
<1>3. ASSUME NEW k \in 1..(n - 1), Bounded(k) PROVE Bounded(k + 1)
  <2> SUFFICES ASSUME g[k + 1] <= board.budget
               PROVE  w[k + 1] \in DOMAIN costs /\ costs[w[k + 1]] <= g[k + 1]
    OBVIOUS
  <2>1. /\ k \in 1..n /\ k + 1 \in 1..n
        /\ w[k] \in Places /\ w[k + 1] \in Places /\ g[k] \in Nat /\ g[k + 1] \in Nat
        /\ board.cost[<<w[k], w[k + 1]>>] \in Nat
    BY <1>1, BoardFields DEF IInv, TypeOK
  <2>2. /\ ~Stops(w[k]) /\ w[k + 1] \in Entries(w[k])
        /\ g[k] + board.cost[<<w[k], w[k + 1]>>] <= g[k + 1]
    BY DEF IsWalk, Pays, StepCost
  <2>3. g[k] <= board.budget
    BY <1>1, <2>1, <2>2
  <2>4. w[k] \in DOMAIN costs /\ costs[w[k]] <= g[k]
    BY <1>3, <2>3
  <2>5. costs[w[k]] \in Nat
    BY <2>4 DEF IInv, TypeOK
  <2>6. Relaxed(w[k])
    BY <2>2, <2>4 DEF IInv, WaitingOrRelaxed
  <2>7. costs[w[k]] + board.cost[<<w[k], w[k + 1]>>] <= board.budget
    <3> DEFINE a == costs[w[k]]
               x == board.cost[<<w[k], w[k + 1]>>]
               y == g[k]
               z == g[k + 1]
               b == board.budget
    <3>1. a \in Nat /\ x \in Nat /\ y \in Nat /\ z \in Nat /\ b \in Nat
      BY <1>1, <2>1, <2>5
    <3>2. a <= y /\ y + x <= z /\ z <= b
      BY <2>2, <2>4
    <3> HIDE DEF a, x, y, z, b
    <3>3. a + x <= b
      BY <3>1, <3>2
    <3> QED BY <3>3 DEF a, x, b
  <2>8. /\ w[k + 1] \in DOMAIN costs
        /\ costs[w[k + 1]] <= costs[w[k]] + board.cost[<<w[k], w[k + 1]>>]
    BY <2>2, <2>6, <2>7 DEF Relaxed
  <2>9. costs[w[k + 1]] \in Nat
    BY <2>8 DEF IInv, TypeOK
  <2> QED BY <2>1, <2>2, <2>4, <2>5, <2>8, <2>9
<1> HIDE DEF Bounded
<1>4. ASSUME NEW k \in 0..((n - 1) - 1), k \in S PROVE k + 1 \in S
  <2>1. k + 1 \in 1..(n - 1) /\ k + 1 \in 0..(n - 1) /\ Bounded(k + 1)
    BY <1>1, <1>4
  <2> QED BY <1>3, <2>1
<1> HIDE DEF S
<1>5. 0..(n - 1) \subseteq S
  <2>1. n - 1 \in Nat
    BY <1>1
  <2> QED BY <1>2, <1>4, <2>1, Sums!BoundedInduction
<1>6. n - 1 \in 0..(n - 1) /\ (n - 1) + 1 = n
  BY <1>1
<1> QED BY <1>5, <1>6 DEF S, Bounded

\* Costs add up along a walk.
LEMMA PaysMore ==
    ASSUME NEW n, NEW w, NEW g, board \in Boards, IsWalk(w, n), Pays(w, n, g),
           NEW i \in 1..n, NEW j \in 1..n, i <= j
    PROVE  g[i] <= g[j]
<1>1. n \in Nat /\ n >= 1 /\ w \in [1..n -> Places] /\ g \in [1..n -> Nat]
  BY DEF IsWalk, Pays
<1> DEFINE S == {k \in 0..(n - i) : g[i] <= g[i + k]}
<1>2. 0 \in S /\ n - i \in Nat
  BY <1>1
<1>3. ASSUME NEW k \in 0..((n - i) - 1), k \in S PROVE k + 1 \in S
  <2>1. /\ i + k \in 1..(n - 1) /\ i + k \in 1..n /\ (i + k) + 1 \in 1..n
        /\ k + 1 \in 0..(n - i) /\ i + (k + 1) = (i + k) + 1
    BY <1>1
  <2>2. g[i + k] + StepCost(w, i + k) <= g[(i + k) + 1]
    BY <2>1 DEF Pays
  <2>3. StepCost(w, i + k) \in Nat
    BY <1>1, <2>1, BoardFields DEF StepCost
  <2>4. g[i] \in Nat /\ g[i + k] \in Nat /\ g[(i + k) + 1] \in Nat /\ g[i] <= g[i + k]
    BY <1>1, <1>3, <2>1
  <2> QED BY <2>1, <2>2, <2>3, <2>4
<1> HIDE DEF S
<1>4. 0..(n - i) \subseteq S
  BY <1>2, <1>3, Sums!BoundedInduction
<1>5. j - i \in 0..(n - i) /\ i + (j - i) = j
  BY <1>1
<1> QED BY <1>4, <1>5 DEF S

\* A way round is left out.
LEMMA CutShort ==
    ASSUME board \in Boards, NEW n, NEW w, NEW g, IsWalk(w, n), Pays(w, n, g),
           NEW i \in 1..n, NEW j \in 1..n, i < j, w[i] = w[j]
    PROVE  n - (j - i) \in Nat \ {0} /\ n - (j - i) < n /\ Leads(w[n], g[n], n - (j - i))
<1> DEFINE d == j - i
           m == n - d
           v == [k \in 1..m |-> IF k <= i THEN w[k] ELSE w[k + d]]
           f == [k \in 1..m |-> IF k <= i THEN g[k] ELSE g[k + d]]
<1>1. /\ n \in Nat /\ n >= 1 /\ w \in [1..n -> Places] /\ g \in [1..n -> Nat]
      /\ d \in Nat /\ d >= 1 /\ m \in Nat /\ m >= i /\ i >= 1 /\ j = i + d /\ n = m + d
      /\ i \in Nat
  BY DEF IsWalk, Pays
<1> HIDE DEF d, m
<1>2. \A k \in 1..m : /\ k <= i => k \in 1..n /\ v[k] = w[k] /\ f[k] = g[k]
                      /\ k > i => k + d \in 1..n /\ v[k] = w[k + d] /\ f[k] = g[k + d]
  BY <1>1
<1>3. v \in [1..m -> Places] /\ f \in [1..m -> Nat]
  <2>1. \A k \in 1..m : v[k] \in Places /\ f[k] \in Nat
    BY <1>1, <1>2
  <2> QED BY <2>1
<1> HIDE DEF v, f
<1>4. ASSUME NEW k \in 1..(m - 1)
      PROVE  /\ ~Stops(v[k]) /\ v[k + 1] \in Entries(v[k])
             /\ f[k] + StepCost(v, k) <= f[k + 1]
  <2>1. k \in 1..m /\ k + 1 \in 1..m
    BY <1>1
  <2>2. CASE k + 1 <= i
    <3>1. k <= i /\ k \in 1..(n - 1)
      BY <1>1, <2>2
    <3>2. v[k] = w[k] /\ f[k] = g[k] /\ v[k + 1] = w[k + 1] /\ f[k + 1] = g[k + 1]
      BY <1>2, <2>1, <2>2, <3>1
    <3> QED BY <3>1, <3>2 DEF IsWalk, Pays, StepCost
  <2>3. CASE k = i
    <3>1. j \in 1..(n - 1) /\ j \in 1..n /\ (k + 1) + d = j + 1 /\ ~(k + 1 <= i) /\ k + 1 > i
          /\ j + 1 \in 1..n
      BY <1>1, <2>1, <2>3
    <3>2. v[k] = w[j] /\ f[k] = g[i] /\ v[k + 1] = w[j + 1] /\ f[k + 1] = g[j + 1]
      BY <1>1, <1>2, <2>1, <2>3, <3>1
    <3>3. ~Stops(w[j]) /\ w[j + 1] \in Entries(w[j]) /\ g[j] + StepCost(w, j) <= g[j + 1]
      BY <3>1 DEF IsWalk, Pays
    <3>4. g[i] <= g[j]
      <4>1. i <= j
        BY <1>1
      <4> QED BY <4>1, PaysMore
    <3>5. StepCost(v, k) = StepCost(w, j) /\ StepCost(w, j) \in Nat
      BY <1>1, <3>1, <3>2, BoardFields DEF StepCost
    <3>6. g[i] \in Nat /\ g[j] \in Nat /\ g[j + 1] \in Nat
      BY <1>1, <3>1
    <3> QED BY <3>2, <3>3, <3>4, <3>5, <3>6
  <2>4. CASE k > i
    <3>1. k + d \in 1..(n - 1) /\ (k + 1) + d = (k + d) + 1 /\ k + 1 > i
      BY <1>1, <2>1, <2>4
    <3>2. /\ v[k] = w[k + d] /\ f[k] = g[k + d]
          /\ v[k + 1] = w[(k + d) + 1] /\ f[k + 1] = g[(k + d) + 1]
      BY <1>2, <2>1, <2>4, <3>1
    <3> QED BY <3>1, <3>2 DEF IsWalk, Pays, StepCost
  <2> QED BY <1>1, <2>2, <2>3, <2>4
<1>5. IsWalk(v, m)
  BY <1>1, <1>2, <1>3, <1>4 DEF IsWalk
<1>6. Pays(v, m, f)
  BY <1>3, <1>4 DEF Pays
<1>7. v[m] = w[n] /\ f[m] <= g[n]
  <2>1. m \in 1..m
    BY <1>1
  <2>2. CASE m = i
    <3>1. v[m] = w[i] /\ f[m] = g[i] /\ j = n /\ i <= j
      BY <1>1, <1>2, <2>1, <2>2
    <3>2. g[i] <= g[j]
      BY <3>1, PaysMore
    <3> QED BY <3>1, <3>2
  <2>3. CASE m > i
    <3>1. v[m] = w[n] /\ f[m] = g[n] /\ g[n] \in Nat
      BY <1>1, <1>2, <2>1, <2>3
    <3> QED BY <3>1
  <2> QED BY <1>1, <2>2, <2>3
<1> QED BY <1>1, <1>5, <1>6, <1>7 DEF Leads, m, d

\* Whatever can be reached can be reached without coming back to a hex.
LEMMA SimpleWalk ==
    ASSUME board \in Boards, NEW h, NEW c \in Nat, NEW k \in Nat \ {0}, Leads(h, c, k)
    PROVE  \E n, w, g : /\ IsWalk(w, n) /\ Pays(w, n, g) /\ w[n] = h /\ g[n] <= c
                        /\ \A i, j \in 1..n : w[i] = w[j] => i = j
<1> DEFINE L == {n \in Nat \ {0} : Leads(h, c, n)}
<1>1. L \in SUBSET Nat /\ L # {}
  OBVIOUS
<1>2. PICK n \in L : \A m \in L : n <= m
  BY <1>1, Sums!LeastNumber
<1>3. n \in Nat \ {0} /\ Leads(h, c, n)
  OBVIOUS
<1>4. PICK w, g : IsWalk(w, n) /\ Pays(w, n, g) /\ w[n] = h /\ g[n] <= c
  BY <1>3 DEF Leads
<1>5. ASSUME NEW i \in 1..n, NEW j \in 1..n, i < j, w[i] = w[j] PROVE FALSE
  <2> DEFINE m == n - (j - i)
  <2>1. m \in Nat \ {0} /\ m < n /\ Leads(h, g[n], m)
    BY <1>4, <1>5, CutShort
  <2> HIDE DEF m
  <2>2. g[n] \in Nat
    BY <1>3, <1>4 DEF Pays
  <2>3. PICK v, f : IsWalk(v, m) /\ Pays(v, m, f) /\ v[m] = h /\ f[m] <= g[n]
    BY <2>1 DEF Leads
  <2>4. f[m] \in Nat
    BY <2>1, <2>3 DEF Pays
  <2>5. f[m] <= c
    BY <1>4, <2>2, <2>3, <2>4
  <2>6. Leads(h, c, m)
    BY <2>3, <2>5 DEF Leads
  <2>7. m \in L
    BY <2>1, <2>6
  <2>8. n <= m
    BY <1>2, <2>7
  <2> QED BY <1>3, <2>1, <2>8
<1>6. \A i, j \in 1..n : w[i] = w[j] => i = j
  <2> SUFFICES ASSUME NEW i \in 1..n, NEW j \in 1..n, w[i] = w[j], i # j PROVE FALSE
    OBVIOUS
  <2>1. i < j \/ j < i
    OBVIOUS
  <2> QED BY <1>5, <2>1
<1> QED BY <1>4, <1>6

\* The legal paths of at most m hexes.
PathsUpTo(m) ==
    {p \in Seq(Places) : /\ Len(p) \in 1..m
                         /\ IsWalk(p, Len(p))
                         /\ \A i, j \in 1..Len(p) : p[i] = p[j] => i = j}

LEMMA PathsGrow ==
    ASSUME NEW m \in Nat \ {0}
    PROVE  LongerToo(None, PathsUpTo(m), m) = PathsUpTo(m + 1)
<1>1. ASSUME NEW p \in PathsUpTo(m), NEW q \in Extensions(p) PROVE q \in PathsUpTo(m + 1)
  <2> DEFINE n == Len(p)
  <2>1. /\ p \in Seq(Places) /\ n \in 1..m /\ IsWalk(p, n) /\ n \in Nat
        /\ \A i, j \in 1..n : p[i] = p[j] => i = j
        /\ p \in [1..n -> Places]
    BY DEF PathsUpTo
  <2>2. ~Stops(p[n])
    BY DEF Extensions, Last
  <2>3. PICK h \in Entries(p[n]) \ Range(p) : q = Append(p, h)
    BY <2>2 DEF Extensions, Last
  <2>4. h \in Places /\ \A i \in 1..n : p[i] # h
    BY <2>1, <2>3 DEF Entries, Range
  <2>5. /\ q \in Seq(Places) /\ Len(q) = n + 1 /\ q[n + 1] = h
        /\ \A i \in 1..n : q[i] = p[i]
    BY <2>1, <2>3, <2>4
  <2> HIDE DEF n
  <2>6. \A i, j \in 1..(n + 1) : q[i] = q[j] => i = j
    <3>1. \A i \in 1..(n + 1) : i \in 1..n \/ i = n + 1
      BY <2>1
    <3> QED BY <2>1, <2>4, <2>5, <3>1
  <2>7. \A k \in 1..n : ~Stops(q[k]) /\ q[k + 1] \in Entries(q[k])
    <3> SUFFICES ASSUME NEW k \in 1..n PROVE ~Stops(q[k]) /\ q[k + 1] \in Entries(q[k])
      OBVIOUS
    <3>1. CASE k = n
      BY <2>1, <2>2, <2>3, <2>5, <3>1
    <3>2. CASE k # n
      <4>1. k \in 1..(n - 1) /\ k + 1 \in 1..n
        BY <2>1, <3>2
      <4> QED BY <2>1, <2>5, <4>1 DEF IsWalk
    <3> QED BY <3>1, <3>2
  <2>8. IsWalk(q, n + 1)
    <3>1. n + 1 \in Nat \ {0} /\ q \in [1..(n + 1) -> Places] /\ (n + 1) - 1 = n /\ 1 \in 1..n
      BY <2>1, <2>5
    <3>2. q[1] = board.start
      BY <2>1, <2>5, <3>1 DEF IsWalk
    <3> QED BY <2>7, <3>1, <3>2 DEF IsWalk
  <2>9. n + 1 \in 1..(m + 1)
    BY <2>1
  <2> QED BY <2>5, <2>6, <2>8, <2>9 DEF PathsUpTo
<1>2. PathsUpTo(m) \subseteq PathsUpTo(m + 1)
  BY DEF PathsUpTo
<1>3. ASSUME NEW q \in PathsUpTo(m + 1), q \notin PathsUpTo(m)
      PROVE  \E p \in PathsUpTo(m) : q \in Extensions(p)
  <2>1. /\ q \in Seq(Places) /\ Len(q) = m + 1 /\ IsWalk(q, m + 1)
        /\ \A i, j \in 1..(m + 1) : q[i] = q[j] => i = j
    BY <1>3 DEF PathsUpTo
  <2> DEFINE p == SubSeq(q, 1, m)
             h == q[m + 1]
  <2>2. p \in Seq(Places) /\ Len(p) = m /\ \A i \in 1..m : p[i] = q[i]
    BY <2>1
  <2>3. h \in Places
    BY <2>1
  <2>4. q = Append(p, h)
    BY <2>1
  <2> HIDE DEF p, h
  <2>5. \A k \in 1..m : ~Stops(q[k]) /\ q[k + 1] \in Entries(q[k])
    BY <2>1 DEF IsWalk
  <2>6. IsWalk(p, m)
    <3>1. /\ p \in [1..m -> Places] /\ 1 \in 1..m
          /\ \A k \in 1..(m - 1) : k \in 1..m /\ k + 1 \in 1..m
      BY <2>2
    <3>2. p[1] = board.start
      BY <2>1, <2>2, <3>1 DEF IsWalk
    <3> QED BY <2>2, <2>5, <3>1, <3>2 DEF IsWalk
  <2>7. p \in PathsUpTo(m)
    BY <2>1, <2>2, <2>6 DEF PathsUpTo
  <2>8. h \notin Range(p)
    <3>1. \A i \in 1..m : i \in 1..(m + 1) /\ i # m + 1 /\ m + 1 \in 1..(m + 1)
      OBVIOUS
    <3> QED BY <2>1, <2>2, <3>1 DEF Range, h
  <2>9. ~Stops(Last(p)) /\ h \in Entries(Last(p))
    <3>1. m \in 1..m /\ Last(p) = p[m]
      BY <2>2 DEF Last
    <3> QED BY <2>2, <2>5, <3>1 DEF h
  <2>10. q \in Extensions(p)
    BY <2>4, <2>8, <2>9 DEF Extensions
  <2> QED BY <2>7, <2>10
<1> QED BY <1>1, <1>2, <1>3 DEF LongerToo

LEMMA LegalPathsAre ==
    ASSUME board \in Boards
    PROVE  Cardinality(Places) \in Nat \ {0} /\ LegalPaths = PathsUpTo(Cardinality(Places))
<1> DEFINE N == Cardinality(Places) - 1
           seq == [n \in 1..N |-> n]
           base == {<<board.start>>}
<1>1. board.start \in Places
  BY BoardFields
<1>2. IsFiniteSet(Places)
  BY PlacesAssumption
<1>3. Cardinality(Places) \in Nat \ {0}
  BY <1>1, <1>2, FS_CardinalityType, FS_EmptySet
<1>4. LegalPaths = Lengths!Folded(None, base, seq)
  BY DEF LegalPaths, FoldLeft, MapThenFoldSet, Lengths!MapThenFoldSet,
         Lengths!Folded, Max, Lengths!Greatest, LongerToo
<1>5. N \in Nat /\ DOMAIN seq = 1..N
  BY <1>3
<1> HIDE DEF seq, N
<1>6. PICK g : /\ g[0] = base
               /\ \A k \in 0..(N - 1) : g[k + 1] = LongerToo(None, g[k], seq[k + 1])
               /\ Lengths!Folded(None, base, seq) = g[N]
  <2>1. Lengths!RunsThrough(None, base, seq, N)
    BY <1>5, Lengths!Unrolled
  <2> QED BY <2>1, Zenon DEF Lengths!RunsThrough
<1>7. base = PathsUpTo(1)
  <2>1. <<board.start>> \in PathsUpTo(1)
    <3> DEFINE p == <<board.start>>
    <3>1. /\ p \in Seq(Places) /\ Len(p) = 1 /\ p[1] = board.start
          /\ p \in [1..1 -> Places]
      BY <1>1
    <3> HIDE DEF p
    <3>2. IsWalk(p, 1)
      BY <3>1 DEF IsWalk
    <3> QED BY <3>1, <3>2 DEF PathsUpTo, p
  <2>2. ASSUME NEW p \in PathsUpTo(1) PROVE p = <<board.start>>
    <3>1. p \in Seq(Places) /\ Len(p) = 1 /\ p[1] = board.start
      BY DEF PathsUpTo, IsWalk
    <3> QED BY <3>1
  <2> QED BY <2>1, <2>2
<1> DEFINE S == {k \in 0..N : g[k] = PathsUpTo(k + 1)}
<1>8. 0 \in S
  <2>1. 0 \in 0..N /\ 0 + 1 = 1
    BY <1>5
  <2>2. g[0] = PathsUpTo(0 + 1)
    BY <1>6, <1>7, <2>1
  <2> QED BY <2>1, <2>2
<1>9. ASSUME NEW k \in 0..(N - 1), k \in S PROVE k + 1 \in S
  <2>1. k + 1 \in 0..N /\ k + 1 \in Nat \ {0}
    BY <1>5
  <2>2. g[k + 1] = LongerToo(None, PathsUpTo(k + 1), seq[k + 1])
    BY <1>6, <1>9
  <2>3. g[k + 1] = LongerToo(None, PathsUpTo(k + 1), k + 1)
    BY <2>2 DEF LongerToo
  <2>4. g[k + 1] = PathsUpTo((k + 1) + 1)
    BY <2>1, <2>3, PathsGrow
  <2> QED BY <2>1, <2>4
<1> HIDE DEF S
<1>10. 0..N \subseteq S
  BY <1>5, <1>8, <1>9, Sums!BoundedInduction
<1>11. g[N] = PathsUpTo(N + 1) /\ N + 1 = Cardinality(Places)
  <2>1. N \in 0..N
    BY <1>5
  <2>2. N + 1 = Cardinality(Places)
    BY <1>3 DEF N
  <2> QED BY <1>10, <2>1, <2>2 DEF S
<1> QED BY <1>3, <1>4, <1>6, <1>11

\* A simple walk is no longer than there are hexes, so it is a legal path.
LEMMA SimpleWalksAreLegal ==
    ASSUME board \in Boards, NEW n, NEW w, IsWalk(w, n), \A i, j \in 1..n : w[i] = w[j] => i = j
    PROVE  w \in LegalPaths /\ Len(w) = n
<1>1. n \in Nat /\ n >= 1 /\ w \in [1..n -> Places]
  BY DEF IsWalk
<1>2. w \in Seq(Places) /\ Len(w) = n
  BY <1>1
<1>3. n <= Cardinality(Places)
  <2>1. w \in Injection(1..n, Places)
    BY <1>1 DEF Injection, IsInjective
  <2>2. IsFiniteSet(1..n) /\ Cardinality(1..n) = n
    BY <1>1, FS_Interval
  <2> QED BY <2>1, <2>2, FS_Injection, PlacesAssumption
<1>4. n \in 1..Cardinality(Places)
  BY <1>1, <1>3, LegalPathsAre
<1> QED BY <1>2, <1>4, LegalPathsAre DEF PathsUpTo

\* What a path costs is the least that pays for it.
LEMMA PathCostPays ==
    ASSUME board \in Boards, NEW n, NEW p \in Seq(Places), IsWalk(p, n), Len(p) = n
    PROVE  \E f : /\ Pays(p, n, f) /\ PathCost(p) = f[n]
                  /\ \A g : Pays(p, n, g) => f[n] <= g[n]
<1> DEFINE N == n - 1
           seq == [k \in 1..N |-> k]
<1>1. n \in Nat /\ n >= 1 /\ p \in [1..n -> Places]
  BY DEF IsWalk
<1>2. PathCost(p) = Sums!Folded(p, 0, seq)
  BY DEF PathCost, FoldLeft, MapThenFoldSet, Sums!MapThenFoldSet,
         Sums!Folded, Max, Sums!Greatest, AddStep
<1>3. N \in Nat /\ DOMAIN seq = 1..N /\ \A k \in 1..N : seq[k] = k
  BY <1>1
<1>4. n = N + 1
  BY <1>1
<1> HIDE DEF N, seq
<1>5. PICK h : /\ h[0] = 0
               /\ \A k \in 0..(N - 1) : h[k + 1] = AddStep(p, h[k], seq[k + 1])
               /\ Sums!Folded(p, 0, seq) = h[N]
  <2> DEFINE none == 0
  <2> HIDE DEF none
  <2>1. Sums!RunsThrough(p, none, seq, N)
    BY <1>3, Sums!Unrolled
  <2>2. Sums!RunsThrough(p, 0, seq, N)
    BY <2>1 DEF none
  <2> QED BY <2>2, Zenon DEF Sums!RunsThrough
<1>6. \A k \in 0..(N - 1) : h[k + 1] = h[k] + StepCost(p, k + 1)
  <2>1. \A k \in 0..(N - 1) : k + 1 \in 1..N
    BY <1>3
  <2> QED BY <1>3, <1>5, <2>1 DEF AddStep, StepCost
<1>7. \A k \in 1..N : StepCost(p, k) \in Nat
  <2>1. \A k \in 1..N : k \in 1..n /\ k + 1 \in 1..n
    BY <1>3, <1>4
  <2> QED BY <1>1, <2>1, BoardFields DEF StepCost
<1> DEFINE S == {k \in 0..N : h[k] \in Nat /\ \A g : Pays(p, n, g) => h[k] <= g[k + 1]}
<1>8. 0 \in S
  <2>1. \A g : Pays(p, n, g) => 0 <= g[1]
    <3>1. 1 \in 1..n
      BY <1>1
    <3> QED BY <3>1 DEF Pays
  <2> QED BY <1>3, <1>5, <2>1
<1>9. ASSUME NEW k \in 0..(N - 1), k \in S PROVE k + 1 \in S
  <2>1. k + 1 \in 0..N /\ k + 1 \in 1..N /\ h[k] \in Nat /\ StepCost(p, k + 1) \in Nat
    BY <1>3, <1>7, <1>9
  <2>2. h[k + 1] = h[k] + StepCost(p, k + 1) /\ h[k + 1] \in Nat
    BY <1>6, <2>1
  <2>3. ASSUME NEW g, Pays(p, n, g) PROVE h[k + 1] <= g[(k + 1) + 1]
    <3>1. /\ k + 1 \in 1..(n - 1) /\ k + 1 \in 1..n /\ (k + 1) + 1 \in 1..n
      BY <1>3, <1>4
    <3>2. /\ g[k + 1] + StepCost(p, k + 1) <= g[(k + 1) + 1] /\ h[k] <= g[k + 1]
          /\ g[k + 1] \in Nat /\ g[(k + 1) + 1] \in Nat
      BY <1>9, <2>3, <3>1 DEF Pays
    <3> QED BY <2>1, <2>2, <3>2
  <2> QED BY <2>1, <2>2, <2>3
<1> HIDE DEF S
<1>10. 0..N \subseteq S
  BY <1>3, <1>8, <1>9, Sums!BoundedInduction
<1> DEFINE f == [k \in 1..n |-> h[k - 1]]
<1>11. Pays(p, n, f)
  <2>1. ASSUME NEW k \in 1..n PROVE f[k] \in Nat
    <3>1. k - 1 \in 0..N
      BY <1>1, <1>3, <1>4
    <3> QED BY <1>10, <3>1 DEF S
  <2>2. ASSUME NEW k \in 1..(n - 1) PROVE f[k] + StepCost(p, k) <= f[k + 1]
    <3>1. /\ k - 1 \in 0..(N - 1) /\ (k - 1) + 1 = k /\ (k + 1) - 1 = k
          /\ k \in 1..n /\ k + 1 \in 1..n /\ k \in 1..N /\ k - 1 \in 0..N
      BY <1>3, <1>4
    <3>2. f[k] = h[k - 1] /\ f[k + 1] = h[k] /\ h[k] = h[k - 1] + StepCost(p, k)
      BY <1>6, <3>1
    <3>3. h[k - 1] \in Nat /\ StepCost(p, k) \in Nat
      BY <1>7, <1>10, <3>1 DEF S
    <3> QED BY <3>2, <3>3
  <2> QED BY <2>1, <2>2 DEF Pays
<1>12. f[n] = h[N] /\ N \in 0..N /\ n \in 1..n
  BY <1>1, <1>3, <1>4
<1> HIDE DEF f
<1>13. \A g : Pays(p, n, g) => f[n] <= g[n]
  BY <1>4, <1>10, <1>12 DEF S
<1> QED BY <1>2, <1>5, <1>11, <1>12, <1>13

\* The invariant with the walks.
LEMMA FinishedIsCheapest ==
    ASSUME IInv, WalkedTo, heap = {}
    PROVE  /\ DOMAIN costs = {h \in Places : Affordable(h) # {}}
           /\ \A h \in DOMAIN costs : costs[h] = Min({PathCost(p) : p \in Affordable(h)})
<1>1. board \in Boards /\ DOMAIN costs \subseteq Places
  BY DEF IInv, TypeOK
<1>2. ASSUME NEW h \in Places, NEW p \in Affordable(h)
      PROVE  h \in DOMAIN costs /\ costs[h] <= PathCost(p) /\ PathCost(p) \in Nat
  <2> DEFINE n == Len(p)
  <2>1. p \in LegalPaths /\ Last(p) = h /\ PathCost(p) <= board.budget
    BY DEF Affordable
  <2>2. p \in Seq(Places) /\ IsWalk(p, n) /\ p[n] = h
    BY <1>1, <2>1, LegalPathsAre DEF PathsUpTo, Last
  <2>3. PICK f : Pays(p, n, f) /\ PathCost(p) = f[n]
    BY <1>1, <2>2, PathCostPays
  <2>4. f[n] \in Nat
    BY <2>2, <2>3 DEF Pays, IsWalk
  <2> HIDE DEF n
  <2>5. p[n] \in DOMAIN costs /\ costs[p[n]] <= f[n]
    BY <2>1, <2>2, <2>3, WalksAreNoCheaper
  <2> QED BY <2>2, <2>3, <2>4, <2>5
<1>3. ASSUME NEW h \in DOMAIN costs
      PROVE  \E p \in Affordable(h) : PathCost(p) = costs[h]
  <2>1. costs[h] \in Nat /\ h \in Places /\ costs[h] <= board.budget
    <3>1. costs[h] \in Nat /\ board.budget \in Nat
      BY <1>1, BoardFields DEF IInv, TypeOK
    <3>2. h # board.start => costs[h] <= board.budget
      BY DEF IInv, ReachedByAStep
    <3>3. h = board.start => costs[h] = 0
      BY DEF IInv, StartIsFree
    <3> QED BY <1>1, <3>1, <3>2, <3>3
  <2>2. PICK k \in Nat \ {0} : Leads(h, costs[h], k)
    BY DEF WalkedTo
  <2>3. PICK n, w, g : /\ IsWalk(w, n) /\ Pays(w, n, g) /\ w[n] = h /\ g[n] <= costs[h]
                       /\ \A i, j \in 1..n : w[i] = w[j] => i = j
    BY <1>1, <2>1, <2>2, SimpleWalk
  <2>4. w \in LegalPaths /\ Len(w) = n
    BY <1>1, <2>3, SimpleWalksAreLegal
  <2>5. w \in Seq(Places)
    BY <1>1, <2>4, LegalPathsAre DEF PathsUpTo
  <2>6. PICK f : /\ Pays(w, n, f) /\ PathCost(w) = f[n]
                 /\ \A e : Pays(w, n, e) => f[n] <= e[n]
    BY <1>1, <2>3, <2>4, <2>5, PathCostPays
  <2>7. f[n] \in Nat /\ g[n] \in Nat /\ f[n] <= g[n]
    <3>1. n \in 1..n
      BY <2>3 DEF IsWalk
    <3> QED BY <2>3, <2>6, <3>1 DEF Pays
  <2>8. PathCost(w) <= costs[h] /\ PathCost(w) <= board.budget /\ PathCost(w) \in Nat
    <3>1. f[n] <= costs[h] /\ f[n] <= board.budget
      BY <1>1, <2>1, <2>3, <2>7, BoardFields
    <3> QED BY <2>6, <2>7, <3>1
  <2>9. Last(w) = h
    BY <2>3, <2>4 DEF Last
  <2>10. w \in Affordable(h)
    BY <2>4, <2>8, <2>9 DEF Affordable
  <2>11. costs[h] <= PathCost(w)
    BY <1>2, <2>1, <2>10
  <2>12. PathCost(w) = costs[h]
    BY <2>1, <2>8, <2>11
  <2> QED BY <2>10, <2>12
<1>4. ASSUME NEW h \in DOMAIN costs
      PROVE  costs[h] = Min({PathCost(p) : p \in Affordable(h)})
  <2> DEFINE C == {PathCost(p) : p \in Affordable(h)}
  <2>1. h \in Places /\ costs[h] \in Nat
    BY <1>1 DEF IInv, TypeOK
  <2>2. costs[h] \in C /\ \A c \in C : c \in Nat /\ costs[h] <= c
    BY <1>2, <1>3, <2>1
  <2> HIDE DEF C
  <2>3. Min(C) \in C /\ \A c \in C : Min(C) <= c
    BY <2>2 DEF Min
  <2>4. Min(C) \in Nat /\ costs[h] <= Min(C) /\ Min(C) <= costs[h]
    BY <2>2, <2>3
  <2>5. costs[h] = Min(C)
    BY <2>1, <2>4
  <2> QED BY <2>5 DEF C
<1> QED BY <1>1, <1>2, <1>3, <1>4

\* CostsAreCheapest, for every board: whatever the order of the heap, and with steps that cost
\* nothing, a finished search reports exactly the hexes that a legal path within the budget
\* reaches, each at the cost of a cheapest one (compute_reachable_hexes).
THEOREM SearchIsCheapest == Spec => []CostsAreCheapest
<1>1. IInv /\ WalkedTo => CostsAreCheapest
  BY FinishedIsCheapest DEF CostsAreCheapest, Finished
<1>2. Spec => []WalkedTo
  <2>1. board \in Boards /\ Init => WalkedTo
    BY InitWalked
  <2> QED BY <2>1, NextWalked, SearchInvariant, PTL DEF Spec
<1> QED BY <1>1, <1>2, SearchInvariant, PTL

-----------------------------------------------------------------------------
(* Rounding of one coordinate, and of three that sum to zero. *)

Positive == Nat \ {0}

\* A multiple of d that is not zero is at least as far away as d, the next twice as far.
LEMMA Multiple ==
    ASSUME NEW d \in Positive, NEW g \in Int
    PROVE  /\ g >= 1 => d * g >= d
           /\ g <= -1 => d * g <= -d
           /\ g >= 2 => d * g >= 2 * d
           /\ g <= -2 => d * g <= -2 * d
  BY SMT DEF Positive

\* Only zero is a multiple of d and nearer to zero than d.
LEMMA NoMultiple ==
    ASSUME NEW d \in Positive, NEW g \in Int, -d < d * g, d * g < d
    PROVE  g = 0
<1> DEFINE D == d * g
<1>1. D \in Int /\ d \in Int /\ -d < D /\ D < d
  BY DEF Positive
<1>2. (g >= 1 => D >= d) /\ (g <= -1 => D <= -d)
  BY Multiple
<1> HIDE DEF D
<1> QED BY <1>1, <1>2

\* What is left of a division by d.
LEMMA Division ==
    ASSUME NEW d \in Positive, NEW c \in Int
    PROVE  /\ c \div d \in Int /\ c % d \in Int
           /\ c = d * (c \div d) + (c % d)
           /\ 0 <= (c % d) /\ (c % d) < d
  BY SMT DEF Positive

\* Rounding goes to a nearest integer.
LEMMA RoundsToNearest ==
    ASSUME NEW d \in Positive, NEW c \in Int
    PROVE  /\ RoundHalfEven(c, d) \in Int
           /\ 2 * (RoundHalfEven(c, d) * d - c) <= d
           /\ 2 * (c - RoundHalfEven(c, d) * d) <= d
<1> DEFINE f == c \div d
           m == c % d
<1>1. f \in Int /\ m \in Int /\ c = d * f + m /\ 0 <= m /\ m < d /\ d \in Nat
  BY Division DEF Positive
<1>2. RoundHalfEven(c, d) = IF 2 * m < d \/ (2 * m = d /\ f % 2 = 0) THEN f ELSE f + 1
  BY DEF RoundHalfEven
<1> HIDE DEF f, m
<1>3. CASE RoundHalfEven(c, d) = f /\ 2 * m <= d
  BY <1>1, <1>3
<1>4. CASE RoundHalfEven(c, d) = f + 1 /\ 2 * m >= d
  <2>1. (f + 1) * d - c = d - m
    BY <1>1
  <2> QED BY <1>1, <1>4, <2>1
<1> QED BY <1>1, <1>2, <1>3, <1>4

\* The integer that many units of d are closest to, if they are close enough.
LEMMA ClosestIs ==
    ASSUME NEW d \in Positive, NEW m \in Int, NEW h \in Int, NEW s \in Int, -d < s, s < d,
           2 * d * m + s - 2 * d * h <= d, 2 * d * h - 2 * d * m - s <= d
    PROVE  h = m
<1> DEFINE g == m - h
           D == d * g
<1>1. g \in Int /\ d \in Nat /\ D \in Int /\ 2 * D + s <= d /\ -2 * D - s <= d
  BY DEF Positive
<1>2. /\ g >= 1 => D >= d
      /\ g <= -1 => D <= -d
  BY <1>1, Multiple
<1> HIDE DEF D
<1>3. g = 0
  <2> HIDE DEF g
  <2> QED BY <1>1, <1>2
<1> QED BY <1>3

\* How far rounding moves coordinate k.
Moves(c, d, k) == RoundHalfEven(c[k], d) * d - c[k]

\* The coordinate that is moved furthest follows from the others.
LEMMA CubeRoundIs ==
    ASSUME NEW d \in Positive, NEW c, \A k \in 1..3 : c[k] \in Int
    PROVE  LET h == CubeRound(c, d)
           IN  /\ h \in HexSet
               /\ \E w \in 1..3 : \A k \in 1..3 :
                    /\ k # w => h[k] = RoundHalfEven(c[k], d)
                    /\ Magnitude(Moves(c, d, k)) <= Magnitude(Moves(c, d, w))
<1> DEFINE q == RoundHalfEven(c[1], d)
           r == RoundHalfEven(c[2], d)
           s == RoundHalfEven(c[3], d)
           x == Magnitude(q * d - c[1])
           y == Magnitude(r * d - c[2])
           z == Magnitude(s * d - c[3])
           h == CubeRound(c, d)
<1>0. c[1] \in Int /\ c[2] \in Int /\ c[3] \in Int
  OBVIOUS
<1>1. q \in Int /\ r \in Int /\ s \in Int /\ d \in Int
  <2>1. \A n \in Int : RoundHalfEven(n, d) \in Int
    BY RoundsToNearest
  <2>2. d \in Int
    BY DEF Positive
  <2> QED BY <1>0, <2>1, <2>2
<1>2. h = IF x > y /\ x > z THEN Hex(-r - s, r, s)
          ELSE IF y > z THEN Hex(q, -q - s, s)
          ELSE Hex(q, r, -q - r)
  BY DEF CubeRound
<1>3. /\ x = Magnitude(Moves(c, d, 1)) /\ y = Magnitude(Moves(c, d, 2))
      /\ z = Magnitude(Moves(c, d, 3))
  BY DEF Moves
<1>4. x \in Int /\ y \in Int /\ z \in Int
  <2> HIDE DEF q, r, s
  <2> QED BY <1>0, <1>1 DEF Magnitude
<1> HIDE DEF x, y, z, h
<1>5. CASE x > y /\ x > z
  <2>1. h = <<-r - s, r, s>>
    BY <1>1, <1>2, <1>5 DEF Hex
  <2>2. h \in HexSet /\ h[2] = r /\ h[3] = s
    <3> HIDE DEF r, s
    <3> QED BY <1>1, <2>1 DEF HexSet
  <2>3. \A k \in 1..3 : /\ k # 1 => h[k] = RoundHalfEven(c[k], d)
                        /\ Magnitude(Moves(c, d, k)) <= Magnitude(Moves(c, d, 1))
    <3>1. 1..3 = {1, 2, 3}
      OBVIOUS
    <3> QED BY <1>3, <1>4, <1>5, <2>2, <3>1
  <2> QED BY <2>2, <2>3 DEF h
<1>6. CASE ~(x > y /\ x > z) /\ y > z
  <2>1. h = <<q, -q - s, s>>
    BY <1>1, <1>2, <1>6 DEF Hex
  <2>2. h \in HexSet /\ h[1] = q /\ h[3] = s
    <3> HIDE DEF q, s
    <3> QED BY <1>1, <2>1 DEF HexSet
  <2>3. \A k \in 1..3 : /\ k # 2 => h[k] = RoundHalfEven(c[k], d)
                        /\ Magnitude(Moves(c, d, k)) <= Magnitude(Moves(c, d, 2))
    <3>1. 1..3 = {1, 2, 3}
      OBVIOUS
    <3> QED BY <1>3, <1>4, <1>6, <2>2, <3>1
  <2> QED BY <2>2, <2>3 DEF h
<1>7. CASE ~(x > y /\ x > z) /\ ~(y > z)
  <2>1. h = <<q, r, -q - r>>
    BY <1>1, <1>2, <1>7 DEF Hex
  <2>2. h \in HexSet /\ h[1] = q /\ h[2] = r
    <3> HIDE DEF q, r
    <3> QED BY <1>1, <2>1 DEF HexSet
  <2>3. \A k \in 1..3 : /\ k # 3 => h[k] = RoundHalfEven(c[k], d)
                        /\ Magnitude(Moves(c, d, k)) <= Magnitude(Moves(c, d, 3))
    <3>1. 1..3 = {1, 2, 3}
      OBVIOUS
    <3> QED BY <1>3, <1>4, <1>7, <2>2, <3>1
  <2> QED BY <2>2, <2>3 DEF h
<1> QED BY <1>5, <1>6, <1>7

\* The arithmetic of three coordinates, the first of which is s off the whole number e: with
\* q, r the others as rounded, moved by x and y, and the one that moved furthest recomputed.
LEMMA NearestOfThree ==
    ASSUME NEW d \in Positive, NEW e \in Int, NEW s \in Int, -d < 3 * s, 3 * s < d,
           NEW a \in Int, NEW b \in Int, d * e + s + a + b = 0,
           NEW q \in Int, NEW r \in Int, NEW x \in Int, NEW y \in Int,
           x = q * d - a, y = r * d - b,
           -d <= 2 * x, 2 * x <= d, -d <= 2 * y, 2 * y <= d
    PROVE  (Magnitude(x) <= Magnitude(s) /\ Magnitude(y) <= Magnitude(s)) \/ Magnitude(x) <= Magnitude(y)
                => /\ 2 * a + s - 2 * d * q <= d
                   /\ -d <= 2 * a + s - 2 * d * q
<1> DEFINE g == q + r + e
           D == d * g
<1>1. g \in Int /\ d \in Nat /\ D \in Int /\ D = x + y - s
  <2>1. g \in Int /\ d \in Nat /\ d * g \in Int
    BY DEF Positive
  <2>2. d * (q + r + e) = q * d + r * d + d * e
    BY <2>1 DEF Positive
  <2> QED BY <2>1, <2>2
<1>2. /\ g >= 1 => D >= d
      /\ g <= -1 => D <= -d
      /\ g >= 2 => D >= 2 * d
      /\ g <= -2 => D <= -2 * d
      /\ g = 0 => D = 0
      /\ g = 1 => D = d
      /\ g = -1 => D = -d
  BY <1>1, Multiple
<1>3. 2 * a + s - 2 * d * q = s - 2 * x
  BY <1>1 DEF Positive
<1> HIDE DEF D
<1>4. Magnitude(x) <= Magnitude(s) /\ Magnitude(y) <= Magnitude(s)
        => g = 0 /\ s - 2 * x <= d /\ -d <= s - 2 * x
  <2> HIDE DEF g
  <2> QED BY <1>1, <1>2 DEF Magnitude
<1>5. Magnitude(x) <= Magnitude(y) => s - 2 * x <= d /\ -d <= s - 2 * x
  <2> HIDE DEF g
  <2>1. g \in {-1, 0, 1}
    BY <1>1, <1>2
  <2> QED BY <1>1, <1>2, <2>1 DEF Magnitude
<1> QED BY <1>3, <1>4, <1>5

\* Of a point with coordinate i close to the whole number e, CubeRound keeps e, and puts
\* every other coordinate where twice it and what i is off are closest to.
Near(h, c, d, i, e, s) ==
    /\ h \in HexSet /\ h[i] = e
    /\ \A j \in (1..3) \ {i} : /\ 2 * c[j] + s - 2 * d * h[j] <= d
                              /\ 2 * d * h[j] - 2 * c[j] - s <= d

\* A point one of whose coordinates is close to a whole number: that one is rounded to it, and
\* the others to the nearest hex, allowing for how far the first was off.
LEMMA NearestHex ==
    ASSUME NEW d \in Positive, NEW e \in Int, NEW s \in Int, -d < 3 * s, 3 * s < d,
           NEW c, \A k \in 1..3 : c[k] \in Int, c[1] + c[2] + c[3] = 0,
           NEW i \in 1..3, c[i] = d * e + s
    PROVE  Near(CubeRound(c, d), c, d, i, e, s)
<1> DEFINE h == CubeRound(c, d)
           R(k) == RoundHalfEven(c[k], d)
           M(k) == Moves(c, d, k)
<1>1. PICK w \in 1..3 : \A k \in 1..3 : /\ k # w => h[k] = R(k)
                                        /\ Magnitude(M(k)) <= Magnitude(M(w))
  BY CubeRoundIs
<1>2. h \in HexSet
  BY CubeRoundIs
<1>3. /\ h[1] \in Int /\ h[2] \in Int /\ h[3] \in Int /\ h[1] + h[2] + h[3] = 0
      /\ d \in Int
  BY <1>2 DEF HexSet, Positive
<1>4. \A k \in 1..3 : /\ R(k) \in Int /\ M(k) \in Int /\ M(k) = R(k) * d - c[k]
                      /\ -d <= 2 * M(k) /\ 2 * M(k) <= d
  <2> SUFFICES ASSUME NEW k \in 1..3
               PROVE  /\ R(k) \in Int /\ M(k) \in Int /\ M(k) = R(k) * d - c[k]
                      /\ -d <= 2 * M(k) /\ 2 * M(k) <= d
    OBVIOUS
  <2> DEFINE n == c[k]
             m == RoundHalfEven(n, d)
  <2>1. n \in Int
    OBVIOUS
  <2> HIDE DEF n
  <2>2. m \in Int /\ 2 * (m * d - n) <= d /\ 2 * (n - m * d) <= d
    BY <2>1, RoundsToNearest
  <2> HIDE DEF m
  <2>3. m * d - n \in Int /\ -d <= 2 * (m * d - n)
    BY <1>3, <2>1, <2>2
  <2> QED BY <2>2, <2>3 DEF Moves, m, n
<1>5. R(i) = e /\ M(i) = -s
  <2> DEFINE n == c[i]
             m == R(i)
  <2>1. m \in Int /\ M(i) = m * d - n /\ -d <= 2 * (m * d - n) /\ 2 * (m * d - n) <= d
    BY <1>4
  <2>2. n = d * e + s
    OBVIOUS
  <2> HIDE DEF m, n
  <2>3. m = e
    <3> DEFINE g == m - e
               D == d * g
    <3>1. g \in Int /\ D \in Int /\ m * d - n = D - s
      BY <1>3, <2>1, <2>2
    <3>2. (g >= 1 => D >= d) /\ (g <= -1 => D <= -d)
      BY <3>1, Multiple
    <3>3. d \in Nat /\ d > 0
      BY DEF Positive
    <3> HIDE DEF D
    <3>4. g = 0
      <4> HIDE DEF g
      <4> QED BY <2>1, <3>1, <3>2, <3>3
    <3> QED BY <2>1, <3>4
  <2>4. m * d - n = -s
    BY <1>3, <2>1, <2>2, <2>3
  <2> QED BY <2>1, <2>3, <2>4 DEF m
<1> HIDE DEF h, R, M
<1>6. ASSUME NEW j \in 1..3, NEW k \in 1..3, j # i, k # i, j # k
      PROVE  /\ h[i] = e
             /\ 2 * c[j] + s - 2 * d * h[j] <= d
             /\ 2 * d * h[j] - 2 * c[j] - s <= d
  <2>1. /\ c[i] + c[j] + c[k] = 0 /\ h[i] + h[j] + h[k] = 0
        /\ c[i] \in Int /\ c[j] \in Int /\ c[k] \in Int
        /\ h[i] \in Int /\ h[j] \in Int /\ h[k] \in Int
    <3>1. 1..3 = {1, 2, 3} /\ c[1] \in Int /\ c[2] \in Int /\ c[3] \in Int
      OBVIOUS
    <3> QED BY <1>3, <1>6, <3>1
  <2> DEFINE a == c[j]
             b == c[k]
             q == R(j)
             r == R(k)
             x == M(j)
             y == M(k)
             u == h[i]
             v == h[j]
             t == h[k]
  <2>2. /\ a \in Int /\ b \in Int /\ d * e + s + a + b = 0
        /\ u \in Int /\ v \in Int /\ t \in Int /\ u + v + t = 0
    BY <2>1
  <2>3. /\ q \in Int /\ r \in Int /\ x \in Int /\ y \in Int
        /\ x = q * d - a /\ y = r * d - b
        /\ -d <= 2 * x /\ 2 * x <= d /\ -d <= 2 * y /\ 2 * y <= d
    BY <1>4
  <2>4. Magnitude(M(i)) = Magnitude(s)
    BY <1>5 DEF Magnitude
  <2>5. w \in {i, j, k}
    BY <1>6
  <2>6. CASE w = i
    <3>1. Magnitude(x) <= Magnitude(s) /\ Magnitude(y) <= Magnitude(s) /\ v = q /\ t = r
      BY <1>1, <1>6, <2>4, <2>6
    <3> HIDE DEF a, b, q, r, x, y, u, v, t
    <3>2. /\ 2 * a + s - 2 * d * q <= d /\ -d <= 2 * a + s - 2 * d * q /\ q + r + e = 0
      <4>1. 2 * a + s - 2 * d * q <= d /\ -d <= 2 * a + s - 2 * d * q
        BY <2>2, <2>3, <3>1, NearestOfThree
      <4>2. q + r + e = 0
        <5> DEFINE g == q + r + e
        <5>1. g \in Int /\ d * g = x + y - s
          BY <1>3, <2>2, <2>3
        <5>2. -d < x + y - s /\ x + y - s < d
          BY <1>3, <2>3, <3>1 DEF Magnitude
        <5> HIDE DEF g
        <5>3. g = 0
          BY <5>1, <5>2, NoMultiple
        <5> QED BY <5>3 DEF g
      <4> QED BY <4>1, <4>2
    <3>3. u = e
      BY <2>2, <2>3, <3>1, <3>2
    <3>4. 2 * a + s - 2 * d * v <= d /\ 2 * d * v - 2 * a - s <= d
      BY <1>3, <2>2, <2>3, <3>1, <3>2
    <3> QED BY <3>3, <3>4 DEF u, v, a
  <2>7. CASE w = k
    <3>1. Magnitude(x) <= Magnitude(y) /\ v = q /\ u = e
      BY <1>1, <1>5, <1>6, <2>7
    <3> HIDE DEF a, b, q, r, x, y, u, v, t
    <3>2. /\ 2 * a + s - 2 * d * q <= d /\ -d <= 2 * a + s - 2 * d * q
      BY <2>2, <2>3, <3>1, NearestOfThree
    <3>4. 2 * a + s - 2 * d * v <= d /\ 2 * d * v - 2 * a - s <= d
      BY <1>3, <2>2, <2>3, <3>1, <3>2
    <3> QED BY <3>1, <3>4 DEF u, v, a
  <2>8. CASE w = j
    <3>1. Magnitude(y) <= Magnitude(x) /\ t = r /\ u = e
      BY <1>1, <1>5, <1>6, <2>8
    <3> HIDE DEF a, b, q, r, x, y, u, v, t
    <3>2. /\ 2 * b + s - 2 * d * r <= d /\ -d <= 2 * b + s - 2 * d * r
      <4>1. d * e + s + b + a = 0
        BY <1>3, <2>2
      <4> QED BY <2>2, <2>3, <3>1, <4>1, NearestOfThree
    <3>3. v = -e - r /\ a = -(d * e) - s - b
      BY <1>3, <2>2, <2>3, <3>1
    <3>4. 2 * a + s - 2 * d * v = -(2 * b + s - 2 * d * r)
      <4>1. d * v = -(d * e) - d * r
        BY <1>3, <2>2, <2>3, <3>3
      <4> QED BY <1>3, <2>2, <2>3, <3>3, <4>1
    <3>5. 2 * a + s - 2 * d * v <= d /\ 2 * d * v - 2 * a - s <= d
      BY <1>3, <2>2, <2>3, <3>2, <3>4
    <3> QED BY <3>1, <3>5 DEF u, v, a
  <2> QED BY <2>5, <2>6, <2>7, <2>8
<1>7. \A j \in (1..3) \ {i} : \E k \in 1..3 : k # i /\ k # j
  <2>1. 1..3 = {1, 2, 3}
    OBVIOUS
  <2> QED BY <2>1
<1>8. \E j \in 1..3 : j # i
  <2>1. 1..3 = {1, 2, 3}
    OBVIOUS
  <2> QED BY <2>1
<1> QED BY <1>2, <1>6, <1>7, <1>8 DEF h, Near

-----------------------------------------------------------------------------
(* Distances, and points on the way from one hex to another. *)

\* The greatest of three numbers.
LEMMA MaxOfThree ==
    ASSUME NEW x \in Int, NEW y \in Int, NEW z \in Int
    PROVE  /\ Max({x, y, z}) \in {x, y, z}
           /\ Max({x, y, z}) >= x /\ Max({x, y, z}) >= y /\ Max({x, y, z}) >= z
  BY SMT DEF Max

\* What line divides by.
LEMMA MaxWithOne ==
    ASSUME NEW n \in Nat
    PROVE  Max({n, 1}) = IF n = 0 THEN 1 ELSE n
  BY SMT DEF Max

\* The distance bounds the difference of every coordinate and is that of one of them.
LEMMA DistanceIs ==
    ASSUME NEW a \in HexSet, NEW b \in HexSet
    PROVE  /\ Distance(a, b) \in Nat
           /\ \A i \in 1..3 : b[i] - a[i] <= Distance(a, b) /\ a[i] - b[i] <= Distance(a, b)
           /\ \E i \in 1..3 : b[i] - a[i] = Distance(a, b) \/ a[i] - b[i] = Distance(a, b)
<1> DEFINE x == b[1] - a[1]
           y == b[2] - a[2]
           z == b[3] - a[3]
<1>1. /\ x \in Int /\ y \in Int /\ z \in Int /\ x + y + z = 0
      /\ \A i \in 1..3 : a[i] \in Int /\ b[i] \in Int
  BY DEF HexSet
<1>2. Minus(b, a) = <<x, y, z>>
  BY <1>1 DEF Minus, Hex
<1> HIDE DEF x, y, z
<1>3. Distance(a, b) = Max({Magnitude(x), Magnitude(y), Magnitude(z)})
  BY <1>2 DEF Distance, Length
<1>4. /\ Magnitude(x) \in Nat /\ Magnitude(y) \in Nat /\ Magnitude(z) \in Nat
      /\ Magnitude(x) \in {x, -x} /\ Magnitude(x) >= x /\ Magnitude(x) >= -x
      /\ Magnitude(y) \in {y, -y} /\ Magnitude(y) >= y /\ Magnitude(y) >= -y
      /\ Magnitude(z) \in {z, -z} /\ Magnitude(z) >= z /\ Magnitude(z) >= -z
  BY <1>1 DEF Magnitude
<1> DEFINE n == Max({Magnitude(x), Magnitude(y), Magnitude(z)})
<1>5. /\ n \in {Magnitude(x), Magnitude(y), Magnitude(z)}
      /\ n >= Magnitude(x) /\ n >= Magnitude(y) /\ n >= Magnitude(z)
  <2> DEFINE i == Magnitude(x)
             j == Magnitude(y)
             k == Magnitude(z)
  <2>1. i \in Int /\ j \in Int /\ k \in Int
    BY <1>4
  <2> HIDE DEF i, j, k
  <2>2. /\ Max({i, j, k}) \in {i, j, k}
        /\ Max({i, j, k}) >= i /\ Max({i, j, k}) >= j /\ Max({i, j, k}) >= k
    BY <2>1, MaxOfThree
  <2> QED BY <2>2 DEF i, j, k
<1> HIDE DEF n
<1>6. /\ n \in Nat /\ x <= n /\ y <= n /\ z <= n /\ -x <= n /\ -y <= n /\ -z <= n
      /\ x = n \/ -x = n \/ y = n \/ -y = n \/ z = n \/ -z = n
  BY <1>1, <1>4, <1>5
<1>7. /\ \A i \in 1..3 : b[i] - a[i] <= n /\ a[i] - b[i] <= n
      /\ \E i \in 1..3 : b[i] - a[i] = n \/ a[i] - b[i] = n
  <2>1. 1..3 = {1, 2, 3}
    OBVIOUS
  <2> QED BY <1>1, <1>6, <2>1 DEF x, y, z
<1> QED BY <1>3, <1>6, <1>7 DEF n

\* One coordinate one up or down, another the other way or not at all: a neighbour.
LEMMA UnitDistance ==
    ASSUME NEW p \in HexSet, NEW q \in HexSet,
           \E i, j \in 1..3 : /\ i # j
                              /\ \/ q[i] - p[i] = 1 /\ q[j] - p[j] \in {-1, 0}
                                 \/ q[i] - p[i] = -1 /\ q[j] - p[j] \in {0, 1}
    PROVE  Distance(p, q) = 1
<1>1. /\ \A i \in 1..3 : p[i] \in Int /\ q[i] \in Int
      /\ p[1] + p[2] + p[3] = 0 /\ q[1] + q[2] + q[3] = 0
      /\ 1..3 = {1, 2, 3}
  BY DEF HexSet
<1>2. \A i \in 1..3 : q[i] - p[i] \in {-1, 0, 1}
  BY <1>1
<1>3. \E i \in 1..3 : q[i] - p[i] \in {-1, 1}
  BY <1>1
<1> QED BY <1>1, <1>2, <1>3, DistanceIs

\* Points on the way from a to b, over the denominator n * m, all moved to the side by o.
Spot(a, b, n, m, o, t) == [c \in 1..3 |-> (a[c] * n + (b[c] - a[c]) * t) * m + o[c]]

\* Moved by less than a quarter of a hex.
Aside(o, d) == /\ \A k \in 1..3 : o[k] \in Int /\ -d < 4 * o[k] /\ 4 * o[k] < d
               /\ o[1] + o[2] + o[3] = 0

\* A coordinate that goes all the way advances by a whole number from spot to spot.
LEMMA SpotIs ==
    ASSUME NEW x \in Int, NEW y \in Int, NEW n \in Int, NEW m \in Int, NEW p \in Int, NEW t \in Int
    PROVE  LET c == (x * n + (y - x) * t) * m + p
               d == n * m
           IN  /\ c \in Int
               /\ y = x => c = d * x + p
               /\ y = x + n => c = d * (x + t) + p
               /\ y = x - n => c = d * (x - t) + p
               /\ t = 0 => c = d * x + p
               /\ t = n => c = d * y + p
<1>1. (x * n + (y - x) * t) * m + p \in Int
  OBVIOUS
<1>2. y = x => (x * n + (y - x) * t) * m + p = (n * m) * x + p
  OBVIOUS
<1>3. y = x + n => (x * n + (y - x) * t) * m + p = (n * m) * (x + t) + p
  <2>1. (x * n + n * t) * m + p = (n * m) * (x + t) + p
    OBVIOUS
  <2>2. y = x + n => y - x = n
    OBVIOUS
  <2> QED BY <2>1, <2>2
<1>4. y = x - n => (x * n + (y - x) * t) * m + p = (n * m) * (x - t) + p
  <2>1. (x * n + (-n) * t) * m + p = (n * m) * (x - t) + p
    OBVIOUS
  <2>2. y = x - n => y - x = -n
    OBVIOUS
  <2> QED BY <2>1, <2>2
<1>5. t = 0 => (x * n + (y - x) * t) * m + p = (n * m) * x + p
  OBVIOUS
<1>6. t = n => (x * n + (y - x) * t) * m + p = (n * m) * y + p
  <2>1. (x * n + (y - x) * n) * m + p = (n * m) * y + p
    OBVIOUS
  <2> QED BY <2>1
<1> QED BY <1>1, <1>2, <1>3, <1>4, <1>5, <1>6

\* Any coordinate of a hex follows from the other two.
LEMMA ThirdIs ==
    ASSUME NEW h \in HexSet
    PROVE  /\ h[1] \in Int /\ h[2] \in Int /\ h[3] \in Int
           /\ h[3] = -h[1] - h[2] /\ h = <<h[1], h[2], h[3]>>
<1>1. h[1] \in Int /\ h[2] \in Int /\ h[3] \in Int /\ h[1] + h[2] + h[3] = 0
      /\ h = <<h[1], h[2], h[3]>>
  BY DEF HexSet
<1> DEFINE x == h[1]  y == h[2]  z == h[3]
<1>2. x \in Int /\ y \in Int /\ z \in Int /\ x + y + z = 0
  BY <1>1
<1> HIDE DEF x, y, z
<1>3. z = -x - y
  BY <1>2
<1> QED BY <1>1, <1>3 DEF x, y, z

\* The coordinates of a spot sum to zero, like those of a hex.
LEMMA SpotSum ==
    ASSUME NEW a \in HexSet, NEW b \in HexSet, NEW n \in Positive, NEW m \in Positive,
           NEW o, Aside(o, n * m), NEW t \in Int
    PROVE  LET c == Spot(a, b, n, m, o, t)
           IN  /\ \A k \in 1..3 : c[k] \in Int /\ c[k] = (a[k] * n + (b[k] - a[k]) * t) * m + o[k]
               /\ c[1] + c[2] + c[3] = 0
<1> DEFINE c == Spot(a, b, n, m, o, t)
           F(x, y, p) == (x * n + (y - x) * t) * m + p
<1>1. /\ n \in Int /\ m \in Int /\ 1..3 = {1, 2, 3}
      /\ a[1] \in Int /\ a[2] \in Int /\ a[3] \in Int /\ a[1] + a[2] + a[3] = 0
      /\ b[1] \in Int /\ b[2] \in Int /\ b[3] \in Int /\ b[1] + b[2] + b[3] = 0
  BY DEF HexSet, Positive
<1>2. o[1] \in Int /\ o[2] \in Int /\ o[3] \in Int /\ o[1] + o[2] + o[3] = 0
  BY DEF Aside
<1>3. \A x, y, p \in Int : F(x, y, p) \in Int
  BY <1>1
<1>4. c[1] = F(a[1], b[1], o[1]) /\ c[2] = F(a[2], b[2], o[2]) /\ c[3] = F(a[3], b[3], o[3])
  BY DEF Spot
<1> HIDE DEF F, c
<1>6. c[1] + c[2] + c[3] = 0
  <2> DEFINE x == a[1]  y == a[2]  u == b[1]  v == b[2]  p == o[1]  q == o[2]
  <2>1. a[3] = -x - y /\ b[3] = -u - v /\ o[3] = -p - q
    <3>1. a[3] = -a[1] - a[2]
      BY ThirdIs
    <3>2. b[3] = -b[1] - b[2]
      BY ThirdIs
    <3>3. o[3] = -o[1] - o[2]
      BY ONLY <1>2
    <3> QED BY ONLY <3>1, <3>2, <3>3
  <2>2. /\ x \in Int /\ y \in Int /\ u \in Int /\ v \in Int /\ p \in Int /\ q \in Int
    BY <1>1, <1>2
  <2>3. c[1] = F(x, u, p) /\ c[2] = F(y, v, q) /\ c[3] = F(-x - y, -u - v, -p - q)
    BY <1>4, <2>1
  <2> HIDE DEF x, y, u, v, p, q
  <2>4. F(x, u, p) + F(y, v, q) + F(-x - y, -u - v, -p - q) = 0
    BY ONLY <1>1, <2>2 DEF F
  <2> QED BY <2>3, <2>4
<1>7. \A k \in 1..3 : c[k] = F(a[k], b[k], o[k]) /\ c[k] \in Int
  <2> SUFFICES ASSUME NEW k \in 1..3 PROVE c[k] = F(a[k], b[k], o[k]) /\ c[k] \in Int
    OBVIOUS
  <2>1. a[k] \in Int /\ b[k] \in Int /\ o[k] \in Int
    BY <1>1, <1>2
  <2>2. c[k] = F(a[k], b[k], o[k])
    BY DEF c, F, Spot
  <2>3. F(a[k], b[k], o[k]) \in Int
    BY <1>3, <2>1, Zenon
  <2> QED BY <2>2, <2>3
<1> QED BY <1>6, <1>7 DEF c, F

\* A point of which every coordinate is close to that of a hex.
LEMMA SpotEnd ==
    ASSUME NEW d \in Positive, NEW o, Aside(o, d), NEW h \in HexSet,
           NEW c, \A k \in 1..3 : c[k] = d * h[k] + o[k]
    PROVE  CubeRound(c, d) = h
<1> DEFINE g == CubeRound(c, d)
<1>1. /\ h[1] \in Int /\ h[2] \in Int /\ h[3] \in Int /\ h[1] + h[2] + h[3] = 0
      /\ d \in Int /\ d > 0 /\ h = <<h[1], h[2], h[3]>>
  BY DEF HexSet, Positive
<1>2. /\ o[1] \in Int /\ o[2] \in Int /\ o[3] \in Int /\ o[1] + o[2] + o[3] = 0
      /\ -d < 4 * o[1] /\ 4 * o[1] < d /\ -d < 4 * o[2] /\ 4 * o[2] < d
  BY DEF Aside
<1>3. /\ c[1] = d * h[1] + o[1] /\ c[2] = d * h[2] + o[2] /\ c[3] = d * h[3] + o[3]
  OBVIOUS
<1>4. c[1] \in Int /\ c[2] \in Int /\ c[3] \in Int /\ c[1] + c[2] + c[3] = 0
  <2>1. d * h[1] + d * h[2] + d * h[3] = 0
    <3>1. d * (h[1] + h[2] + h[3]) = d * h[1] + d * h[2] + d * h[3]
      BY <1>1
    <3> QED BY <1>1, <3>1
  <2> QED BY <1>1, <1>2, <1>3, <2>1
<1>5. \A k \in 1..3 : c[k] \in Int
  <2>1. 1..3 = {1, 2, 3}
    OBVIOUS
  <2> QED BY <1>4, <2>1
<1>6. /\ g \in HexSet /\ g[1] = h[1]
      /\ 2 * c[2] + o[1] - 2 * d * g[2] <= d
      /\ 2 * d * g[2] - 2 * c[2] - o[1] <= d
  <2> DEFINE e == h[1]  s == o[1]
  <2>1. e \in Int /\ s \in Int /\ -d < 3 * s /\ 3 * s < d /\ c[1] = d * e + s /\ 1 \in 1..3 /\ 2 \in (1..3) \ {1}
    BY <1>1, <1>2, <1>3
  <2> HIDE DEF e, s
  <2>2. /\ g \in HexSet /\ g[1] = e
        /\ \A j \in (1..3) \ {1} : /\ 2 * c[j] + s - 2 * d * g[j] <= d
                                  /\ 2 * d * g[j] - 2 * c[j] - s <= d
    BY <1>4, <1>5, <2>1, NearestHex DEF Near
  <2> HIDE DEF g
  <2> QED BY <2>1, <2>2 DEF e, s
<1> HIDE DEF g
<1>7. g[2] \in Int /\ g[3] = -g[1] - g[2] /\ g = <<g[1], g[2], g[3]>>
  BY <1>6 DEF HexSet
<1>8. g[2] = h[2]
  <2> DEFINE x == h[2]  y == g[2]  s == 2 * o[2] + o[1]
  <2>1. x \in Int /\ y \in Int /\ s \in Int /\ -d < s /\ s < d
    BY <1>1, <1>2, <1>7
  <2>2. 2 * c[2] + o[1] = 2 * d * x + s
    BY <1>1, <1>2, <1>3
  <2>3. 2 * d * x + s - 2 * d * y <= d /\ 2 * d * y - 2 * d * x - s <= d
    <3> DEFINE X == 2 * d * x  Y == 2 * d * y  C == 2 * c[2]  p == o[1]
    <3>1. X \in Int /\ Y \in Int /\ C \in Int /\ p \in Int /\ d \in Int
      BY <1>1, <1>2, <1>4, <1>7
    <3>2. C + p - Y <= d /\ Y - C - p <= d /\ C + p = X + s
      BY <1>6, <2>2
    <3> HIDE DEF X, Y, C, p
    <3>3. X + s - Y <= d /\ Y - X - s <= d
      BY <2>1, <3>1, <3>2
    <3> QED BY <3>3 DEF X, Y
  <2> HIDE DEF x, y, s
  <2>4. y = x
    BY <2>1, <2>3, ClosestIs
  <2> QED BY <2>4 DEF x, y
<1>9. g[3] = h[3]
  BY <1>1, <1>6, <1>7, <1>8
<1> QED BY <1>1, <1>6, <1>7, <1>8, <1>9 DEF g

-----------------------------------------------------------------------------
(* The hexes that these points round to. *)

\* From one integer g to another h, each the closest to a point a step from the other's.
LEMMA ClosestStep ==
    ASSUME NEW d \in Positive, NEW C \in Int, NEW w \in Int, NEW g \in Int, NEW h \in Int,
           NEW s \in Int, -d < w, w < d,
           C + s - 2 * d * g <= d, 2 * d * g - C - s <= d,
           C + 2 * w + s - 2 * d * h <= d, 2 * d * h - (C + 2 * w) - s <= d
    PROVE  /\ w < 0 => h - g \in {-1, 0}
           /\ w > 0 => h - g \in {0, 1}
<1> DEFINE k == h - g
           D == d * k
           G == d * g
           H == d * h
<1>1. /\ k \in Int /\ D \in Int /\ G \in Int /\ H \in Int /\ d \in Int /\ d > 0
      /\ D = H - G
  BY DEF Positive
<1>2. 2 * d * g = 2 * G /\ 2 * d * h = 2 * H
  BY <1>1
<1>3. /\ k >= 1 => D >= d
      /\ k <= -1 => D <= -d
      /\ k >= 2 => D >= 2 * d
      /\ k <= -2 => D <= -2 * d
  BY <1>1, Multiple
<1> HIDE DEF D, G, H
<1>4. 2 * D <= 2 * w + 2 * d /\ 2 * D >= 2 * w - 2 * d
  BY <1>1, <1>2
<1> HIDE DEF k
<1>5. w < 0 => k \in {-1, 0}
  BY <1>1, <1>3, <1>4
<1>6. w > 0 => k \in {0, 1}
  BY <1>1, <1>3, <1>4
<1> QED BY <1>5, <1>6 DEF k

\* A coordinate that goes by no more than a hex a step is rounded to one that does so too, and
\* in the same direction.
LEMMA CoordinateStep ==
    ASSUME NEW n \in Positive, NEW m \in Positive, NEW x \in Int, NEW y \in Int,
           y - x <= n, x - y <= n, NEW p \in Int, NEW s \in Int,
           -(n * m) < 4 * p, 4 * p < n * m, -(n * m) < 4 * s, 4 * s < n * m, NEW t \in Nat,
           NEW C \in Int, C = (x * n + (y - x) * t) * m + p,
           NEW D \in Int, D = (x * n + (y - x) * (t + 1)) * m + p,
           NEW g \in Int, NEW h \in Int,
           2 * C + s - 2 * (n * m) * g <= n * m, 2 * (n * m) * g - 2 * C - s <= n * m,
           2 * D + s - 2 * (n * m) * h <= n * m, 2 * (n * m) * h - 2 * D - s <= n * m
    PROVE  /\ y <= x => h - g \in {-1, 0}
           /\ y >= x => h - g \in {0, 1}
<1> DEFINE d == n * m
           w == (y - x) * m
           u == y - x
           r == 2 * p + s
<1>0. n \in Int /\ m \in Int /\ n > 0 /\ m > 0 /\ t \in Int
  BY DEF Positive
<1>1. d \in Positive
  <2>1. n * m \in Int /\ n * m >= n
    BY <1>0, Multiple
  <2> QED BY <1>0, <2>1 DEF Positive
<1>2. D = C + w /\ w \in Int
  BY <1>0
<1>3. r \in Int /\ -d < r /\ r < d
  BY <1>0, <1>1 DEF Positive
<1>4. ASSUME NEW i \in Int, NEW j \in Int, C = d * i + p, D = d * j + p
      PROVE  g = i /\ h = j
  <2> HIDE DEF d
  <2>1. 2 * d * i + r - 2 * d * g <= d /\ 2 * d * g - 2 * d * i - r <= d
    BY <1>1, <1>3, <1>4 DEF Positive, d
  <2>2. 2 * d * j + r - 2 * d * h <= d /\ 2 * d * h - 2 * d * j - r <= d
    BY <1>1, <1>3, <1>4 DEF Positive, d
  <2> HIDE DEF r
  <2>3. g = i
    BY <1>1, <1>3, <2>1, ClosestIs
  <2>4. h = j
    BY <1>1, <1>3, <2>2, ClosestIs
  <2> QED BY <2>3, <2>4
<1>5. CASE y = x
  <2>1. C = d * x + p /\ D = d * x + p
    BY <1>0, <1>5, SpotIs
  <2>2. g = x /\ h = x
    BY <1>4, <2>1
  <2> QED BY <1>5, <2>2
<1>6. CASE y = x + n
  <2>1. C = d * (x + t) + p /\ D = d * (x + (t + 1)) + p
    BY <1>0, <1>6, SpotIs
  <2>2. g = x + t /\ h = x + (t + 1)
    BY <1>0, <1>4, <2>1
  <2> QED BY <1>0, <1>6, <2>2
<1>7. CASE y = x - n
  <2>1. C = d * (x - t) + p /\ D = d * (x - (t + 1)) + p
    BY <1>0, <1>7, SpotIs
  <2>2. g = x - t /\ h = x - (t + 1)
    BY <1>0, <1>4, <2>1
  <2> QED BY <1>0, <1>7, <2>2
<1>8. CASE y # x /\ y # x + n /\ y # x - n
  <2>1. u \in Int /\ u # 0 /\ -n < u /\ u < n
    BY <1>0, <1>8
  <2>2. w = m * u /\ d = m * n
    BY <1>0
  <2>3. /\ u > 0 => w > 0 /\ w < d
        /\ u < 0 => w < 0 /\ -d < w
    <3>1. /\ u >= 1 => m * u >= m
          /\ u <= -1 => m * u <= -m
      BY <2>1, Multiple
    <3>2. /\ n - u >= 1 => m * (n - u) >= m
          /\ n + u >= 1 => m * (n + u) >= m
      BY <1>0, <2>1, Multiple
    <3>3. m * (n - u) = m * n - m * u /\ m * (n + u) = m * n + m * u
      BY <1>0, <2>1
    <3> DEFINE M == m * u
    <3>4. M \in Int /\ m * n \in Int
      BY <1>0, <2>1
    <3> HIDE DEF M, u
    <3> QED BY <1>0, <2>1, <2>2, <3>1, <3>2, <3>3, <3>4 DEF M
  <2>4. -d < w /\ w < d
    BY <1>1, <1>2, <2>1, <2>3 DEF Positive
  <2> HIDE DEF d, w
  <2> DEFINE B == 2 * C
  <2>5. /\ B \in Int
        /\ B + s - 2 * d * g <= d /\ 2 * d * g - B - s <= d
        /\ B + 2 * w + s - 2 * d * h <= d /\ 2 * d * h - (B + 2 * w) - s <= d
    <3>1. 2 * D = B + 2 * w
      BY <1>2
    <3> HIDE DEF B
    <3> QED BY <1>1, <1>2, <3>1 DEF d, B
  <2> HIDE DEF B
  <2>6. /\ w < 0 => h - g \in {-1, 0}
        /\ w > 0 => h - g \in {0, 1}
    BY <1>1, <1>2, <2>4, <2>5, ClosestStep
  <2>7. /\ y <= x => u < 0
        /\ y >= x => u > 0
    BY <1>0, <1>8
  <2> QED BY <2>3, <2>6, <2>7
<1> QED BY <1>5, <1>6, <1>7, <1>8

SpotHex(a, b, n, m, o, t) == CubeRound(Spot(a, b, n, m, o, t), n * m)

\* Two spots in succession are neighbours: the coordinate that has furthest to go is rounded to
\* the next whole number each time, and the others go the other way.
LEMMA SpotStep ==
    ASSUME NEW a \in HexSet, NEW b \in HexSet, NEW n \in Positive, n = Distance(a, b),
           NEW m \in Positive, NEW o, Aside(o, n * m), NEW t \in Nat
    PROVE  LET p == SpotHex(a, b, n, m, o, t)
               q == SpotHex(a, b, n, m, o, t + 1)
           IN  p \in HexSet /\ q \in HexSet /\ Distance(p, q) = 1
<1> DEFINE next == t + 1
           d == n * m
           c == Spot(a, b, n, m, o, t)
           f == Spot(a, b, n, m, o, next)
           p == SpotHex(a, b, n, m, o, t)
           q == SpotHex(a, b, n, m, o, next)
<1>0. /\ n \in Int /\ n > 0 /\ m \in Int /\ m > 0 /\ t \in Int /\ next \in Int /\ next = t + 1
      /\ 1..3 = {1, 2, 3}
  BY DEF Positive
<1>1. d \in Positive
  <2>1. n * m \in Int /\ n * m >= n
    BY <1>0, Multiple
  <2> QED BY <1>0, <2>1 DEF Positive
<1>2. /\ a[1] \in Int /\ a[2] \in Int /\ a[3] \in Int /\ a[3] = -a[1] - a[2]
      /\ b[1] \in Int /\ b[2] \in Int /\ b[3] \in Int /\ b[3] = -b[1] - b[2]
  BY ThirdIs
<1>3. \A k \in 1..3 : /\ b[k] - a[k] <= n /\ a[k] - b[k] <= n
                      /\ o[k] \in Int /\ -d < 4 * o[k] /\ 4 * o[k] < d
  BY DistanceIs DEF Aside
<1>4. \A k \in 1..3 : c[k] \in Int /\ c[k] = (a[k] * n + (b[k] - a[k]) * t) * m + o[k]
  BY <1>0, SpotSum
<1>5. \A k \in 1..3 : f[k] \in Int /\ f[k] = (a[k] * n + (b[k] - a[k]) * next) * m + o[k]
  BY <1>0, SpotSum
<1>6. c[1] + c[2] + c[3] = 0 /\ f[1] + f[2] + f[3] = 0
  <2>1. ASSUME NEW x \in Int
        PROVE  Spot(a, b, n, m, o, x)[1] + Spot(a, b, n, m, o, x)[2] + Spot(a, b, n, m, o, x)[3] = 0
    BY ONLY n \in Positive, m \in Positive, a \in HexSet, b \in HexSet, Aside(o, n * m), SpotSum
  <2>2. c[1] + c[2] + c[3] = 0
    BY ONLY <1>0, <2>1 DEF c
  <2>3. f[1] + f[2] + f[3] = 0
    BY ONLY <1>0, <2>1 DEF f
  <2> QED BY ONLY <2>2, <2>3
<1>16. (\A k \in 1..3 : c[k] \in Int) /\ (\A k \in 1..3 : f[k] \in Int)
  BY <1>4, <1>5
<1>17. /\ \A k \in 1..3 : \E j \in (1..3) \ {k} : TRUE
       /\ \A k, l \in 1..3 : \E j \in (1..3) \ {k, l} : TRUE
  <2>1. 1..3 = {1, 2, 3}
    OBVIOUS
  <2> QED BY ONLY <2>1
<1>7. p = CubeRound(c, d) /\ q = CubeRound(f, d)
  BY DEF SpotHex
<1> HIDE DEF c, f, p, q, d, next
<1> DEFINE Goes(i, e, g) == /\ c[i] = d * e + o[i] /\ f[i] = d * g + o[i]
                            /\ \/ g = e + 1 /\ b[i] = a[i] + n
                               \/ g = e - 1 /\ b[i] = a[i] - n
<1>8. ASSUME NEW i \in 1..3, NEW e \in Int, NEW g \in Int,
             Goes(i, e, g)
      PROVE  p \in HexSet /\ q \in HexSet /\ Distance(p, q) = 1
  <2> DEFINE s == o[i]
  <2>1. s \in Int /\ -d < 4 * s /\ 4 * s < d /\ d \in Int /\ d > 0
    BY <1>1, <1>3 DEF Positive
  <2>2. c[i] = d * e + s /\ f[i] = d * g + s
    BY <1>8
  <2> HIDE DEF s
  <2>3. -d < 3 * s /\ 3 * s < d
    BY <2>1
  <2>4. /\ p \in HexSet /\ p[i] = e
        /\ \A j \in (1..3) \ {i} : /\ 2 * c[j] + s - 2 * d * p[j] <= d
                                  /\ 2 * d * p[j] - 2 * c[j] - s <= d
    <3>1. Near(p, c, d, i, e, s)
      BY <1>1, <1>16, <1>6, <1>7, <2>1, <2>2, <2>3, NearestHex
    <3> QED BY <3>1 DEF Near
  <2>5. /\ q \in HexSet /\ q[i] = g
        /\ \A j \in (1..3) \ {i} : /\ 2 * f[j] + s - 2 * d * q[j] <= d
                                  /\ 2 * d * q[j] - 2 * f[j] - s <= d
    <3>1. Near(q, f, d, i, g, s)
      BY <1>1, <1>16, <1>6, <1>7, <2>1, <2>2, <2>3, NearestHex
    <3> QED BY <3>1 DEF Near
  <2>6. PICK j \in (1..3) \ {i} : TRUE
    BY <1>17
  <2> DEFINE x == a[j]  y == b[j]  r == o[j]  C == c[j]  D == f[j]  u == p[j]  v == q[j]
  <2>7. /\ x \in Int /\ y \in Int /\ y - x <= n /\ x - y <= n
        /\ r \in Int /\ -d < 4 * r /\ 4 * r < d
        /\ C \in Int /\ C = (x * n + (y - x) * t) * m + r
        /\ D \in Int /\ D = (x * n + (y - x) * (t + 1)) * m + r
        /\ u \in Int /\ v \in Int
        /\ 2 * C + s - 2 * d * u <= d /\ 2 * d * u - 2 * C - s <= d
        /\ 2 * D + s - 2 * d * v <= d /\ 2 * d * v - 2 * D - s <= d
    <3>1. x \in Int /\ y \in Int
      BY <1>0, <1>2
    <3>2. u \in Int /\ v \in Int
      BY <1>0, <2>4, <2>5, ThirdIs
    <3> QED BY <1>0, <1>3, <1>4, <1>5, <2>4, <2>5, <3>1, <3>2
  <2>8. /\ b[i] = a[i] + n => y <= x
        /\ b[i] = a[i] - n => y >= x
    <3>1. a[i] + a[j] \in Int /\ \A k \in (1..3) \ {i, j} : a[i] + a[j] = -a[k] /\ b[i] + b[j] = -b[k]
      BY <1>0, <1>2
    <3>2. PICK k \in (1..3) \ {i, j} : TRUE
      BY <1>17
    <3>3. /\ a[i] \in Int /\ a[j] \in Int /\ a[k] \in Int /\ b[i] \in Int /\ b[j] \in Int /\ b[k] \in Int
          /\ a[i] + a[j] = -a[k] /\ b[i] + b[j] = -b[k] /\ b[k] - a[k] <= n /\ a[k] - b[k] <= n
      BY <1>0, <1>2, <1>3, <3>1
    <3> QED BY <1>0, <3>3
  <2> HIDE DEF x, y, r, C, D, u, v
  <2>9. /\ y <= x => v - u \in {-1, 0}
        /\ y >= x => v - u \in {0, 1}
    BY ONLY <2>1, <2>7, CoordinateStep DEF d
  <2>10. \/ q[i] - p[i] = 1 /\ q[j] - p[j] \in {-1, 0}
         \/ q[i] - p[i] = -1 /\ q[j] - p[j] \in {0, 1}
    BY <1>8, <2>4, <2>5, <2>8, <2>9 DEF u, v
  <2>11. Distance(p, q) = 1
    BY <2>4, <2>5, <2>10, UnitDistance
  <2> QED BY <2>4, <2>5, <2>11
<1> HIDE DEF Goes
<1>9. PICK i \in 1..3 : b[i] - a[i] = n \/ a[i] - b[i] = n
  BY DistanceIs
<1> DEFINE x == a[i]  y == b[i]  r == o[i]
<1>10. x \in Int /\ y \in Int /\ r \in Int
  BY <1>0, <1>2, <1>3
<1>11. /\ c[i] = (x * n + (y - x) * t) * m + r
       /\ f[i] = (x * n + (y - x) * next) * m + r
  BY <1>4, <1>5
<1>12. ASSUME y = x + n PROVE p \in HexSet /\ q \in HexSet /\ Distance(p, q) = 1
  <2> HIDE DEF x, y, r
  <2>1. c[i] = d * (x + t) + r /\ f[i] = d * (x + next) + r
    BY <1>0, <1>10, <1>11, <1>12, SpotIs DEF d
  <2>2. x + t \in Int /\ x + next \in Int /\ x + next = (x + t) + 1
    BY <1>0, <1>10
  <2>3. b[i] = a[i] + n
    BY <1>12 DEF x, y
  <2>4. c[i] = d * (x + t) + o[i] /\ f[i] = d * (x + next) + o[i]
    BY ONLY <2>1 DEF r
  <2> HIDE DEF x
  <2> DEFINE e == x + t  g == x + next
  <2>5. e \in Int /\ g \in Int /\ g = e + 1 /\ c[i] = d * e + o[i] /\ f[i] = d * g + o[i]
    BY ONLY <2>2, <2>4
  <2> HIDE DEF e, g
  <2>6. Goes(i, e, g)
    BY ONLY <2>3, <2>5 DEF Goes
  <2> QED BY <1>8, <2>5, <2>6
<1>13. ASSUME y = x - n PROVE p \in HexSet /\ q \in HexSet /\ Distance(p, q) = 1
  <2> HIDE DEF x, y, r
  <2>1. c[i] = d * (x - t) + r /\ f[i] = d * (x - next) + r
    BY <1>0, <1>10, <1>11, <1>13, SpotIs DEF d
  <2>2. x - t \in Int /\ x - next \in Int /\ x - next = (x - t) - 1
    BY <1>0, <1>10
  <2>3. b[i] = a[i] - n
    BY <1>13 DEF x, y
  <2>4. c[i] = d * (x - t) + o[i] /\ f[i] = d * (x - next) + o[i]
    BY ONLY <2>1 DEF r
  <2> HIDE DEF x
  <2> DEFINE e == x - t  g == x - next
  <2>5. e \in Int /\ g \in Int /\ g = e - 1 /\ c[i] = d * e + o[i] /\ f[i] = d * g + o[i]
    BY ONLY <2>2, <2>4
  <2> HIDE DEF e, g
  <2>6. Goes(i, e, g)
    BY ONLY <2>3, <2>5 DEF Goes
  <2> QED BY <1>8, <2>5, <2>6
<1>14. y = x + n \/ y = x - n
  BY <1>0, <1>9, <1>10
<1>15. p \in HexSet /\ q \in HexSet /\ Distance(p, q) = 1
  BY <1>12, <1>13, <1>14
<1> QED BY <1>15 DEF p, q, next

\* The first is a and the last is b.
LEMMA SpotEnds ==
    ASSUME NEW a \in HexSet, NEW b \in HexSet, NEW n \in Positive, NEW m \in Positive,
           NEW o, Aside(o, n * m)
    PROVE  SpotHex(a, b, n, m, o, 0) = a /\ SpotHex(a, b, n, m, o, n) = b
<1> DEFINE d == n * m
<1>0. /\ n \in Int /\ n > 0 /\ m \in Int /\ m > 0 /\ 1..3 = {1, 2, 3}
      /\ \A k \in 1..3 : a[k] \in Int /\ b[k] \in Int /\ o[k] \in Int
  BY ThirdIs DEF Positive, Aside
<1>1. d \in Positive
  <2>1. n * m \in Int /\ n * m >= n
    BY <1>0, Multiple
  <2> QED BY <1>0, <2>1 DEF Positive
<1>2. \A k \in 1..3 : Spot(a, b, n, m, o, 0)[k] = d * a[k] + o[k]
  <2> SUFFICES ASSUME NEW k \in 1..3 PROVE Spot(a, b, n, m, o, 0)[k] = d * a[k] + o[k]
    OBVIOUS
  <2>1. Spot(a, b, n, m, o, 0)[k] = (a[k] * n + (b[k] - a[k]) * 0) * m + o[k]
    BY DEF Spot
  <2> QED BY <1>0, <2>1, SpotIs
<1>3. \A k \in 1..3 : Spot(a, b, n, m, o, n)[k] = d * b[k] + o[k]
  <2> SUFFICES ASSUME NEW k \in 1..3 PROVE Spot(a, b, n, m, o, n)[k] = d * b[k] + o[k]
    OBVIOUS
  <2>1. Spot(a, b, n, m, o, n)[k] = (a[k] * n + (b[k] - a[k]) * n) * m + o[k]
    BY DEF Spot
  <2> QED BY <1>0, <2>1, SpotIs
<1> HIDE DEF d
<1>4. Aside(o, d)
  BY DEF d
<1> QED BY <1>1, <1>2, <1>3, <1>4, SpotEnd DEF SpotHex, d

-----------------------------------------------------------------------------
(* Sequences without repetitions in a row. *)

KeepNew(x, acc, e) == IF acc # <<>> /\ Last(acc) = e THEN acc ELSE Append(acc, e)
Keeping == INSTANCE Folding WITH op <- KeepNew

JoinLine(steps, acc, n) == acc \o Line(steps[n], steps[n + 1])
Joined == INSTANCE Folding WITH op <- JoinLine

\* The first n of a sequence.
First(s, n) == [i \in 1..n |-> s[i]]

\* The first elements of a sequence, one more at a time.
LEMMA FirstGrows ==
    ASSUME NEW S, NEW s \in Seq(S), NEW k \in 0..(Len(s) - 1)
    PROVE  /\ First(s, k) \in Seq(S) /\ Len(First(s, k)) = k
           /\ First(s, k + 1) = Append(First(s, k), s[k + 1])
           /\ First(s, 0) = <<>>
           /\ First(s, Len(s)) = s
           /\ k > 0 => First(s, k) # <<>> /\ Last(First(s, k)) = s[k]
<1>1. Len(s) \in Nat /\ s = [i \in 1..Len(s) |-> s[i]] /\ \A i \in 1..Len(s) : s[i] \in S
  OBVIOUS
<1>2. First(s, k) \in Seq(S) /\ Len(First(s, k)) = k
  BY <1>1 DEF First
<1>3. First(s, k + 1) = Append(First(s, k), s[k + 1])
  BY <1>1, <1>2 DEF First
<1>4. First(s, 0) = <<>> /\ First(s, Len(s)) = s
  BY <1>1 DEF First
<1>5. k > 0 => First(s, k) # <<>> /\ Last(First(s, k)) = s[k]
  BY <1>2 DEF First, Last
<1> QED BY <1>2, <1>3, <1>4, <1>5

\* The last of the first k elements is the k-th.
LEMMA FirstEnds ==
    ASSUME NEW S, NEW s \in Seq(S), NEW k \in 1..Len(s)
    PROVE  First(s, k) # <<>> /\ Last(First(s, k)) = s[k]
<1>1. First(s, k) \in Seq(S) /\ Len(First(s, k)) = k
  BY DEF First
<1> QED BY <1>1 DEF First, Last

\* Dedupe goes through a sequence and keeps each element that is not the one kept last.
LEMMA DedupeRuns ==
    ASSUME NEW S, NEW s \in Seq(S)
    PROVE  \E g : /\ g[0] = <<>>
                  /\ \A k \in 0..(Len(s) - 1) : g[k + 1] = KeepNew(None, g[k], s[k + 1])
                  /\ Dedupe(s) = g[Len(s)]
<1> DEFINE base == <<>>
           n == Len(s)
<1>1. Dedupe(s) = Keeping!Folded(None, base, s)
  BY DEF Dedupe, FoldLeft, MapThenFoldSet, Keeping!MapThenFoldSet, Keeping!Folded, Max, Keeping!Greatest,
         KeepNew
<1>2. n \in Nat /\ DOMAIN s = 1..n
  OBVIOUS
<1> HIDE DEF base, n
<1>3. Keeping!RunsThrough(None, base, s, n)
  BY <1>2, Keeping!Unrolled
<1>4. PICK g : /\ g[0] = base
               /\ \A k \in 0..(n - 1) : g[k + 1] = KeepNew(None, g[k], s[k + 1])
               /\ Keeping!Folded(None, base, s) = g[n]
  BY <1>3, Zenon DEF Keeping!RunsThrough
<1> QED BY <1>1, <1>4 DEF base, n

\* A sequence without repetitions in a row is left as it is.
LEMMA DedupeKeeps ==
    ASSUME NEW S, NEW s \in Seq(S), \A t \in 1..(Len(s) - 1) : s[t] # s[t + 1]
    PROVE  Dedupe(s) = s
<1>1. Len(s) \in Nat
  OBVIOUS
<1>2. PICK g : /\ g[0] = <<>>
               /\ \A k \in 0..(Len(s) - 1) : g[k + 1] = KeepNew(None, g[k], s[k + 1])
               /\ Dedupe(s) = g[Len(s)]
  BY DedupeRuns
<1> DEFINE T == {k \in 0..Len(s) : g[k] = First(s, k)}
<1>3. 0 \in T
  BY <1>1, <1>2 DEF First
<1>4. ASSUME NEW k \in 0..(Len(s) - 1), k \in T PROVE k + 1 \in T
  <2>1. g[k + 1] = KeepNew(None, First(s, k), s[k + 1])
    BY <1>2, <1>4
  <2>2. k > 0 => Last(First(s, k)) # s[k + 1]
    <3> SUFFICES ASSUME k > 0 PROVE Last(First(s, k)) # s[k + 1]
      OBVIOUS
    <3>1. k \in 1..(Len(s) - 1)
      BY <1>1
    <3>2. Last(First(s, k)) = s[k]
      BY <1>1, FirstGrows
    <3> QED BY <3>1, <3>2
  <2>3. k = 0 => First(s, k) = <<>>
    BY DEF First
  <2>4. KeepNew(None, First(s, k), s[k + 1]) = Append(First(s, k), s[k + 1])
    <3>1. CASE k = 0
      BY <2>3, <3>1 DEF KeepNew
    <3>2. CASE k > 0
      BY <2>2, <3>2 DEF KeepNew
    <3> QED BY <1>1, <3>1, <3>2
  <2>5. First(s, k + 1) = Append(First(s, k), s[k + 1])
    BY FirstGrows
  <2>6. g[k + 1] = First(s, k + 1)
    BY <2>1, <2>4, <2>5
  <2>7. k + 1 \in 0..Len(s)
    BY <1>1
  <2> QED BY <2>6, <2>7
<1> HIDE DEF T
<1>5. 0..Len(s) \subseteq T
  BY <1>1, <1>3, <1>4, Keeping!BoundedInduction
<1>6. g[Len(s)] = First(s, Len(s))
  BY <1>1, <1>5 DEF T
<1>7. First(s, Len(s)) = s
  BY <1>1 DEF First
<1> QED BY <1>2, <1>6, <1>7

-----------------------------------------------------------------------------
(* Chains of neighbours, and lines. *)

\* Only a hex itself is at distance zero.
LEMMA DistanceZero ==
    ASSUME NEW a \in HexSet, NEW b \in HexSet
    PROVE  Distance(a, b) = 0 <=> a = b
<1>1. /\ \A i \in 1..3 : a[i] \in Int /\ b[i] \in Int
      /\ a = <<a[1], a[2], a[3]>> /\ b = <<b[1], b[2], b[3]>> /\ 1..3 = {1, 2, 3}
  BY DEF HexSet
<1>2. ASSUME Distance(a, b) = 0 PROVE a = b
  <2>1. a[1] = b[1] /\ a[2] = b[2] /\ a[3] = b[3]
    BY <1>1, <1>2, DistanceIs
  <2> QED BY ONLY <1>1, <2>1
<1>3. ASSUME a = b PROVE Distance(a, b) = 0
  BY <1>1, <1>3, DistanceIs
<1> QED BY <1>2, <1>3

\* Distances are the same in both directions.
LEMMA DistanceMutual ==
    ASSUME NEW a \in HexSet, NEW b \in HexSet
    PROVE  Distance(b, a) = Distance(a, b)
<1>1. \A i \in 1..3 : a[i] \in Int /\ b[i] \in Int
  BY DEF HexSet
<1> QED BY <1>1, DistanceIs

\* A chain of neighbours from a to b.
Chain(p, a, b) == /\ p \in Seq(HexSet) /\ Len(p) \in Nat /\ Len(p) > 0
                  /\ p[1] = a /\ p[Len(p)] = b
                  /\ \A t \in 1..(Len(p) - 1) : Distance(p[t], p[t + 1]) = 1

Spots(a, b, n, m, o) == [t \in 1..(n + 1) |-> SpotHex(a, b, n, m, o, t - 1)]

\* The spots from a to b, aside or not, are a chain of neighbours.
LEMMA SpotsChain ==
    ASSUME NEW a \in HexSet, NEW b \in HexSet, NEW n \in Positive, n = Distance(a, b),
           NEW m \in Positive, NEW o, Aside(o, n * m)
    PROVE  Chain(Spots(a, b, n, m, o), a, b) /\ Len(Spots(a, b, n, m, o)) = n + 1
<1> DEFINE p == Spots(a, b, n, m, o)
           h(t) == SpotHex(a, b, n, m, o, t)
<1>0. n \in Nat /\ n > 0 /\ n + 1 \in Nat
  BY DEF Positive
<1>1. \A t \in Nat : h(t) \in HexSet /\ Distance(h(t), h(t + 1)) = 1
  BY SpotStep
<1>2. h(0) = a /\ h(n) = b
  BY SpotEnds
<1>3. p = [t \in 1..(n + 1) |-> h(t - 1)]
  BY DEF Spots
<1> HIDE DEF h, p
<1>4. p \in Seq(HexSet) /\ Len(p) = n + 1
  <2>1. \A t \in 1..(n + 1) : t - 1 \in Nat
    BY <1>0
  <2>2. p \in [1..(n + 1) -> HexSet]
    BY <1>1, <1>3, <2>1
  <2> QED BY <1>0, <2>2
<1>5. p[1] = a /\ p[n + 1] = b
  BY <1>0, <1>2, <1>3
<1>6. ASSUME NEW t \in 1..n PROVE Distance(p[t], p[t + 1]) = 1
  <2> DEFINE u == t - 1
  <2>1. u \in Nat /\ t \in 1..(n + 1) /\ t + 1 \in 1..(n + 1) /\ u + 1 = (t + 1) - 1
    BY <1>0
  <2>2. p[t] = h(u) /\ p[t + 1] = h(u + 1)
    BY <1>3, <2>1
  <2> HIDE DEF u
  <2> QED BY <1>1, <2>1, <2>2
<1> QED BY <1>0, <1>4, <1>5, <1>6 DEF Chain, p

\* No two hexes in a row of a chain are the same.
LEMMA ChainStays ==
    ASSUME NEW a, NEW b, NEW p, Chain(p, a, b)
    PROVE  Dedupe(p) = p
<1>1. p \in Seq(HexSet) /\ Len(p) \in Nat /\ \A t \in 1..(Len(p) - 1) : Distance(p[t], p[t + 1]) = 1
  BY DEF Chain
<1>2. ASSUME NEW t \in 1..(Len(p) - 1) PROVE p[t] # p[t + 1]
  <2>1. p[t] \in HexSet
    BY <1>1
  <2>2. Distance(p[t], p[t]) = 0
    BY <2>1, DistanceZero
  <2> QED BY <1>1, <2>2
<1> QED BY <1>1, <1>2, DedupeKeeps
\* The points of a line, and those of a ray.
NoOffset == [c \in 1..3 |-> 0]

\* A point that is not moved is not moved far.
LEMMA AtRest == ASSUME NEW d \in Positive PROVE Aside(NoOffset, d)
  BY SMT DEF Aside, NoOffset, Positive

\* The hexes of a line are spots that are not moved.
LEMMA LineIs ==
    ASSUME NEW a \in HexSet, NEW b \in HexSet
    PROVE  /\ a = b => Line(a, b) = <<a>>
           /\ a # b => /\ Distance(a, b) \in Positive
                       /\ Line(a, b) = Spots(a, b, Distance(a, b), 1, NoOffset)
<1> DEFINE n == Distance(a, b)
           d == IF n = 0 THEN 1 ELSE n
<1>1. n \in Nat /\ (n = 0 <=> a = b)
  BY DistanceIs, DistanceZero
<1>2. d \in Positive /\ 1 \in Positive /\ d * 1 = d
  BY <1>1 DEF Positive
<1>3. \A t \in Nat : LineHex(a, b, d, t) = SpotHex(a, b, d, 1, NoOffset, t)
  <2> SUFFICES ASSUME NEW t \in Nat PROVE LineHex(a, b, d, t) = SpotHex(a, b, d, 1, NoOffset, t)
    OBVIOUS
  <2>1. \A c \in 1..3 : /\ a[c] \in Int /\ b[c] \in Int
                        /\ (a[c] * d + (b[c] - a[c]) * t) * 1 + NoOffset[c] = a[c] * d + (b[c] - a[c]) * t
    <3> SUFFICES ASSUME NEW c \in 1..3 
                 PROVE  /\ a[c] \in Int /\ b[c] \in Int
                        /\ (a[c] * d + (b[c] - a[c]) * t) * 1 + NoOffset[c] = a[c] * d + (b[c] - a[c]) * t
      OBVIOUS
    <3> HIDE DEF d
    <3>1. a[c] \in Int /\ b[c] \in Int /\ d \in Int
      BY <1>2 DEF HexSet, Positive
    <3>2. a[c] * d + (b[c] - a[c]) * t \in Int
      BY <3>1
    <3>3. NoOffset[c] = 0
      BY DEF NoOffset
    <3> QED BY <3>1, <3>2, <3>3
  <2> HIDE DEF d
  <2> QED BY <1>2, <2>1 DEF LineHex, SpotHex, Spot
<1>4. Line(a, b) = [t \in 1..(n + 1) |-> LineHex(a, b, d, t - 1)]
  BY <1>1, MaxWithOne DEF Line
<1>5. \A t \in 1..(n + 1) : t - 1 \in Nat
  BY <1>1
<1>6. Line(a, b) = [t \in 1..(n + 1) |-> SpotHex(a, b, d, 1, NoOffset, t - 1)]
  BY <1>3, <1>4, <1>5
<1>7. ASSUME a # b PROVE d = n /\ n \in Positive /\ Line(a, b) = Spots(a, b, n, 1, NoOffset)
  BY <1>1, <1>6, <1>7 DEF Spots, Positive
<1>8. ASSUME a = b PROVE Line(a, b) = <<a>>
  <2>1. n = 0 /\ d = 1
    BY <1>1, <1>8
  <2>2. SpotHex(a, b, 1, 1, NoOffset, 0) = a
    BY <1>2, AtRest, SpotEnds
  <2> QED BY <1>6, <2>1, <2>2
<1> QED BY <1>7, <1>8

\* A line is a chain of as many steps as its ends are apart.
LEMMA LineChain ==
    ASSUME NEW a \in HexSet, NEW b \in HexSet
    PROVE  Chain(Line(a, b), a, b) /\ Len(Line(a, b)) = Distance(a, b) + 1
<1>1. CASE a = b
  <2>1. Line(a, b) = <<a>> /\ Distance(a, b) = 0
    BY <1>1, LineIs, DistanceZero
  <2>2. Len(<<a>>) = 1 /\ <<a>>[1] = a /\ <<a>> \in Seq(HexSet)
    OBVIOUS
  <2> QED BY <1>1, <2>1, <2>2 DEF Chain
<1>2. CASE a # b
  <2> DEFINE n == Distance(a, b)
  <2>1. n \in Positive /\ 1 \in Positive /\ n * 1 \in Positive
    BY <1>2, LineIs DEF Positive
  <2>2. Aside(NoOffset, n * 1)
    BY <2>1, AtRest
  <2> HIDE DEF n
  <2>3. Chain(Spots(a, b, n, 1, NoOffset), a, b) /\ Len(Spots(a, b, n, 1, NoOffset)) = n + 1
    BY <2>1, <2>2, SpotsChain DEF n
  <2> QED BY <1>2, <2>3, LineIs DEF n
<1> QED BY <1>1, <1>2

-----------------------------------------------------------------------------
(* Rays. *)

\* How far a ray is moved to its side, over the denominator of its points.
Nudge(a, b, sign) == [c \in 1..3 |-> sign * Across(a, b)[c]]

\* The direction across, from the differences of the coordinates.
LEMMA AcrossIs ==
    ASSUME NEW a \in HexSet, NEW b \in HexSet
    PROVE  LET x == [c \in 1..3 |-> b[c] - a[c]]
           IN  Across(a, b) = <<x[3] - x[2], x[1] - x[3], x[2] - x[1]>>
<1>1. \A c \in 1..3 : a[c] \in Int /\ b[c] \in Int
  BY DEF HexSet
<1>2. 1..3 = {1, 2, 3} /\ a[3] = -a[1] - a[2] /\ b[3] = -b[1] - b[2]
  BY ThirdIs
<1> QED BY <1>1, <1>2 DEF Across, Hex

\* A ray is moved by less than a quarter of a hex, however long it is.
LEMMA NudgeIs ==
    ASSUME NEW a \in HexSet, NEW b \in HexSet, a # b, NEW sign \in {1, -1}
    PROVE  /\ Distance(a, b) * OffsetScale \in Positive
           /\ Aside(Nudge(a, b, sign), Distance(a, b) * OffsetScale)
<1> DEFINE n == Distance(a, b)
           x == [c \in 1..3 |-> b[c] - a[c]]
           side == Across(a, b)
           o == Nudge(a, b, sign)
<1>1. n \in Nat /\ n # 0
  BY DistanceIs, DistanceZero
<1>2. \A c \in 1..3 : x[c] \in Int /\ x[c] <= n /\ -n <= x[c]
  <2>1. \A c \in 1..3 : a[c] \in Int /\ b[c] \in Int
    BY DEF HexSet
  <2> QED BY <2>1, DistanceIs
<1>3. side = <<x[3] - x[2], x[1] - x[3], x[2] - x[1]>>
  BY AcrossIs
<1>4. o = [c \in 1..3 |-> sign * side[c]]
  BY DEF Nudge
<1> HIDE DEF n, x, side, o
<1>5. /\ side[1] = x[3] - x[2] /\ side[2] = x[1] - x[3] /\ side[3] = x[2] - x[1]
      /\ 1..3 = {1, 2, 3}
  BY <1>3
<1>6. /\ \A c \in 1..3 : side[c] \in Int /\ side[c] <= 2 * n /\ -2 * n <= side[c]
      /\ side[1] + side[2] + side[3] = 0
  BY <1>1, <1>2, <1>5
<1>7. /\ \A c \in 1..3 : o[c] \in Int /\ o[c] <= 2 * n /\ -2 * n <= o[c]
      /\ o[1] + o[2] + o[3] = 0
  <2>1. CASE sign = 1
    BY <1>1, <1>4, <1>5, <1>6, <2>1
  <2>2. CASE sign = -1
    BY <1>1, <1>4, <1>5, <1>6, <2>2
  <2> QED BY <2>1, <2>2
<1>8. n * OffsetScale \in Int /\ 8 * n < n * OffsetScale /\ 0 < n * OffsetScale
  BY <1>1 DEF OffsetScale
<1>9. Aside(o, n * OffsetScale)
  <2> DEFINE d == n * OffsetScale
  <2>1. d \in Int /\ 8 * n < d
    BY <1>8
  <2> HIDE DEF d
  <2>2. Aside(o, d)
    BY <1>1, <1>7, <2>1 DEF Aside
  <2> QED BY <2>2 DEF d
<1> QED BY <1>8, <1>9 DEF n, o, Positive

\* The hexes of a ray are spots, all of them: the code drops none as a repetition.
LEMMA RayIs ==
    ASSUME NEW a \in HexSet, NEW b \in HexSet, NEW sign \in {1, -1}
    PROVE  /\ a = b => RayHexes(a, b, sign) = <<a>>
           /\ a # b => /\ RayHexes(a, b, sign) = Spots(a, b, Distance(a, b), OffsetScale, Nudge(a, b, sign))
                       /\ Chain(RayHexes(a, b, sign), a, b)
                       /\ Len(RayHexes(a, b, sign)) = Distance(a, b) + 1
<1> DEFINE n == Distance(a, b)
           o == Nudge(a, b, sign)
           p == Spots(a, b, n, OffsetScale, o)
           side == Across(a, b)
<1>1. n \in Nat /\ (n = 0 <=> a = b)
  BY DistanceIs, DistanceZero
<1>2. ASSUME a = b PROVE RayHexes(a, b, sign) = <<a>>
  BY <1>1, <1>2 DEF RayHexes
<1>3. ASSUME a # b
      PROVE  RayHexes(a, b, sign) = p /\ Chain(p, a, b) /\ Len(p) = n + 1
  <2>1. OffsetScale \in Positive /\ n \in Positive
    BY <1>1, <1>3 DEF OffsetScale, Positive
  <2>2. Aside(o, n * OffsetScale)
    BY <1>3, NudgeIs
  <2>3. Chain(p, a, b) /\ Len(p) = n + 1
    BY <2>1, <2>2, SpotsChain
  <2>4. RayHexes(a, b, sign) =
          Dedupe([t \in 1..(n + 1) |->
                    CubeRound([c \in 1..3 |-> (a[c] * n + (b[c] - a[c]) * (t - 1)) * OffsetScale + sign * side[c]],
                              n * OffsetScale)])
    BY <1>1, <1>3 DEF RayHexes
  <2>5. \A c \in 1..3 : o[c] = sign * side[c]
    BY DEF Nudge
  <2> HIDE DEF o, n, side
  <2>6. p = [t \in 1..(n + 1) |->
               CubeRound([c \in 1..3 |-> (a[c] * n + (b[c] - a[c]) * (t - 1)) * OffsetScale + o[c]], n * OffsetScale)]
    BY DEF Spots, SpotHex, Spot
  <2>7. p = [t \in 1..(n + 1) |->
               CubeRound([c \in 1..3 |-> (a[c] * n + (b[c] - a[c]) * (t - 1)) * OffsetScale + sign * side[c]],
                         n * OffsetScale)]
    BY <2>5, <2>6
  <2>8. RayHexes(a, b, sign) = Dedupe(p)
    BY <2>4, <2>7
  <2> HIDE DEF p
  <2> QED BY <2>3, <2>8, ChainStays
<1> QED BY <1>2, <1>3

\* A ray is a chain.
LEMMA RayChain ==
    ASSUME NEW a \in HexSet, NEW b \in HexSet, NEW ray \in Rays(a, b)
    PROVE  Chain(ray, a, b)
<1>1. PICK sign \in {1, -1} : ray = RayHexes(a, b, sign)
  BY DEF Rays
<1>2. CASE a = b
  <2>1. ray = <<a>>
    BY <1>1, <1>2, RayIs
  <2> QED BY <1>2, <2>1 DEF Chain
<1>3. CASE a # b
  BY <1>1, <1>3, RayIs
<1> QED BY <1>2, <1>3

-----------------------------------------------------------------------------
(* Rays from the other end. *)

\* A sequence read from its end.
Back(p) == [t \in 1..Len(p) |-> p[Len(p) + 1 - t]]

\* The way back, n - t steps from y, is where the way there is after t.
LEMMA FromTheOtherEnd ==
    ASSUME NEW x \in Int, NEW y \in Int, NEW n \in Int, NEW t \in Int
    PROVE  y * n + (x - y) * (n - t) = x * n + (y - x) * t
  OBVIOUS

\* The left of the way there is the right of the way back.
LEMMA NudgeBack ==
    ASSUME NEW a \in HexSet, NEW b \in HexSet, NEW sign \in {1, -1}
    PROVE  Nudge(b, a, -sign) = Nudge(a, b, sign)
<1> DEFINE x == [c \in 1..3 |-> b[c] - a[c]]
           y == [c \in 1..3 |-> a[c] - b[c]]
           side == Across(a, b)
           back == Across(b, a)
<1>1. \A c \in 1..3 : a[c] \in Int /\ b[c] \in Int
  BY DEF HexSet
<1>2. \A c \in 1..3 : x[c] \in Int /\ y[c] \in Int /\ y[c] = -x[c]
  BY <1>1
<1>3. side = <<x[3] - x[2], x[1] - x[3], x[2] - x[1]>>
  BY AcrossIs
<1>4. back = <<y[3] - y[2], y[1] - y[3], y[2] - y[1]>>
  BY AcrossIs
<1>5. /\ Nudge(b, a, -sign) = [c \in 1..3 |-> (-sign) * back[c]]
      /\ Nudge(a, b, sign) = [c \in 1..3 |-> sign * side[c]]
  BY DEF Nudge
<1> HIDE DEF x, y, side, back
<1>6. \A c \in 1..3 : side[c] \in Int /\ back[c] = -side[c]
  <2>1. 1..3 = {1, 2, 3}
    OBVIOUS
  <2>2. /\ side[1] = x[3] - x[2] /\ side[2] = x[1] - x[3] /\ side[3] = x[2] - x[1]
        /\ back[1] = y[3] - y[2] /\ back[2] = y[1] - y[3] /\ back[3] = y[2] - y[1]
    BY <1>3, <1>4
  <2> QED BY <1>2, <2>1, <2>2
<1>7. \A c \in 1..3 : (-sign) * back[c] = sign * side[c]
  BY <1>6
<1> QED BY <1>5, <1>7

\* The spots of the way back are those of the way there.
LEMMA SpotBack ==
    ASSUME NEW a \in HexSet, NEW b \in HexSet, NEW n \in Nat, NEW m, NEW o, NEW t \in 0..n
    PROVE  SpotHex(b, a, n, m, o, n - t) = SpotHex(a, b, n, m, o, t)
<1>1. \A c \in 1..3 : a[c] \in Int /\ b[c] \in Int
  BY DEF HexSet
<1>2. \A c \in 1..3 : b[c] * n + (a[c] - b[c]) * (n - t) = a[c] * n + (b[c] - a[c]) * t
  <2> SUFFICES ASSUME NEW c \in 1..3
               PROVE  b[c] * n + (a[c] - b[c]) * (n - t) = a[c] * n + (b[c] - a[c]) * t
    OBVIOUS
  <2> DEFINE x == a[c]  y == b[c]
  <2>1. x \in Int /\ y \in Int /\ n \in Int /\ t \in Int
    BY <1>1
  <2> HIDE DEF x, y
  <2>2. y * n + (x - y) * (n - t) = x * n + (y - x) * t
    BY <2>1, FromTheOtherEnd
  <2> QED BY <2>2 DEF x, y
<1>3. Spot(b, a, n, m, o, n - t) = Spot(a, b, n, m, o, t)
  BY <1>2 DEF Spot
<1> QED BY <1>3 DEF SpotHex

\* The ray that shoots back is the ray on the other side, read from its end.
LEMMA RayBack ==
    ASSUME NEW a \in HexSet, NEW b \in HexSet, a # b, NEW sign \in {1, -1}
    PROVE  RayHexes(b, a, -sign) = Back(RayHexes(a, b, sign))
<1> DEFINE n == Distance(a, b)
           o == Nudge(a, b, sign)
           p == RayHexes(a, b, sign)
           q == RayHexes(b, a, -sign)
<1>1. n \in Nat /\ Distance(b, a) = n
  BY DistanceIs, DistanceMutual
<1>2. -sign \in {1, -1}
  OBVIOUS
<1>3. p = Spots(a, b, n, OffsetScale, o) /\ Len(p) = n + 1
  BY RayIs
<1>4. q = Spots(b, a, n, OffsetScale, o)
  BY <1>1, <1>2, RayIs, NudgeBack
<1> HIDE DEF n, o, p, q
<1>5. p = [t \in 1..(n + 1) |-> SpotHex(a, b, n, OffsetScale, o, t - 1)]
  BY <1>3 DEF Spots
<1>6. q = [t \in 1..(n + 1) |-> SpotHex(b, a, n, OffsetScale, o, t - 1)]
  BY <1>4 DEF Spots
<1>7. ASSUME NEW t \in 1..(n + 1)
      PROVE  SpotHex(b, a, n, OffsetScale, o, t - 1) = p[n + 2 - t]
  <2> DEFINE u == n + 1 - t  w == n + 2 - t
  <2>1. u \in 0..n /\ n - u = t - 1 /\ w \in 1..(n + 1) /\ w - 1 = u
    BY <1>1
  <2>2. p[w] = SpotHex(a, b, n, OffsetScale, o, u)
    BY <1>5, <2>1
  <2> HIDE DEF u
  <2>3. SpotHex(b, a, n, OffsetScale, o, n - u) = SpotHex(a, b, n, OffsetScale, o, u)
    BY <1>1, <2>1, SpotBack
  <2> QED BY <2>1, <2>2, <2>3
<1>8. q = [t \in 1..(n + 1) |-> p[n + 2 - t]]
  BY <1>6, <1>7
<1>9. \A t \in 1..(n + 1) : (n + 1) + 1 - t = n + 2 - t
  BY <1>1
<1>10. Back(p) = [t \in 1..(n + 1) |-> p[(n + 1) + 1 - t]]
  BY <1>3 DEF Back
<1> QED BY <1>8, <1>9, <1>10 DEF p, q

-----------------------------------------------------------------------------
(* The line through the hexes of a chain. *)

\* The polyline is joined from its lines, one waypoint after the other.
LEMMA JoinRuns ==
    ASSUME NEW p, Len(p) \in Nat, Len(p) > 0
    PROVE  \E g : /\ g[0] = <<>>
                  /\ \A k \in 0..(Len(p) - 2) : g[k + 1] = g[k] \o Line(p[k + 1], p[k + 2])
                  /\ PolylinePath(p) = g[Len(p) - 1]
<1> DEFINE base == <<>>
           n == Len(p) - 1
           seq == [k \in 1..n |-> k]
<1>1. PolylinePath(p) = Joined!Folded(p, base, seq)
  BY DEF PolylinePath, FoldLeft, MapThenFoldSet, Joined!MapThenFoldSet, Joined!Folded, Max, Joined!Greatest,
         JoinLine
<1>2. n \in Nat /\ DOMAIN seq = 1..n
  OBVIOUS
<1>3. \A k \in 0..(n - 1) : k + 1 \in 1..n /\ seq[k + 1] = k + 1 /\ (k + 1) + 1 = k + 2
  OBVIOUS
<1>4. n - 1 = Len(p) - 2
  OBVIOUS
<1> HIDE DEF base, n, seq
<1>5. Joined!RunsThrough(p, base, seq, n)
  BY <1>2, Joined!Unrolled
<1>6. PICK g : /\ g[0] = base
               /\ \A k \in 0..(n - 1) : g[k + 1] = JoinLine(p, g[k], seq[k + 1])
               /\ Joined!Folded(p, base, seq) = g[n]
  BY <1>5, Zenon DEF Joined!RunsThrough
<1>7. \A k \in 0..(n - 1) : g[k + 1] = g[k] \o Line(p[k + 1], p[k + 2])
  BY <1>3, <1>6 DEF JoinLine
<1>8. g[0] = <<>> /\ PolylinePath(p) = g[Len(p) - 1]
  BY <1>1, <1>6 DEF base, n
<1> QED BY <1>4, <1>7, <1>8

\* The line between neighbours is the two of them.
LEMMA ShortLine ==
    ASSUME NEW a \in HexSet, NEW b \in HexSet, Distance(a, b) = 1
    PROVE  Line(a, b) = <<a, b>>
<1> DEFINE p == Line(a, b)
<1>1. p \in Seq(HexSet) /\ Len(p) = 2 /\ p[1] = a /\ p[2] = b
  <2>1. Chain(p, a, b) /\ Len(p) = Distance(a, b) + 1
    BY LineChain
  <2> HIDE DEF p
  <2>2. Len(p) = 2
    BY <2>1
  <2> QED BY <2>1, <2>2 DEF Chain
<1> HIDE DEF p
<1>2. p = <<a, b>>
  BY <1>1
<1> QED BY <1>2 DEF p

\* The waypoints of a chain but its ends, twice each.
Twice(p, k) == [i \in 1..(2 * k) |-> p[(i \div 2) + 1]]

\* The polyline through a chain has every hex twice but its ends.
LEMMA ChainJoined ==
    ASSUME NEW a, NEW b, NEW p, Chain(p, a, b)
    PROVE  PolylinePath(p) = Twice(p, Len(p) - 1)
<1>1. /\ p \in Seq(HexSet) /\ Len(p) \in Nat /\ Len(p) > 0
      /\ \A t \in 1..(Len(p) - 1) : Distance(p[t], p[t + 1]) = 1
  BY DEF Chain
<1> DEFINE n == Len(p) - 1
<1>2. n \in Nat /\ n - 1 = Len(p) - 2
  BY <1>1
<1>3. PICK g : /\ g[0] = <<>>
               /\ \A k \in 0..(Len(p) - 2) : g[k + 1] = g[k] \o Line(p[k + 1], p[k + 2])
               /\ PolylinePath(p) = g[n]
  BY <1>1, JoinRuns
<1>4. \A k \in 0..(n - 1) : Line(p[k + 1], p[k + 2]) = <<p[k + 1], p[k + 2]>>
  <2> SUFFICES ASSUME NEW k \in 0..(n - 1) PROVE Line(p[k + 1], p[k + 2]) = <<p[k + 1], p[k + 2]>>
    OBVIOUS
  <2>1. k + 1 \in 1..(Len(p) - 1) /\ k + 1 \in 1..Len(p) /\ k + 2 \in 1..Len(p) /\ (k + 1) + 1 = k + 2
    BY <1>1
  <2>2. p[k + 1] \in HexSet /\ p[k + 2] \in HexSet /\ Distance(p[k + 1], p[k + 2]) = 1
    BY <1>1, <2>1
  <2> QED BY <2>2, ShortLine
<1> DEFINE T == {k \in 0..n : g[k] = Twice(p, k)}
<1>5. 0 \in T
  <2>1. Twice(p, 0) = <<>>
    BY DEF Twice
  <2> QED BY <1>2, <1>3, <2>1
<1>6. ASSUME NEW k \in 0..(n - 1), k \in T PROVE k + 1 \in T
  <2> DEFINE x == p[k + 1]  y == p[k + 2]
  <2>1. g[k + 1] = Twice(p, k) \o <<x, y>>
    BY <1>2, <1>3, <1>4, <1>6
  <2>2. /\ k \in Nat /\ 2 * (k + 1) = 2 * k + 2 /\ 2 * k \in Nat
        /\ (2 * k + 1) \div 2 = k /\ (2 * k + 2) \div 2 = k + 1
    BY <1>2
  <2>3. x = p[((2 * k + 1) \div 2) + 1] /\ y = p[((2 * k + 2) \div 2) + 1]
    BY <2>2
  <2> HIDE DEF x, y
  <2>4. Twice(p, k) \o <<x, y>> = [i \in 1..(2 * k + 2) |->
                                     IF i <= 2 * k THEN p[(i \div 2) + 1] ELSE IF i = 2 * k + 1 THEN x ELSE y]
    BY <2>2 DEF Twice
  <2>5. Twice(p, k + 1) = Twice(p, k) \o <<x, y>>
    <3> DEFINE N == 2 * k
               F(i) == IF i <= N THEN p[(i \div 2) + 1] ELSE IF i = N + 1 THEN x ELSE y
    <3>1. Twice(p, k) \o <<x, y>> = [i \in 1..(N + 2) |-> F(i)]
      BY <2>4
    <3>2. Twice(p, k + 1) = [i \in 1..(N + 2) |-> p[(i \div 2) + 1]]
      BY <2>2 DEF Twice
    <3>3. N \in Nat /\ x = p[((N + 1) \div 2) + 1] /\ y = p[((N + 2) \div 2) + 1]
      BY <2>2, <2>3
    <3> HIDE DEF N
    <3>4. \A i \in 1..(N + 2) : i <= N \/ i = N + 1 \/ (i = N + 2 /\ i # N + 1)
      BY <3>3
    <3>5. \A i \in 1..(N + 2) : p[(i \div 2) + 1] = F(i)
      BY <3>3, <3>4
    <3> QED BY <3>1, <3>2, <3>5
  <2>6. k + 1 \in 0..n
    BY <1>2
  <2> QED BY <2>1, <2>5, <2>6
<1> HIDE DEF T, n
<1>7. 0..n \subseteq T
  BY <1>2, <1>5, <1>6, Joined!BoundedInduction
<1>8. g[n] = Twice(p, n)
  BY <1>2, <1>7 DEF T
<1> QED BY <1>3, <1>8 DEF n

\* Without its repetitions the joined chain is the chain again.
LEMMA ChainReadBack ==
    ASSUME NEW a, NEW b, NEW p, Chain(p, a, b), Len(p) > 1
    PROVE  Dedupe(PolylinePath(p)) = p
<1>1. /\ p \in Seq(HexSet) /\ Len(p) \in Nat /\ Len(p) > 0
      /\ \A t \in 1..(Len(p) - 1) : Distance(p[t], p[t + 1]) = 1
  BY DEF Chain
<1> DEFINE q == PolylinePath(p)
           n == 2 * (Len(p) - 1)
<1>2. n \in Nat /\ n > 0
  BY <1>1
<1>3. q = [i \in 1..n |-> p[(i \div 2) + 1]]
  BY ChainJoined DEF Twice
<1>4. \A i \in 0..n : (i \div 2) + 1 \in 1..Len(p) /\ i \div 2 \in Nat
  BY <1>1
<1> HIDE DEF q
<1>5. q \in Seq(HexSet) /\ Len(q) = n
  <2> HIDE DEF n
  <2>1. \A i \in 1..n : p[(i \div 2) + 1] \in HexSet
    BY <1>1, <1>4
  <2>2. q \in [1..n -> HexSet]
    BY <1>3, <2>1
  <2> QED BY <1>2, <2>2
<1>6. PICK g : /\ g[0] = <<>>
               /\ \A k \in 0..(Len(q) - 1) : g[k + 1] = KeepNew(None, g[k], q[k + 1])
               /\ Dedupe(q) = g[Len(q)]
  BY <1>5, DedupeRuns
<1> HIDE DEF n
<1> DEFINE Reached(k) == IF k = 0 THEN <<>> ELSE First(p, (k \div 2) + 1)
           T == {k \in 0..n : g[k] = Reached(k)}
<1>7. 0 \in T
  BY <1>2, <1>6
<1>8. ASSUME NEW k \in 0..(n - 1), k \in T PROVE k + 1 \in T
  <2> DEFINE j == (k \div 2) + 1
             i == ((k + 1) \div 2) + 1
  <2>1. /\ k \in Int /\ k + 1 \in 1..n /\ k + 1 \in 0..n /\ k + 1 # 0
        /\ j \in 1..Len(p) /\ i \in 1..Len(p)
        /\ i = j \/ i = j + 1
        /\ k = 0 => i = 1
    BY <1>2, <1>4
  <2>2. q[k + 1] = p[i] /\ Reached(k + 1) = First(p, i) /\ (k # 0 => Reached(k) = First(p, j))
    BY <1>3, <2>1
  <2>3. g[k + 1] = KeepNew(None, Reached(k), p[i])
    BY <1>5, <1>6, <1>8, <2>2
  <2> HIDE DEF i, j, Reached
  <2>4. CASE k = 0
    <3>1. Reached(k) = <<>> /\ i = 1
      BY <2>1, <2>4 DEF Reached
    <3>2. First(p, 0) = <<>> /\ First(p, 0 + 1) = Append(First(p, 0), p[0 + 1])
      BY <1>1, FirstGrows
    <3>3. First(p, 1) = Append(<<>>, p[1])
      <4>1. 0 + 1 = 1
        OBVIOUS
      <4> QED BY <3>2, <4>1, Zenon
    <3>4. KeepNew(None, <<>>, p[1]) = First(p, 1)
      BY <3>3, Zenon DEF KeepNew
    <3>5. g[k + 1] = Reached(k + 1)
      BY <2>2, <2>3, <3>1, <3>4
    <3> QED BY <2>1, <3>5 DEF T
  <2>5. CASE k # 0
    <3>1. First(p, j) # <<>> /\ Last(First(p, j)) = p[j]
      BY <1>1, <2>1, FirstEnds
    <3>2. CASE i = j
      <4>1. KeepNew(None, First(p, j), p[i]) = First(p, i)
        BY <3>1, <3>2 DEF KeepNew
      <4>2. g[k + 1] = Reached(k + 1)
        BY <2>2, <2>3, <2>5, <4>1
      <4> QED BY <2>1, <4>2 DEF T
    <3>3. CASE i = j + 1
      <4>1. j \in 1..(Len(p) - 1)
        BY <1>1, <2>1, <3>3
      <4>2. p[j] # p[i]
        <5>1. p[j] \in HexSet /\ Distance(p[j], p[i]) = 1
          BY <1>1, <3>3, <4>1
        <5> QED BY <5>1, DistanceZero
      <4>3. First(p, j + 1) = Append(First(p, j), p[j + 1])
        BY <1>1, <4>1, FirstGrows
      <4>4. KeepNew(None, First(p, j), p[i]) = First(p, i)
        BY <3>1, <3>3, <4>2, <4>3 DEF KeepNew
      <4>5. g[k + 1] = Reached(k + 1)
        BY <2>2, <2>3, <2>5, <4>4
      <4> QED BY <2>1, <4>5 DEF T
    <3> QED BY <2>1, <3>2, <3>3
  <2> QED BY <2>4, <2>5
<1> HIDE DEF T, Reached
<1>9. 0..n \subseteq T
  BY <1>2, <1>7, <1>8, Keeping!BoundedInduction
<1>10. g[n] = Reached(n)
  BY <1>2, <1>9 DEF T
<1>11. Reached(n) = p
  <2>1. n # 0 /\ (n \div 2) + 1 = Len(p)
    BY <1>1, <1>2 DEF n
  <2>2. First(p, Len(p)) = p
    BY <1>1, FirstGrows
  <2> QED BY <2>1, <2>2 DEF Reached
<1> QED BY <1>5, <1>6, <1>10, <1>11 DEF q

-----------------------------------------------------------------------------
(* What is between the ends, and which edges are crossed, is the same from both ends. *)

\* A chain read from its end is a chain.
LEMMA BackIs ==
    ASSUME NEW a, NEW b, NEW p, Chain(p, a, b)
    PROVE  /\ Chain(Back(p), b, a) /\ Len(Back(p)) = Len(p)
           /\ \A t \in 1..Len(p) : Back(p)[t] = p[Len(p) + 1 - t]
           /\ Back(Back(p)) = p
<1> DEFINE n == Len(p)
           q == Back(p)
<1>1. /\ p \in Seq(HexSet) /\ n \in Nat /\ n > 0 /\ p[1] = a /\ p[n] = b
      /\ \A t \in 1..(n - 1) : Distance(p[t], p[t + 1]) = 1
  BY DEF Chain
<1>2. q = [t \in 1..n |-> p[n + 1 - t]]
  BY DEF Back
<1>3. \A t \in 1..n : n + 1 - t \in 1..n /\ p[n + 1 - t] \in HexSet /\ n + 1 - (n + 1 - t) = t
  BY <1>1
<1> HIDE DEF q
<1>4. q \in Seq(HexSet) /\ Len(q) = n
  <2>1. n \in Nat /\ \A t \in 1..n : p[n + 1 - t] \in HexSet
    BY <1>1, <1>3
  <2> HIDE DEF n
  <2>2. q \in [1..n -> HexSet]
    BY <1>2, <2>1
  <2> QED BY <2>1, <2>2
<1>5. \A t \in 1..n : q[t] = p[n + 1 - t]
  BY <1>2
<1>6. q[1] = b /\ q[n] = a
  BY <1>1, <1>5
<1>7. ASSUME NEW t \in 1..(n - 1) PROVE Distance(q[t], q[t + 1]) = 1
  <2> DEFINE u == n - t
  <2>1. u \in 1..(n - 1) /\ u \in 1..n /\ u + 1 \in 1..n /\ n + 1 - t = u + 1 /\ n + 1 - (t + 1) = u
        /\ t \in 1..n /\ t + 1 \in 1..n
    BY <1>1
  <2>2. q[t] = p[u + 1] /\ q[t + 1] = p[u]
    BY <1>5, <2>1
  <2> HIDE DEF u
  <2>3. p[u] \in HexSet /\ p[u + 1] \in HexSet /\ Distance(p[u], p[u + 1]) = 1
    BY <1>1, <2>1
  <2> QED BY <2>2, <2>3, DistanceMutual
<1>8. Chain(q, b, a)
  BY <1>1, <1>4, <1>6, <1>7 DEF Chain
<1>9. Back(q) = p
  <2>1. Back(q) = [t \in 1..n |-> q[n + 1 - t]]
    BY <1>4 DEF Back
  <2>2. \A t \in 1..n : q[n + 1 - t] = p[t]
    BY <1>3, <1>5
  <2>3. p = [t \in 1..n |-> p[t]]
    BY <1>1
  <2> QED BY <2>1, <2>2, <2>3
<1> QED BY <1>4, <1>5, <1>8, <1>9 DEF q

\* The same hexes are between the ends.
LEMMA BetweenBack ==
    ASSUME NEW a, NEW b, NEW p, Chain(p, a, b)
    PROVE  Between(Back(p)) \subseteq Between(p)
<1> DEFINE n == Len(p)
           q == Back(p)
<1>1. n \in Nat /\ n > 0 /\ Len(q) = n /\ \A t \in 1..n : q[t] = p[n + 1 - t]
  BY BackIs DEF Chain
<1> SUFFICES ASSUME NEW t \in 2..(n - 1) PROVE q[t] \in Between(p)
  BY <1>1 DEF Between
<1>2. n + 1 - t \in 2..(n - 1) /\ t \in 1..n
  BY <1>1
<1> QED BY <1>1, <1>2 DEF Between

\* An edge is the same from both of its sides.
LEMMA EdgeKeyMutual ==
    ASSUME NEW a \in HexSet, NEW b \in HexSet
    PROVE  EdgeKey(a, b) = EdgeKey(b, a)
<1>1. /\ a[1] \in Int /\ a[2] \in Int /\ a[3] \in Int /\ a[3] = -a[1] - a[2]
      /\ b[1] \in Int /\ b[2] \in Int /\ b[3] \in Int /\ b[3] = -b[1] - b[2]
  BY ThirdIs
<1>2. a = <<a[1], a[2], a[3]>> /\ b = <<b[1], b[2], b[3]>>
  BY DEF HexSet
<1>3. ~HexLess(a, b) /\ ~HexLess(b, a) => a = b
  BY <1>1, <1>2 DEF HexLess
<1>4. ~(HexLess(a, b) /\ HexLess(b, a))
  BY <1>1 DEF HexLess
<1> QED BY <1>3, <1>4 DEF EdgeKey

\* The same edges are crossed.
LEMMA EdgesBack ==
    ASSUME NEW a, NEW b, NEW p, Chain(p, a, b)
    PROVE  Range(EdgesAlong(Back(p))) \subseteq Range(EdgesAlong(p))
<1> DEFINE n == Len(p)
           q == Back(p)
<1>1. /\ n \in Nat /\ n > 0 /\ Len(q) = n /\ \A t \in 1..n : q[t] = p[n + 1 - t]
      /\ \A t \in 1..n : p[t] \in HexSet
  BY BackIs DEF Chain
<1>2. \A c : Range(EdgesAlong(c)) = {EdgeKey(c[t], c[t + 1]) : t \in 1..(Len(c) - 1)}
  BY DEF EdgesAlong, Range
<1> HIDE DEF n, q
<1>3. ASSUME NEW t \in 1..(n - 1)
      PROVE  \E u \in 1..(n - 1) : EdgeKey(q[t], q[t + 1]) = EdgeKey(p[u], p[u + 1])
  <2> DEFINE u == n - t
  <2>1. /\ u \in 1..(n - 1) /\ u \in 1..n /\ u + 1 \in 1..n /\ n + 1 - t = u + 1
        /\ n + 1 - (t + 1) = u /\ t \in 1..n /\ t + 1 \in 1..n
    BY <1>1
  <2>2. q[t] = p[u + 1] /\ q[t + 1] = p[u] /\ p[u] \in HexSet /\ p[u + 1] \in HexSet
    BY <1>1, <2>1
  <2> HIDE DEF u
  <2>3. EdgeKey(q[t], q[t + 1]) = EdgeKey(p[u], p[u + 1])
    BY <2>2, EdgeKeyMutual
  <2> QED BY <2>1, <2>3
<1>4. {EdgeKey(q[t], q[t + 1]) : t \in 1..(n - 1)} \subseteq {EdgeKey(p[t], p[t + 1]) : t \in 1..(n - 1)}
  BY <1>3
<1>5. /\ Range(EdgesAlong(q)) = {EdgeKey(q[t], q[t + 1]) : t \in 1..(n - 1)}
      /\ Range(EdgesAlong(p)) = {EdgeKey(p[t], p[t + 1]) : t \in 1..(n - 1)}
  BY <1>1, <1>2 DEF n
<1> QED BY <1>4, <1>5 DEF q

\* A ray that goes from neighbour to neighbour crosses the edges between them.
LEMMA CrossedIs ==
    ASSUME NEW a, NEW b, NEW p, Chain(p, a, b)
    PROVE  Crossed(p) = Range(EdgesAlong(p))
<1>1. CASE Len(p) < 2
  BY <1>1 DEF Crossed
<1>2. CASE Len(p) > 1
  <2>1. Dedupe(PolylinePath(p)) = p
    BY <1>2, ChainReadBack
  <2> QED BY <2>1 DEF Crossed
<1>3. Len(p) < 2 \/ Len(p) > 1
  BY DEF Chain
<1> QED BY <1>1, <1>2, <1>3

\* A ray that is clear is clear on the way back.
LEMMA ClearBack ==
    ASSUME NEW a, NEW b, NEW p, Chain(p, a, b), NEW hexes, NEW edges, RayClear(p, hexes, edges)
    PROVE  RayClear(Back(p), hexes, edges)
<1>1. Chain(Back(p), b, a)
  BY BackIs
<1>2. Crossed(Back(p)) \subseteq Crossed(p)
  BY <1>1, CrossedIs, EdgesBack
<1>3. Between(Back(p)) \subseteq Between(p)
  BY BetweenBack
<1> QED BY <1>2, <1>3 DEF RayClear

\* Who sees is seen.
LEMMA SeenBack ==
    ASSUME NEW a \in HexSet, NEW b \in HexSet, NEW hexes, NEW edges, HasLineOfSight(a, b, hexes, edges)
    PROVE  HasLineOfSight(b, a, hexes, edges)
<1>1. CASE a = b
  BY <1>1 DEF HasLineOfSight
<1>2. CASE a # b
  <2>1. PICK sign \in {1, -1} : RayClear(RayHexes(a, b, sign), hexes, edges)
    BY <1>2 DEF HasLineOfSight, Rays
  <2>2. Chain(RayHexes(a, b, sign), a, b)
    BY <1>2, RayIs
  <2>3. RayClear(RayHexes(b, a, -sign), hexes, edges)
    BY <1>2, <2>1, <2>2, ClearBack, RayBack
  <2>4. RayHexes(b, a, -sign) \in Rays(b, a)
    BY DEF Rays
  <2> QED BY <2>3, <2>4 DEF HasLineOfSight
<1> QED BY <1>1, <1>2

-----------------------------------------------------------------------------
(* The obstacle. *)

\* The least number of a set is one of the set.
LEMMA MinIs ==
    ASSUME NEW S \in SUBSET Nat, S # {}
    PROVE  Min(S) \in S
<1>1. \E m \in S : \A k \in S : m <= k
  BY Keeping!LeastNumber
<1> QED BY <1>1 DEF Min

\* The hex behind an edge is one of its two.
LEMMA EdgeHas ==
    ASSUME NEW a, NEW b
    PROVE  b \in Range(EdgeKey(a, b))
<1>1. EdgeKey(a, b) = <<a, b>> \/ EdgeKey(a, b) = <<b, a>>
  BY DEF EdgeKey
<1>2. b \in Range(<<a, b>>) /\ b \in Range(<<b, a>>)
  BY DEF Range
<1> QED BY <1>1, <1>2

\* A hex that is named as an obstacle blocks, or lies behind an edge that does.
Obstacle(h, hexes, edges) == h \in HexSet /\ (h \in hexes \/ \E e \in edges : h \in Range(e))

\* What stops a ray that is not clear is an obstacle.
LEMMA FirstBlockIs ==
    ASSUME NEW a, NEW b, NEW p, Chain(p, a, b), NEW hexes, NEW edges, ~RayClear(p, hexes, edges)
    PROVE  Obstacle(FirstBlock(p, hexes, edges), hexes, edges)
<1> DEFINE n == Len(p)
           cells == Dedupe(PolylinePath(p))
           inside == {t \in 2..(n - 1) : p[t] \in hexes}
           past(c) == {t \in 1..(Len(c) - 1) : EdgeKey(c[t], c[t + 1]) \in edges}
           hit(c) == IF inside # {} THEN p[Min(inside)] ELSE c[Min(past(c)) + 1]
<1>1. n \in Nat /\ n > 0 /\ \A t \in 1..n : p[t] \in HexSet
  BY DEF Chain
<1>2. FirstBlock(p, hexes, edges) = hit(cells)
  BY DEF FirstBlock
<1>3. CASE inside # {}
  <2>1. inside \in SUBSET Nat
    BY <1>1
  <2>2. Min(inside) \in inside
    BY <1>3, <2>1, MinIs
  <2>3. p[Min(inside)] \in hexes /\ p[Min(inside)] \in HexSet
    BY <1>1, <2>2
  <2>4. hit(cells) = p[Min(inside)]
    BY <1>3
  <2> HIDE DEF hit, inside, cells
  <2> QED BY <1>2, <2>3, <2>4 DEF Obstacle
<1>4. CASE inside = {}
  <2>1. Between(p) \cap hexes = {}
    BY <1>4 DEF Between
  <2>2. Range(EdgesAlong(p)) \cap edges # {}
    BY <2>1, CrossedIs DEF RayClear
  <2>3. Range(EdgesAlong(p)) = {EdgeKey(p[t], p[t + 1]) : t \in 1..(n - 1)}
    BY DEF EdgesAlong, Range
  <2>4. past(p) # {}
    BY <2>2, <2>3
  <2>5. past(p) \in SUBSET Nat
    BY <1>1
  <2> DEFINE m == Min(past(p))
  <2>6. m \in past(p)
    BY <2>4, <2>5, MinIs
  <2> HIDE DEF m
  <2>7. m \in 1..(n - 1) /\ EdgeKey(p[m], p[m + 1]) \in edges
    BY <2>6
  <2>8. n > 1 /\ m + 1 \in 1..n
    BY <1>1, <2>7
  <2>9. cells = p
    BY <2>8, ChainReadBack
  <2>10. hit(cells) = p[m + 1]
    BY <1>4, <2>9 DEF m
  <2>11. p[m + 1] \in Range(EdgeKey(p[m], p[m + 1])) /\ p[m + 1] \in HexSet
    BY <1>1, <2>8, EdgeHas
  <2> HIDE DEF hit, cells, inside
  <2> QED BY <1>2, <2>7, <2>10, <2>11 DEF Obstacle
<1> QED BY <1>3, <1>4

\* Of two hexes one is the least.
LEMMA LeastOfTwo ==
    ASSUME NEW g \in HexSet, NEW h \in HexSet, NEW S, S \subseteq {g, h}, S # {}
    PROVE  LeastHex(S) \in S
<1>1. /\ g[1] \in Int /\ g[2] \in Int /\ g[3] = -g[1] - g[2]
      /\ h[1] \in Int /\ h[2] \in Int /\ h[3] = -h[1] - h[2]
  BY ThirdIs
<1>2. g = <<g[1], g[2], g[3]>> /\ h = <<h[1], h[2], h[3]>>
  BY DEF HexSet
<1>3. HexLess(g, h) \/ HexLess(h, g) \/ g = h
  BY <1>1, <1>2 DEF HexLess
<1>4. \E x \in S : \A y \in S \ {x} : HexLess(x, y)
  BY <1>3
<1> QED BY <1>4 DEF LeastHex

\* The hex that the attack preview marks is an obstacle whenever there is no line of sight.
LEMMA ObstacleIs ==
    ASSUME NEW a \in HexSet, NEW b \in HexSet, NEW hexes, NEW edges, ~HasLineOfSight(a, b, hexes, edges)
    PROVE  Obstacle(FirstBlockingHex(a, b, hexes, edges), hexes, edges)
<1> DEFINE hit(ray) == FirstBlock(ray, hexes, edges)
           hits == {hit(ray) : ray \in Rays(a, b)}
           g == hit(RayHexes(a, b, 1))
           h == hit(RayHexes(a, b, -1))
           near == Min({Distance(a, x) : x \in hits})
           S == {x \in hits : Distance(a, x) = near}
<1>1. FirstBlockingHex(a, b, hexes, edges) = LeastHex(S)
  BY DEF FirstBlockingHex
<1>2. ASSUME NEW ray \in Rays(a, b) PROVE Obstacle(hit(ray), hexes, edges)
  <2>1. ~RayClear(ray, hexes, edges)
    BY DEF HasLineOfSight
  <2>2. Chain(ray, a, b)
    BY RayChain
  <2> QED BY <2>1, <2>2, FirstBlockIs
<1> HIDE DEF hit
<1>3. hits = {g, h}
  BY DEF Rays
<1>4. Obstacle(g, hexes, edges) /\ Obstacle(h, hexes, edges)
  BY <1>2 DEF Rays
<1> HIDE DEF g, h
<1>5. g \in HexSet /\ h \in HexSet
  BY <1>4 DEF Obstacle
<1>6. S \subseteq {g, h} /\ S # {}
  <2> DEFINE far == {Distance(a, x) : x \in hits}
  <2>1. far \in SUBSET Nat /\ far # {}
    BY <1>3, <1>5, DistanceIs
  <2>2. near \in far
    BY <2>1, MinIs
  <2>3. PICK x \in hits : Distance(a, x) = near
    BY <2>2
  <2> HIDE DEF near
  <2> QED BY <1>3, <2>3
<1> HIDE DEF S
<1>7. LeastHex(S) \in {g, h}
  BY <1>5, <1>6, LeastOfTwo
<1> QED BY <1>1, <1>4, <1>7

-----------------------------------------------------------------------------
(* The probes. *)

\* A sight probe is a pair of hexes and what blocks between them; a path or a region stays what it is.
ProbeOK ==
    \/ probe \in [kind: {"sight"}, from: HexSet, to: HexSet, hexes: SUBSET BlockArea,
                  edges: SUBSET InternalEdges(BlockArea)]
    \/ probe \in [kind: {"path"}, cells: Seq(HexSet)]
    \/ probe \in [kind: {"region"}, cells: SUBSET HexSet]

\* Every probe starts as one.
LEMMA ProbeStartsOK == ProbeInit => ProbeOK
<1> SUFFICES ASSUME ProbeInit PROVE ProbeOK
  OBVIOUS
<1>1. PICK h \in ProbeStarts :
        \/ probe = [kind |-> "sight", from |-> h, to |-> h, hexes |-> {}, edges |-> {}]
        \/ probe = [kind |-> "path", cells |-> <<h>>]
        \/ probe = [kind |-> "region", cells |-> {h}]
  BY DEF ProbeInit
<1>2. h \in HexSet
  BY BoardAssumption
<1> DEFINE edges == InternalEdges(BlockArea)
<1>3. CASE probe = [kind |-> "sight", from |-> h, to |-> h, hexes |-> {}, edges |-> {}]
  <2> HIDE DEF edges
  <2>1. {} \in SUBSET BlockArea /\ {} \in SUBSET edges
    OBVIOUS
  <2>2. probe \in [kind: {"sight"}, from: HexSet, to: HexSet, hexes: SUBSET BlockArea, edges: SUBSET edges]
    BY ONLY <1>2, <1>3, <2>1
  <2> QED BY <2>2 DEF ProbeOK, edges
<1>4. CASE probe = [kind |-> "path", cells |-> <<h>>]
  <2>1. <<h>> \in Seq(HexSet)
    BY ONLY <1>2
  <2>2. probe \in [kind: {"path"}, cells: Seq(HexSet)]
    BY ONLY <1>4, <2>1
  <2> QED BY ONLY <2>2 DEF ProbeOK
<1>5. CASE probe = [kind |-> "region", cells |-> {h}]
  <2>1. {h} \in SUBSET HexSet
    BY ONLY <1>2
  <2>2. probe \in [kind: {"region"}, cells: SUBSET HexSet]
    BY ONLY <1>5, <2>1
  <2> QED BY ONLY <2>2 DEF ProbeOK
<1> QED BY ONLY <1>1, <1>3, <1>4, <1>5

\* No step turns a probe into something else, or leaves the hexes there are.
LEMMA ProbeStaysOK == ProbeOK /\ [ProbeNext]_probe => ProbeOK'
<1> SUFFICES ASSUME ProbeOK, [ProbeNext]_probe PROVE ProbeOK'
  OBVIOUS
<1> USE BoardAssumption
<1> DEFINE edges == InternalEdges(BlockArea)
           Sighted == [kind: {"sight"}, from: HexSet, to: HexSet, hexes: SUBSET BlockArea, edges: SUBSET edges]
<1>1. CASE Drag
  <2>1. PICK h \in HexSet : probe' = [probe EXCEPT !.to = h]
    BY <1>1 DEF Drag
  <2>2. probe \in Sighted
    BY <1>1 DEF ProbeOK, Drag
  <2> HIDE DEF edges
  <2>3. probe' \in Sighted
    BY <2>1, <2>2
  <2> QED BY <2>3 DEF ProbeOK, edges
<1>2. CASE Block
  <2>1. \/ \E h \in BlockArea : probe' = [probe EXCEPT !.hexes = @ \cup {h}]
        \/ \E e \in edges : probe' = [probe EXCEPT !.edges = @ \cup {e}]
    BY <1>2 DEF Block
  <2>2. probe \in Sighted
    BY <1>2 DEF ProbeOK, Block
  <2> HIDE DEF edges
  <2>3. probe' \in Sighted
    BY <2>1, <2>2
  <2> QED BY <2>3 DEF ProbeOK, edges
<1>3. CASE Draw
  <2>1. PICK h \in HexSet : probe' = [probe EXCEPT !.cells = Append(@, h)]
    BY <1>3 DEF Draw
  <2>2. probe \in [kind: {"path"}, cells: Seq(HexSet)]
    BY <1>3 DEF ProbeOK, Draw
  <2> DEFINE cells == Append(probe.cells, h)
  <2>3. cells \in Seq(HexSet)
    BY <2>2
  <2>4. probe' = [probe EXCEPT !.cells = cells]
    BY <2>1
  <2> HIDE DEF cells
  <2>5. probe' \in [kind: {"path"}, cells: Seq(HexSet)]
    BY <2>2, <2>3, <2>4
  <2> QED BY <2>5 DEF ProbeOK
<1>4. CASE Paint
  <2>1. PICK h \in HexSet : probe' = [probe EXCEPT !.cells = @ \cup {h}]
    BY <1>4 DEF Paint
  <2>2. probe \in [kind: {"region"}, cells: SUBSET HexSet]
    BY <1>4 DEF ProbeOK, Paint
  <2>3. probe' \in [kind: {"region"}, cells: SUBSET HexSet]
    BY <2>1, <2>2
  <2> QED BY <2>3 DEF ProbeOK
<1>5. CASE UNCHANGED probe
  BY <1>5 DEF ProbeOK
<1> QED BY <1>1, <1>2, <1>3, <1>4, <1>5 DEF ProbeNext

\* Rays and lines of a sight probe are chains from its one end to its other.
LEMMA RaysHold == ProbeOK => RaysAreUnbroken
<1> SUFFICES ASSUME ProbeOK, probe.kind = "sight",
                    NEW ray \in Rays(probe.from, probe.to) \cup {Line(probe.from, probe.to)}
             PROVE  /\ ray[1] = probe.from /\ Last(ray) = probe.to
                    /\ \A s \in Steps(ray) : Adjacent(s[1], s[2])
  BY DEF RaysAreUnbroken
<1> DEFINE a == probe.from  b == probe.to
<1>1. a \in HexSet /\ b \in HexSet
  BY DEF ProbeOK
<1>2. ray \in Rays(a, b) \/ ray = Line(a, b)
  OBVIOUS
<1> HIDE DEF a, b
<1>3. Chain(ray, a, b)
  BY <1>1, <1>2, RayChain, LineChain
<1>4. ray[1] = a /\ ray[Len(ray)] = b /\ \A t \in 1..(Len(ray) - 1) : Distance(ray[t], ray[t + 1]) = 1
  BY <1>3 DEF Chain
<1>5. ASSUME NEW s \in Steps(ray) PROVE Adjacent(s[1], s[2])
  <2>1. PICK t \in 1..(Len(ray) - 1) : s = <<ray[t], ray[t + 1]>>
    BY DEF Steps
  <2> QED BY <1>4, <2>1 DEF Adjacent
<1> QED BY <1>4, <1>5 DEF Last, a, b

\* Sight is mutual, and an obstacle is named that is one.
LEMMA SightHolds == ProbeOK => SightIsMutual
<1> SUFFICES ASSUME ProbeOK, probe.kind = "sight"
             PROVE  SightIsMutual
  BY DEF SightIsMutual
<1> DEFINE a == probe.from  b == probe.to  hexes == probe.hexes  edges == probe.edges
           obstacle == FirstBlockingHex(a, b, hexes, edges)
<1>1. a \in HexSet /\ b \in HexSet
  BY DEF ProbeOK
<1> HIDE DEF a, b, hexes, edges
<1>2. HasLineOfSight(a, b, hexes, edges) <=> HasLineOfSight(b, a, hexes, edges)
  BY <1>1, SeenBack
<1>3. HasLineOfSight(a, b, hexes, edges) \in BOOLEAN /\ HasLineOfSight(b, a, hexes, edges) \in BOOLEAN
  BY DEF HasLineOfSight
<1>4. ASSUME obstacle # None
      PROVE  obstacle \in hexes \/ \E e \in edges : obstacle \in Range(e)
  <2>1. ~HasLineOfSight(a, b, hexes, edges)
    BY <1>4 DEF FirstBlockingHex
  <2>2. Obstacle(obstacle, hexes, edges)
    BY <1>1, <2>1, ObstacleIs
  <2> QED BY <2>2 DEF Obstacle
<1>5. HasLineOfSight(a, b, hexes, edges) = HasLineOfSight(b, a, hexes, edges)
  BY <1>2, <1>3
<1> HIDE DEF obstacle
<1> QED BY <1>4, <1>5 DEF SightIsMutual, a, b, hexes, edges, obstacle

\* The line between any two hexes of any board is a chain of neighbours from the one to the other,
\* of the length of their distance, although every hex of it is rounded on its own (line and
\* cube_round of hexes/math.py).
THEOREM LinesAreUnbroken ==
    ASSUME NEW a \in HexSet, NEW b \in HexSet
    PROVE  LET n == Distance(a, b)
               line == Line(a, b)
           IN  /\ line \in Seq(HexSet) /\ Len(line) = n + 1
               /\ line[1] = a /\ line[n + 1] = b
               /\ \A t \in 1..n : Distance(line[t], line[t + 1]) = 1
<1> DEFINE n == Distance(a, b)
           line == Line(a, b)
<1>1. Chain(line, a, b) /\ Len(line) = n + 1
  BY LineChain
<1>2. n \in Nat /\ (n + 1) - 1 = n
  BY DistanceIs
<1> HIDE DEF n, line
<1>3. /\ line \in Seq(HexSet) /\ line[1] = a /\ line[n + 1] = b
      /\ \A t \in 1..n : Distance(line[t], line[t + 1]) = 1
  BY <1>1, <1>2 DEF Chain
<1> QED BY <1>1, <1>3 DEF n, line

\* Every line and every ray between two hexes of any board is a chain of neighbours from the one
\* to the other (line of hexes/math.py, _ray_hexes of hexes/los.py): none looks through a hex.
THEOREM RaysAlwaysUnbroken == ProbeSpec => []RaysAreUnbroken
<1>1. ProbeInit => ProbeOK
  BY ProbeStartsOK
<1>2. ProbeOK /\ [ProbeNext]_probe => ProbeOK'
  BY ProbeStaysOK
<1>3. ProbeOK => RaysAreUnbroken
  BY RaysHold
<1> QED BY <1>1, <1>2, <1>3, PTL DEF ProbeSpec

\* On any board, whatever hexes and edges block, two hexes see each other or neither sees the other
\* (has_line_of_sight of hexes/los.py), and the hex that first_blocking_hex names blocks the view or
\* lies at an edge that does.
THEOREM SightAlwaysMutual == ProbeSpec => []SightIsMutual
<1>1. ProbeInit => ProbeOK
  BY ProbeStartsOK
<1>2. ProbeOK /\ [ProbeNext]_probe => ProbeOK'
  BY ProbeStaysOK
<1>3. ProbeOK => SightIsMutual
  BY SightHolds
<1> QED BY <1>1, <1>2, <1>3, PTL DEF ProbeSpec

-----------------------------------------------------------------------------
(* The wire loses nothing: every state, whatever its values, its units and its
   features are, is read back from its wire form as it was. *)


\* A record with these fields; a list; a dict.
HasFields(d, keys) == d = [k \in keys |-> d[k]]

IsHex(h) == /\ h \in Int \X Int \X Int
            /\ h[1] + h[2] + h[3] = 0

TerrainKeys ==
    {"terrain_type", "movement_cost", "hex_color", "assault_modifier", "ranged_modifier", "block_los"}

IsUnit(u) ==
    /\ HasFields(u, {"unit_id", "unit_type", "faction", "position", "health", "active",
                     "stack_index", "graphics", "attributes"})
    /\ IsHex(u.position)

IsLocation(loc, p) ==
    /\ HasFields(loc, {"position"} \cup TerrainKeys)
    /\ loc.position = p /\ IsHex(p)

\* An edge names its hexes in order.
IsEdgeFeature(f) ==
    /\ HasFields(f, {"feature_id", "edge_key", "tags"} \cup StyleKeys)
    /\ f.edge_key = <<f.edge_key[1], f.edge_key[2]>>
    /\ IsHex(f.edge_key[1]) /\ IsHex(f.edge_key[2])
    /\ ~HexLess(f.edge_key[2], f.edge_key[1])

IsLinearFeature(f) ==
    /\ HasFields(f, {"feature_id", "path", "tags"} \cup StyleKeys)
    /\ HasFields(f.path, DOMAIN f.path)
    /\ \A n \in DOMAIN f.path : IsHex(f.path[n])
    /\ PathIsLinear(f.path)

LEMMA HexReads ==
    ASSUME NEW h, IsHex(h)
    PROVE  ParseHex(HexWire(h)) = h
  BY DEF IsHex, ParseHex, HexWire, Hex

LEMMA UnitReads ==
    ASSUME NEW u, IsUnit(u)
    PROVE  UnitFromWire(UnitWire(u)) = u
<1> DEFINE w == UnitWire(u)
<1>1. /\ w.position = HexWire(u.position) /\ w.unit_id = u.unit_id
      /\ w.unit_type = u.unit_type /\ w.faction = u.faction
  BY DEF UnitWire, Kept, Filled, When, With
<1>2. /\ Get(w, "health", 100) = u.health
      /\ Get(w, "active", TRUE) = u.active
      /\ Get(w, "stack_index", 0) = u.stack_index
  BY DEF UnitWire, Kept, Filled, When, With, Get
<1>3. Get(w, "graphics", None) = u.graphics
  BY DEF UnitWire, Kept, Filled, When, With, Get
<1>4. Get(w, "attributes", Nothing) = u.attributes
  BY DEF UnitWire, Kept, Filled, When, With, Get
<1> HIDE DEF w
<1>5. ParseHex(w.position) = u.position
  BY <1>1, HexReads DEF IsUnit
<1> QED
  BY <1>1, <1>2, <1>3, <1>4, <1>5 DEF UnitFromWire, IsUnit, HasFields, w

LEMMA TerrainReads ==
    ASSUME NEW t, NEW w,
           \A k \in {"terrain_type", "movement_cost", "assault_modifier", "ranged_modifier",
                     "block_los"} : k \in DOMAIN w /\ w[k] = t[k],
           Get(w, "hex_color", None) = t.hex_color
    PROVE  TerrainFromWire(w) = [k \in TerrainKeys |-> t[k]]
<1>1. /\ w.terrain_type = t.terrain_type /\ w.movement_cost = t.movement_cost
      /\ Get(w, "assault_modifier", 0) = t.assault_modifier
      /\ Get(w, "ranged_modifier", 0) = t.ranged_modifier
      /\ Get(w, "block_los", TRUE) = t.block_los
  BY DEF Get
<1>2. TerrainFromWire(w) =
        [terrain_type |-> t.terrain_type, movement_cost |-> t.movement_cost,
         hex_color |-> t.hex_color, assault_modifier |-> t.assault_modifier,
         ranged_modifier |-> t.ranged_modifier, block_los |-> t.block_los]
  BY <1>1 DEF TerrainFromWire
<1>3. \A k \in TerrainKeys : TerrainFromWire(w)[k] = t[k]
  BY <1>2 DEF TerrainKeys
<1>4. HasFields(TerrainFromWire(w), TerrainKeys)
  BY <1>2 DEF TerrainKeys, HasFields
<1> QED
  BY <1>3, <1>4 DEF HasFields

LEMMA TerrainOfWire ==
    ASSUME NEW t
    PROVE  TerrainFromWire(TerrainWire(t)) = [k \in TerrainKeys |-> t[k]]
<1> DEFINE w == TerrainWire(t)
<1>1. \A k \in {"terrain_type", "movement_cost", "assault_modifier", "ranged_modifier",
                "block_los"} : k \in DOMAIN w /\ w[k] = t[k]
  BY DEF TerrainWire, Kept, Filled, With
<1>2. Get(w, "hex_color", None) = t.hex_color
  BY DEF TerrainWire, Kept, Filled, With, Get
<1> QED
  BY <1>1, <1>2, TerrainReads

LEMMA LocationOfWire ==
    ASSUME NEW loc, NEW p, IsLocation(loc, p)
    PROVE  LET w == LocationWire(loc)
           IN /\ ParseHex(w.position) = p
              /\ TerrainFromWire(w) = [k \in TerrainKeys |-> loc[k]]
<1> DEFINE w == LocationWire(loc)
<1>1. \A k \in {"terrain_type", "movement_cost", "assault_modifier", "ranged_modifier",
                "block_los"} : k \in DOMAIN w /\ w[k] = loc[k]
  BY DEF LocationWire, TerrainWire, Kept, Filled, With
<1>2. Get(w, "hex_color", None) = loc.hex_color
  BY DEF LocationWire, TerrainWire, Kept, Filled, With, Get
<1>3. w.position = HexWire(loc.position)
  BY DEF LocationWire, With
<1>4. ParseHex(w.position) = p
  BY <1>3, HexReads DEF IsLocation
<1> QED
  BY <1>1, <1>2, <1>4, TerrainReads

\* A list of locations is read as the dict it was written from: no two of them have the
\* same hex.
LEMMA LocationsRead ==
    ASSUME NEW locations, HasFields(locations, DOMAIN locations),
           \A p \in DOMAIN locations : IsLocation(locations[p], p)
    PROVE  LocationsFromWire({LocationWire(locations[p]) : p \in DOMAIN locations}) = locations
<1> DEFINE rows == {LocationWire(locations[p]) : p \in DOMAIN locations}
           read == LocationsFromWire(rows)
<1>1. \A p \in DOMAIN locations :
        LET w == LocationWire(locations[p])
        IN /\ ParseHex(w.position) = p
           /\ TerrainFromWire(w) = [k \in TerrainKeys |-> locations[p][k]]
  BY LocationOfWire
<1>2. {ParseHex(w.position) : w \in rows} = DOMAIN locations
  <2>1. \A p \in DOMAIN locations :
            LocationWire(locations[p]) \in rows /\ ParseHex(LocationWire(locations[p]).position) = p
    BY <1>1
  <2>2. \A w \in rows : \E p \in DOMAIN locations : w = LocationWire(locations[p])
    OBVIOUS
  <2>3. \A w \in rows : ParseHex(w.position) \in DOMAIN locations
    BY <2>1, <2>2
  <2> HIDE DEF rows
  <2> QED
    BY <2>1, <2>3
<1>3. ASSUME NEW p \in DOMAIN locations
      PROVE  LocationAt(rows, p) = LocationWire(locations[p])
  <2>1. LocationWire(locations[p]) \in rows /\ ParseHex(LocationWire(locations[p]).position) = p
    BY <1>1
  <2>2. LocationAt(rows, p) \in rows /\ ParseHex(LocationAt(rows, p).position) = p
    BY <2>1 DEF LocationAt
  <2>3. PICK q \in DOMAIN locations : LocationAt(rows, p) = LocationWire(locations[q])
    BY <2>2
  <2>4. q = p
    BY <2>2, <2>3, <1>1
  <2> QED
    BY <2>3, <2>4
<1>4. ASSUME NEW p \in DOMAIN locations
      PROVE  read[p] = locations[p]
  <2> DEFINE t == TerrainFromWire(LocationAt(rows, p))
             loc == locations[p]
  <2>1. t = [k \in TerrainKeys |-> loc[k]]
    BY <1>1, <1>3
  <2>2. /\ t.terrain_type = loc.terrain_type /\ t.movement_cost = loc.movement_cost
        /\ t.hex_color = loc.hex_color /\ t.assault_modifier = loc.assault_modifier
        /\ t.ranged_modifier = loc.ranged_modifier /\ t.block_los = loc.block_los
    BY <2>1 DEF TerrainKeys
  <2>3. IsLocation(loc, p)
    OBVIOUS
  <2>4. read[p] = [position |-> p, terrain_type |-> t.terrain_type,
                   movement_cost |-> t.movement_cost, hex_color |-> t.hex_color,
                   assault_modifier |-> t.assault_modifier,
                   ranged_modifier |-> t.ranged_modifier, block_los |-> t.block_los]
    BY <1>2 DEF LocationsFromWire
  <2> HIDE DEF t, loc, read
  <2>5. read[p] = [position |-> loc.position, terrain_type |-> loc.terrain_type,
                   movement_cost |-> loc.movement_cost, hex_color |-> loc.hex_color,
                   assault_modifier |-> loc.assault_modifier,
                   ranged_modifier |-> loc.ranged_modifier, block_los |-> loc.block_los]
    BY <2>2, <2>3, <2>4 DEF IsLocation
  <2>6. read[p] = loc
    BY <2>3, <2>5 DEF IsLocation, HasFields, TerrainKeys
  <2> QED
    BY <2>6 DEF loc
<1>5. read = [p \in DOMAIN locations |-> read[p]]
  BY <1>2 DEF LocationsFromWire
<1> HIDE DEF read, rows
<1> QED
  BY <1>4, <1>5 DEF HasFields, read, rows

LEMMA EdgeKeyReads ==
    ASSUME NEW e, e = <<e[1], e[2]>>, IsHex(e[1]), IsHex(e[2]), ~HexLess(e[2], e[1])
    PROVE  EdgeKey(ParseHex(EdgeKeyWire(e).hex_low), ParseHex(EdgeKeyWire(e).hex_high)) = e
<1>1. /\ ParseHex(EdgeKeyWire(e).hex_low) = e[1]
      /\ ParseHex(EdgeKeyWire(e).hex_high) = e[2]
  BY HexReads DEF EdgeKeyWire
<1> QED
  BY <1>1 DEF EdgeKey

LEMMA EdgeFeatureReads ==
    ASSUME NEW f, IsEdgeFeature(f)
    PROVE  EdgeFeatureFromWire(EdgeFeatureWire(f)) = f
<1> DEFINE w == EdgeFeatureWire(f)
<1>1. w.edge_key = EdgeKeyWire(f.edge_key) /\ w.feature_id = f.feature_id /\ w.tags = f.tags
  BY DEF EdgeFeatureWire, Kept, Filled, With
<1>2. /\ Get(w, "stroke_width", None) = f.stroke_width
      /\ Get(w, "stroke_color", None) = f.stroke_color
  BY DEF EdgeFeatureWire, Kept, Filled, With, Get, StyleKeys
<1>3. /\ Get(w, "stroke_dash", None) = f.stroke_dash
      /\ Get(w, "layer_z", None) = f.layer_z
  BY DEF EdgeFeatureWire, Kept, Filled, With, Get, StyleKeys
<1>4. EdgeKey(ParseHex(w.edge_key.hex_low), ParseHex(w.edge_key.hex_high)) = f.edge_key
  BY <1>1, EdgeKeyReads DEF IsEdgeFeature
<1> HIDE DEF w
<1>5. EdgeFeatureFromWire(w) =
        [feature_id |-> f.feature_id, edge_key |-> f.edge_key, tags |-> f.tags,
         stroke_width |-> f.stroke_width, stroke_color |-> f.stroke_color,
         stroke_dash |-> f.stroke_dash, layer_z |-> f.layer_z]
  BY <1>1, <1>2, <1>3, <1>4 DEF EdgeFeatureFromWire
<1>6. EdgeFeatureFromWire(w) = f
  BY <1>5 DEF IsEdgeFeature, HasFields, StyleKeys
<1> QED
  BY <1>6 DEF w

LEMMA LinearFeatureReads ==
    ASSUME NEW f, IsLinearFeature(f)
    PROVE  LinearFeatureFromWire(LinearFeatureWire(f)) = f
<1> DEFINE w == LinearFeatureWire(f)
<1>1. /\ w.path = [n \in DOMAIN f.path |-> HexWire(f.path[n])]
      /\ w.feature_id = f.feature_id /\ w.tags = f.tags
  BY DEF LinearFeatureWire, Kept, Filled, With
<1>2. /\ Get(w, "stroke_width", None) = f.stroke_width
      /\ Get(w, "stroke_color", None) = f.stroke_color
  BY DEF LinearFeatureWire, Kept, Filled, With, Get, StyleKeys
<1>3. /\ Get(w, "stroke_dash", None) = f.stroke_dash
      /\ Get(w, "layer_z", None) = f.layer_z
  BY DEF LinearFeatureWire, Kept, Filled, With, Get, StyleKeys
<1>4. [n \in DOMAIN w.path |-> ParseHex(w.path[n])] = f.path
  <2>1. \A n \in DOMAIN f.path : ParseHex(HexWire(f.path[n])) = f.path[n]
    BY HexReads DEF IsLinearFeature
  <2> QED
    BY <1>1, <2>1 DEF IsLinearFeature, HasFields
<1> HIDE DEF w
<1>5. LinearFeatureFromWire(w) =
        [feature_id |-> f.feature_id, path |-> f.path, tags |-> f.tags,
         stroke_width |-> f.stroke_width, stroke_color |-> f.stroke_color,
         stroke_dash |-> f.stroke_dash, layer_z |-> f.layer_z]
  BY <1>1, <1>2, <1>3, <1>4 DEF LinearFeatureFromWire
<1>6. LinearFeatureFromWire(w) = f
  BY <1>5 DEF IsLinearFeature, HasFields, StyleKeys
<1> QED
  BY <1>6 DEF w

-----------------------------------------------------------------------------

IsBoard(b) ==
    /\ HasFields(b, {"units", "locations", "unset_defaults", "edge_features", "linear_features",
                     "linear_movement_by_tag", "edge_movement_extra_by_tag",
                     "edge_line_of_sight_by_tag"})
    /\ HasFields(b.units, DOMAIN b.units)
    /\ \A u \in DOMAIN b.units : IsUnit(b.units[u])
    /\ HasFields(b.locations, DOMAIN b.locations)
    /\ \A p \in DOMAIN b.locations : IsLocation(b.locations[p], p)
    /\ b.unset_defaults # None => HasFields(b.unset_defaults, TerrainKeys)
    /\ HasFields(b.edge_features, DOMAIN b.edge_features)
    /\ \A n \in DOMAIN b.edge_features : IsEdgeFeature(b.edge_features[n])
    /\ HasFields(b.linear_features, DOMAIN b.linear_features)
    /\ \A n \in DOMAIN b.linear_features : IsLinearFeature(b.linear_features[n])

IsTurn(t) ==
    /\ HasFields(t, {"current_faction", "current_phase", "phase_actions_remaining", "turn_number",
                     "schedule_index", "global_tick"})
    /\ t.current_faction # "" /\ t.current_phase # ""

\* A state the server can hold: nothing is said of the values its fields have.
IsState(s) ==
    /\ HasFields(s, {"board", "turn", "session_state", "engine_state", "session_state_key",
                     "rng_log"})
    /\ IsBoard(s.board)
    /\ IsTurn(s.turn)

LEMMA BoardReads ==
    ASSUME NEW b, IsBoard(b)
    PROVE  BoardFromWire(BoardWire(b)) = b
<1> DEFINE w == BoardWire(b)
           edges == Get(w, "edge_features", <<>>)
           lines == Get(w, "linear_features", <<>>)
<1>1. /\ w.units = [u \in DOMAIN b.units |-> UnitWire(b.units[u])]
      /\ w.locations = {LocationWire(b.locations[p]) : p \in DOMAIN b.locations}
  BY DEF BoardWire, With
<1>2. Get(w, "linear_movement", Nothing) = b.linear_movement_by_tag
  BY DEF BoardWire, With, Get
<1>3. Get(w, "edge_movement_extra", Nothing) = b.edge_movement_extra_by_tag
  BY DEF BoardWire, With, When, Get
<1>4. Get(w, "edge_line_of_sight", Nothing) = b.edge_line_of_sight_by_tag
  BY DEF BoardWire, With, When, Get
<1>5. /\ "unset_defaults" \in DOMAIN w <=> b.unset_defaults # None
      /\ b.unset_defaults # None => w.unset_defaults = TerrainWire(b.unset_defaults)
  <2>1. CASE b.unset_defaults = None
    BY <2>1 DEF BoardWire, With, When
  <2>2. CASE b.unset_defaults # None
    BY <2>2 DEF BoardWire, With, When
  <2> QED
    BY <2>1, <2>2
<1>6. edges = IF b.edge_features # <<>>
              THEN [n \in DOMAIN b.edge_features |-> EdgeFeatureWire(b.edge_features[n])]
              ELSE <<>>
  BY DEF BoardWire, With, When, Get
<1>7. lines = IF b.linear_features # <<>>
              THEN [n \in DOMAIN b.linear_features |-> LinearFeatureWire(b.linear_features[n])]
              ELSE <<>>
  BY DEF BoardWire, With, When, Get
<1> HIDE DEF w, edges, lines
<1>8. [u \in DOMAIN w.units |-> UnitFromWire(w.units[u])] = b.units
  <2>1. \A u \in DOMAIN b.units : UnitFromWire(UnitWire(b.units[u])) = b.units[u]
    BY UnitReads DEF IsBoard
  <2> QED
    BY <1>1, <2>1 DEF IsBoard, HasFields
<1>9. LocationsFromWire(w.locations) = b.locations
  BY <1>1, LocationsRead DEF IsBoard
<1>10. (IF "unset_defaults" \in DOMAIN w THEN TerrainFromWire(w.unset_defaults) ELSE None)
          = b.unset_defaults
  BY <1>5, TerrainOfWire DEF IsBoard, HasFields
<1>11. [n \in DOMAIN edges |-> EdgeFeatureFromWire(edges[n])] = b.edge_features
  <2>1. \A n \in DOMAIN b.edge_features :
            EdgeFeatureFromWire(EdgeFeatureWire(b.edge_features[n])) = b.edge_features[n]
    BY EdgeFeatureReads DEF IsBoard
  <2>2. DOMAIN <<>> = {}
    OBVIOUS
  <2>3. DOMAIN edges = DOMAIN b.edge_features
    BY <1>6, <2>2
  <2>4. \A n \in DOMAIN edges : EdgeFeatureFromWire(edges[n]) = b.edge_features[n]
    BY <1>6, <2>1, <2>2, <2>3
  <2> QED
    BY <2>3, <2>4 DEF IsBoard, HasFields
<1>12. [n \in DOMAIN lines |-> LinearFeatureFromWire(lines[n])] = b.linear_features
  <2>1. \A n \in DOMAIN b.linear_features :
            LinearFeatureFromWire(LinearFeatureWire(b.linear_features[n])) = b.linear_features[n]
    BY LinearFeatureReads DEF IsBoard
  <2>2. DOMAIN <<>> = {}
    OBVIOUS
  <2>3. DOMAIN lines = DOMAIN b.linear_features
    BY <1>7, <2>2
  <2>4. \A n \in DOMAIN lines : LinearFeatureFromWire(lines[n]) = b.linear_features[n]
    BY <1>7, <2>1, <2>2, <2>3
  <2> QED
    BY <2>3, <2>4 DEF IsBoard, HasFields
<1>13. BoardFromWire(w) =
        [units |-> b.units, locations |-> b.locations, unset_defaults |-> b.unset_defaults,
         edge_features |-> b.edge_features, linear_features |-> b.linear_features,
         linear_movement_by_tag |-> b.linear_movement_by_tag,
         edge_movement_extra_by_tag |-> b.edge_movement_extra_by_tag,
         edge_line_of_sight_by_tag |-> b.edge_line_of_sight_by_tag]
  BY <1>2, <1>3, <1>4, <1>8, <1>9, <1>10, <1>11, <1>12 DEF BoardFromWire, edges, lines
<1>14. BoardFromWire(w) = b
  BY <1>13 DEF IsBoard, HasFields
<1> QED
  BY <1>14 DEF w

LEMMA TurnReads ==
    ASSUME NEW t, IsTurn(t)
    PROVE  TurnRequired \subseteq DOMAIN t /\ TurnFromWire(t) = t
<1>1. /\ Get(t, "turn_number", 1) = t.turn_number
      /\ Get(t, "schedule_index", 0) = t.schedule_index
      /\ Get(t, "global_tick", 0) = t.global_tick
  BY DEF IsTurn, HasFields, Get
<1>2. TurnRequired \subseteq DOMAIN t
  BY DEF IsTurn, HasFields, TurnRequired
<1>3. TurnFromWire(t) =
        [current_faction |-> t.current_faction, current_phase |-> t.current_phase,
         phase_actions_remaining |-> t.phase_actions_remaining, turn_number |-> t.turn_number,
         schedule_index |-> t.schedule_index, global_tick |-> t.global_tick]
  BY <1>1 DEF TurnFromWire
<1>4. TurnFromWire(t) = t
  BY <1>3 DEF IsTurn, HasFields
<1> QED
  BY <1>2, <1>4

(***************************************************************************)
(* Whatever state is sent to a client or saved (snapshot.py:29), reading   *)
(* it back (snapshot.py:164) raises no error and gives the same state.     *)
(***************************************************************************)
THEOREM StateReads ==
    ASSUME NEW s, IsState(s)
    PROVE  IsReadable(ToWire(s)) /\ FromWire(ToWire(s)) = s
<1> DEFINE w == ToWire(s)
<1>1. "turn" \in DOMAIN w /\ w.board = BoardWire(s.board) /\ w.turn = s.turn
  BY DEF ToWire, With
<1>2. /\ Get(w, "session_state", Nothing) = s.session_state
      /\ Get(w, "engine_state", Nothing) = s.engine_state
  BY DEF ToWire, With, When, Filled, Get
<1>3. /\ Get(w, "session_state_key", None) = s.session_state_key
      /\ Get(w, "rng_log", <<>>) = s.rng_log
  BY DEF ToWire, With, When, Filled, Get
<1> HIDE DEF w
<1>4. BoardFromWire(w.board) = s.board
  BY <1>1, BoardReads DEF IsState
<1>5. TurnRequired \subseteq DOMAIN w.turn /\ TurnFromWire(w.turn) = s.turn
  BY <1>1, TurnReads DEF IsState
<1>6. \A n \in DOMAIN s.board.linear_features : PathIsLinear(s.board.linear_features[n].path)
  BY DEF IsState, IsBoard, IsLinearFeature
<1>7. IsReadable(w)
  BY <1>1, <1>4, <1>5, <1>6 DEF IsReadable, IsState, IsTurn
<1>8. FromWire(w) = [board |-> s.board, turn |-> s.turn, session_state |-> s.session_state,
                     engine_state |-> s.engine_state,
                     session_state_key |-> s.session_state_key, rng_log |-> s.rng_log]
  BY <1>2, <1>3, <1>4, <1>5, <1>7 DEF FromWire
<1>9. FromWire(w) = s
  BY <1>8 DEF IsState, HasFields
<1> QED
  BY <1>7, <1>9 DEF w

-----------------------------------------------------------------------------
(* Files: the units that are read. *)

\* Two numbers behind the token of a row make two ids.
NumberTells(prefix) == \A m, n \in Nat : AutoId(prefix, m) = AutoId(prefix, n) => m = n

NumbersTell(f) ==
    \A n \in DOMAIN UnitEntries(f) :
        UnitEntries(f)[n].prefix # None => NumberTells(UnitIdToken(UnitEntries(f)[n].prefix))

Concat(x, acc, s) == acc \o s
Joining == INSTANCE Folding WITH op <- Concat

Reads(x, acc, entry) == ReadUnit(acc, entry)
Reading == INSTANCE Folding WITH op <- Reads

Puts(x, units, row) == PlaceUnit(units, row)
Placing == INSTANCE Folding WITH op <- Puts

LEMMA SequenceFlattens ==
    ASSUME NEW S, NEW seqs, NEW n \in Nat, DOMAIN seqs = 1..n,
           \A i \in 1..n : seqs[i] \in Seq(S), n = 0 => seqs = <<>>
    PROVE  FlattenSeq(seqs) \in Seq(S)
<1>1. Len(seqs) = n
  OBVIOUS
<1>2. CASE n = 0
  BY <1>1, <1>2 DEF FlattenSeq
<1>3. CASE n # 0
  <2> DEFINE base == <<>>
             Flat(f) == f = [i \in 1..n |-> IF i = 1 THEN seqs[i] ELSE f[i - 1] \o seqs[i]]
             flat == CHOOSE f : Flat(f)
  <2>1. FlattenSeq(seqs) = flat[n]
    BY <1>1, <1>3 DEF FlattenSeq
  <2> HIDE DEF base
  <2>2. Joining!RunsThrough(None, base, seqs, n)
    BY Joining!Unrolled
  <2>3. PICK g : /\ g[0] = base
                 /\ \A k \in 0..(n - 1) : g[k + 1] = Concat(None, g[k], seqs[k + 1])
    BY <2>2, Zenon DEF Joining!RunsThrough
  <2> DEFINE T == {k \in 0..n : g[k] \in Seq(S)}
  <2>4. 0 \in T
    <3>1. 0 \in 0..n /\ <<>> \in Seq(S)
      OBVIOUS
    <3>2. g[0] = <<>>
      BY <2>3 DEF base
    <3> QED BY <3>1, <3>2
  <2>5. ASSUME NEW k \in 0..(n - 1), k \in T PROVE k + 1 \in T
    <3>1. k + 1 \in 1..n /\ k + 1 \in 0..n
      OBVIOUS
    <3>2. g[k] \in Seq(S) /\ seqs[k + 1] \in Seq(S)
      BY <2>5, <3>1
    <3>3. g[k + 1] = g[k] \o seqs[k + 1]
      BY <2>3 DEF Concat
    <3>4. g[k + 1] \in Seq(S)
      <4> HIDE DEF T
      <4> QED BY <3>2, <3>3
    <3> QED BY <3>1, <3>4
  <2> HIDE DEF T
  <2>6. 0..n \subseteq T
    BY <2>4, <2>5, Joining!BoundedInduction
  <2>7. \A k \in 0..n : g[k] \in Seq(S)
    BY <2>6 DEF T
  <2> DEFINE h == [i \in 1..n |-> g[i]]
  <2>8. ASSUME NEW i \in 1..n
        PROVE  h[i] = IF i = 1 THEN seqs[i] ELSE h[i - 1] \o seqs[i]
    <3>1. i - 1 \in 0..(n - 1) /\ (i - 1) + 1 = i /\ (i # 1 => i - 1 \in 1..n)
      OBVIOUS
    <3>2. g[i] = g[i - 1] \o seqs[i]
      BY <2>3, <3>1 DEF Concat
    <3>3. CASE i = 1
      <4>1. g[i] = <<>> \o seqs[i] /\ seqs[i] \in Seq(S)
        BY <2>3, <3>2, <3>3 DEF base
      <4>2. <<>> \o seqs[i] = seqs[i]
        BY <4>1
      <4> QED BY <3>3, <4>1, <4>2
    <3>4. CASE i # 1
      BY <3>1, <3>2, <3>4
    <3> QED BY <3>3, <3>4
  <2>9. Flat(h)
    BY <2>8
  <2> HIDE DEF Flat, h
  <2>10. Flat(flat)
    BY <2>9, Zenon
  <2> DEFINE U == {k \in 0..n : k = 0 \/ flat[k] \in Seq(S)}
  <2>11. ASSUME NEW k \in 0..(n - 1), k \in U PROVE k + 1 \in U
    <3>1. k + 1 \in 1..n /\ k + 1 \in 0..n /\ (k + 1) - 1 = k /\ (k + 1 = 1 <=> k = 0)
      OBVIOUS
    <3>2. flat[k + 1] = IF k + 1 = 1 THEN seqs[k + 1] ELSE flat[(k + 1) - 1] \o seqs[k + 1]
      BY <2>10, <3>1 DEF Flat
    <3>3. seqs[k + 1] \in Seq(S) /\ (k = 0 \/ flat[k] \in Seq(S))
      BY <2>11, <3>1
    <3>4. flat[k + 1] \in Seq(S)
      <4> HIDE DEF flat, U
      <4>1. CASE k = 0
        BY <3>1, <3>2, <3>3, <4>1
      <4>2. CASE k # 0
        <5>1. flat[k + 1] = flat[k] \o seqs[k + 1] /\ flat[k] \in Seq(S)
          BY <3>1, <3>2, <3>3, <4>2
        <5> QED BY <3>3, <5>1
      <4> QED BY <4>1, <4>2
    <3> QED BY <3>1, <3>4
  <2> HIDE DEF U
  <2>12. 0..n \subseteq U
    <3>1. 0 \in U
      BY DEF U
    <3> QED BY <2>11, <3>1, Joining!BoundedInduction
  <2> QED BY <1>3, <2>1, <2>12 DEF U
<1> QED BY <1>2, <1>3

LEMMA FunctionIsSequence ==
    ASSUME NEW S, NEW n \in Nat, NEW s \in [1..n -> S]
    PROVE  s \in Seq(S)
OBVIOUS

\* The entries of a file are a sequence.
LEMMA EntriesAreListed ==
    ASSUME NEW f, IsFile(f), UnitsAreSound(f)
    PROVE  \E n \in Nat : DOMAIN UnitEntries(f) = 1..n /\ Len(UnitEntries(f)) = n
<1> DEFINE units == f.units
           groups == f.unit_placements
           own == [n \in DOMAIN units |-> [row |-> units[n], prefix |-> None]]
           rows == [n \in DOMAIN groups |-> PlacementRows(f, groups[n])]
           S == UNION {Range(rows[n]) : n \in DOMAIN groups}
<1>1. /\ Len(units) \in Nat /\ DOMAIN units = 1..Len(units)
      /\ Len(groups) \in Nat /\ DOMAIN groups = 1..Len(groups)
  BY DEF IsFile, IsList
<1>2. own \in Seq(Range(own))
  BY <1>1 DEF Range
<1>3. ASSUME NEW n \in 1..Len(groups)
      PROVE  rows[n] \in Seq(S)
  <2> DEFINE g == groups[n]
  <2>1. groups[n] \in Range(groups)
    BY <1>1 DEF Range
  <2>2. "positions" \in DOMAIN g
    BY <2>1 DEF UnitsAreSound, PlacementIsSound
  <2>3. IsList(g.positions)
    BY <1>1, <2>2 DEF IsFile, PositionsAreList
  <2>4. Len(g.positions) \in Nat /\ DOMAIN g.positions = 1..Len(g.positions)
    BY <2>3 DEF IsList
  <2>5. rows[n] = PlacementRows(f, g)
    BY <1>1
  <2>6. rows[n] = [m \in 1..Len(g.positions) |-> PlacementRow(f, g, g.positions[m])]
    BY <2>4, <2>5 DEF PlacementRows
  <2>7. Range(rows[n]) \subseteq S
    BY <1>1
  <2> HIDE DEF rows, S, g
  <2>8. \A m \in 1..Len(g.positions) : rows[n][m] \in Range(rows[n])
    BY <2>6 DEF Range
  <2>9. rows[n] \in [1..Len(g.positions) -> S]
    BY <2>6, <2>7, <2>8
  <2> QED BY <2>4, <2>9, FunctionIsSequence
<1> HIDE DEF S
<1>4. DOMAIN rows = 1..Len(groups) /\ (Len(groups) = 0 => rows = <<>>)
  BY <1>1
<1>5. UnitEntries(f) = own \o FlattenSeq(rows)
  BY DEF UnitEntries
<1> HIDE DEF rows
<1>6. FlattenSeq(rows) \in Seq(S)
  BY <1>1, <1>3, <1>4, SequenceFlattens
<1> HIDE DEF own
<1>7. /\ Len(own \o FlattenSeq(rows)) \in Nat
      /\ DOMAIN (own \o FlattenSeq(rows)) = 1..Len(own \o FlattenSeq(rows))
  <2>1. own \o FlattenSeq(rows) \in Seq(Range(own) \cup S)
    BY <1>2, <1>6
  <2> QED BY <2>1
<1> QED BY <1>5, <1>7

-----------------------------------------------------------------------------
(* Reading the rows *)

\* A number is found whose id is free.
LEMMA NumberIsFree ==
    ASSUME NEW acc, NEW prefix, IsFiniteSet(acc.used), Get(acc.counters, prefix, 0) \in Nat,
           NumberTells(prefix)
    PROVE  /\ NextNumber(acc, prefix) \in Nat
           /\ AutoId(prefix, NextNumber(acc, prefix)) \notin acc.used
<1> DEFINE c == Get(acc.counters, prefix, 0)
           u == Cardinality(acc.used)
           tried == (c + 1)..(c + u + 1)
           free == {n \in tried : AutoId(prefix, n) \notin acc.used}
<1>1. c \in Nat /\ u \in Nat
  BY FS_CardinalityType
<1>2. NextNumber(acc, prefix) = Min(free)
  BY DEF NextNumber
<1>3. IsFiniteSet(tried) /\ Cardinality(tried) = u + 1 /\ tried \subseteq Nat
  <2> HIDE DEF c, u
  <2>1. c + 1 \in Int /\ c + u + 1 \in Int /\ ~(c + 1 > c + u + 1)
        /\ (c + u + 1) - (c + 1) + 1 = u + 1
    BY <1>1
  <2> QED BY <1>1, <2>1, FS_Interval
<1> HIDE DEF tried
<1>4. free # {}
  <2> SUFFICES ASSUME free = {} PROVE FALSE
    OBVIOUS
  <2> DEFINE name == [n \in tried |-> AutoId(prefix, n)]
  <2>1. name \in [tried -> acc.used]
    OBVIOUS
  <2>2. u < Cardinality(tried)
    BY <1>1, <1>3
  <2> HIDE DEF name
  <2>3. \E m, n \in tried : m # n /\ name[m] = name[n]
    <3>1. IsFiniteSet(tried) /\ IsFiniteSet(acc.used) /\ Cardinality(acc.used) < Cardinality(tried)
      BY <1>3, <2>2
    <3> QED BY ONLY <2>1, <3>1, FS_PigeonHole
  <2>4. PICK m, n \in tried : m # n /\ name[m] = name[n]
    BY <2>3
  <2>5. AutoId(prefix, m) = AutoId(prefix, n) /\ m \in Nat /\ n \in Nat
    BY <1>3, <2>4 DEF name
  <2> QED BY <2>4, <2>5 DEF NumberTells
<1>5. free \in SUBSET Nat
  BY <1>3
<1> HIDE DEF free
<1>6. \E m \in free : \A k \in free : m <= k
  BY <1>4, <1>5, Reading!LeastNumber
<1>7. Min(free) \in free
  BY <1>6 DEF Min
<1> QED BY <1>2, <1>5, <1>7 DEF free

\* What is known after k rows.
HasRead(acc, k) ==
    /\ IsList(acc.units) /\ Len(acc.units) = k
    /\ \A n \in 1..k : acc.units[n].id \in acc.used
    /\ \A m, n \in 1..k : m < n => acc.units[m].id # acc.units[n].id
    /\ IsFiniteSet(acc.used)
    /\ \A p \in DOMAIN acc.counters : acc.counters[p] \in Nat

\* One more row is one more unit, whose id is new.
LEMMA ReadsOneMore ==
    ASSUME NEW k \in Nat, NEW acc, HasRead(acc, k), NEW entry,
           entry.prefix # None => NumberTells(UnitIdToken(entry.prefix)), ReadUnit(acc, entry) # None
    PROVE  HasRead(ReadUnit(acc, entry), k + 1)
<1> DEFINE given == "id" \in DOMAIN entry.row
           token == UnitIdToken(entry.prefix)
           number == NextNumber(acc, token)
           id == IF given THEN entry.row.id ELSE AutoId(token, number)
           unit == ParseRow(UnitRequired, UnitDefaults, With([id |-> id], entry.row))
           next == ReadUnit(acc, entry)
           counters == IF given THEN acc.counters
                       ELSE With([p \in {token} |-> number], acc.counters)
<1>1. /\ unit # None /\ IdIsFree(acc, entry) /\ ~(entry.prefix = None /\ ~given)
      /\ next = [units |-> Append(acc.units, unit), used |-> acc.used \cup {id},
                 counters |-> counters]
  BY DEF ReadUnit
<1>2. unit.id = id
  <2> HIDE DEF id
  <2>1. "id" \in DOMAIN With([id |-> id], entry.row) /\ With([id |-> id], entry.row).id = id
    BY DEF With
  <2>2. "id" \in UnitRequired
    BY DEF UnitRequired
  <2> QED BY <1>1, <2>1, <2>2 DEF ParseRow
<1>3. ~given => /\ number \in Nat /\ AutoId(token, number) \notin acc.used
  <2> SUFFICES ASSUME ~given PROVE number \in Nat /\ AutoId(token, number) \notin acc.used
    OBVIOUS
  <2>1. NumberTells(token)
    BY <1>1
  <2>2. IsFiniteSet(acc.used) /\ Get(acc.counters, token, 0) \in Nat
    BY DEF HasRead, Get
  <2> QED BY <2>1, <2>2, NumberIsFree
<1>4. id \notin acc.used
  BY <1>1, <1>3 DEF IdIsFree
<1>5. \A p \in DOMAIN counters : counters[p] \in Nat
  <2> HIDE DEF number
  <2>1. \A p \in DOMAIN acc.counters : acc.counters[p] \in Nat
    BY DEF HasRead
  <2>2. CASE given
    BY <2>1, <2>2
  <2>3. CASE ~given
    BY <1>3, <2>1, <2>3 DEF With
  <2> QED BY <2>2, <2>3
<1> HIDE DEF id, unit, counters, given, number, next
<1>6. IsFiniteSet(acc.used \cup {id})
  BY FS_AddElement DEF HasRead
<1> DEFINE units == Append(acc.units, unit)
<1>7. /\ IsList(units) /\ Len(units) = k + 1 /\ units[k + 1] = unit
      /\ \A n \in 1..k : units[n] = acc.units[n]
  <2>1. acc.units \in Seq(Range(acc.units)) /\ Len(acc.units) = k
    BY DEF HasRead, IsList
  <2>2. /\ Len(units) = k + 1 /\ DOMAIN units = 1..(k + 1) /\ units[k + 1] = unit
        /\ \A n \in 1..k : units[n] = acc.units[n]
        /\ units = [n \in 1..(k + 1) |-> units[n]]
    BY <2>1
  <2> HIDE DEF units
  <2>3. \A n \in 1..(k + 1) : units[n] \in Range(units)
    BY <2>2 DEF Range
  <2>4. units \in [1..(k + 1) -> Range(units)]
    BY <2>2, <2>3
  <2>5. units \in Seq(Range(units))
    BY <2>4, FunctionIsSequence
  <2> QED BY <2>2, <2>5 DEF IsList
<1>8. next.units = units /\ next.used = acc.used \cup {id} /\ next.counters = counters
  BY <1>1
<1> HIDE DEF units
<1>9. \A n \in 1..(k + 1) : units[n].id \in acc.used \cup {id}
  BY <1>2, <1>7 DEF HasRead
<1>10. ASSUME NEW m \in 1..(k + 1), NEW n \in 1..(k + 1), m < n
       PROVE  units[m].id # units[n].id
  <2>1. m \in 1..k /\ units[m] = acc.units[m] /\ acc.units[m].id \in acc.used
    BY <1>7, <1>10 DEF HasRead
  <2>2. CASE n \in 1..k
    BY <1>7, <1>10, <2>1, <2>2 DEF HasRead
  <2>3. CASE n = k + 1
    BY <1>2, <1>4, <1>7, <2>1, <2>3
  <2> QED BY <2>2, <2>3
<1> QED BY <1>5, <1>6, <1>7, <1>8, <1>9, <1>10 DEF HasRead, next

FirstRead == [units |-> <<>>, used |-> {}, counters |-> [p \in {} |-> 0]]

\* A file that is read has one unit for each of its entries, each with an id of its own.
LEMMA UnitsHaveOwnIds ==
    ASSUME NEW f, IsFile(f), NumbersTell(f), Units(f) # None
    PROVE  /\ IsList(Units(f)) /\ Len(Units(f)) = Len(UnitEntries(f))
           /\ \A m, n \in DOMAIN Units(f) : m < n => Units(f)[m].id # Units(f)[n].id
<1> DEFINE entries == UnitEntries(f)
           read == FoldLeft(ReadUnit, FirstRead, entries)
<1>1. UnitsAreSound(f) /\ read # None /\ Units(f) = read.units
  BY DEF Units, FirstRead
<1>2. PICK n \in Nat : DOMAIN entries = 1..n /\ Len(entries) = n
  BY <1>1, EntriesAreListed
<1>3. \A i \in 1..n : entries[i].prefix # None => NumberTells(UnitIdToken(entries[i].prefix))
  BY <1>2 DEF NumbersTell
<1> HIDE DEF entries
<1>4. read = Reading!Folded(None, FirstRead, entries)
  BY DEF FoldLeft, MapThenFoldSet, Reading!MapThenFoldSet, Reading!Folded, Max, Reading!Greatest, Reads
<1> HIDE DEF read
<1>5. Reading!RunsThrough(None, FirstRead, entries, n)
  BY <1>2, Reading!Unrolled
<1>6. PICK g : /\ g[0] = FirstRead
               /\ \A k \in 0..(n - 1) : g[k + 1] = Reads(None, g[k], entries[k + 1])
               /\ Reading!Folded(None, FirstRead, entries) = g[n]
  BY <1>5, Zenon DEF Reading!RunsThrough
<1> DEFINE Known(k) == g[k] = None \/ HasRead(g[k], k)
           T == {k \in 0..n : Known(k)}
<1>7. 0 \in T
  <2>1. HasRead(FirstRead, 0)
    BY FS_EmptySet DEF HasRead, FirstRead, IsList, Range
  <2> QED BY <1>2, <1>6, <2>1
<1>8. ASSUME NEW k \in 0..(n - 1), k \in T PROVE k + 1 \in T
  <2>1. k \in Nat /\ k + 1 \in 1..n /\ k + 1 \in 0..n
    BY <1>2
  <2>2. g[k + 1] = ReadUnit(g[k], entries[k + 1])
    BY <1>6 DEF Reads
  <2>3. Known(k)
    BY <1>8
  <2>4. g[k + 1] # None => g[k] # None
    BY <2>2 DEF ReadUnit
  <2>5. g[k + 1] # None => HasRead(g[k + 1], k + 1)
    BY <1>3, <2>1, <2>2, <2>3, <2>4, ReadsOneMore
  <2> QED BY <2>1, <2>5
<1> HIDE DEF T
<1>9. 0..n \subseteq T
  BY <1>7, <1>8, Reading!BoundedInduction
<1>10. HasRead(read, n)
  BY <1>1, <1>2, <1>4, <1>6, <1>9 DEF T
<1>11. DOMAIN read.units = 1..n
  BY <1>2, <1>10 DEF HasRead, IsList
<1> QED BY <1>1, <1>2, <1>10, <1>11 DEF HasRead, entries

\* A set of numbers that is bounded has a greatest.
LEMMA BoundedHasMax ==
    ASSUME NEW b \in Int, NEW S \in SUBSET Int, S # {}, \A i \in S : i <= b
    PROVE  Max(S) \in S /\ \A i \in S : i <= Max(S)
<1> DEFINE D == {b - i : i \in S}
<1>1. D \in SUBSET Nat /\ D # {}
  <2>1. \A i \in S : b - i \in Nat /\ b - i \in D
    <3> TAKE i \in S
    <3>1. i \in Int /\ i <= b
      OBVIOUS
    <3> QED BY <3>1
  <2> QED BY <2>1
<1>2. PICK d \in D : \A j \in D : d <= j
  BY <1>1, Placing!LeastNumber
<1>3. PICK m \in S : d = b - m
  OBVIOUS
<1>4. \A i \in S : m >= i
  <2> TAKE i \in S
  <2>1. b - i \in D
    OBVIOUS
  <2>2. d <= b - i /\ m \in Int /\ i \in Int
    BY <1>2, <2>1
  <2> QED BY <1>3, <2>2
<1>5. Max(S) \in S /\ \A i \in S : Max(S) >= i
  BY <1>4 DEF Max
<1> QED BY <1>5

\* A stack index is above those of the active units of the hex.
LEMMA StackGrows ==
    ASSUME NEW k \in Nat, NEW units, NEW p,
           \A v \in DOMAIN units : units[v].stack_index \in 0..(k - 1)
    PROVE  /\ NextStackIndex(units, p) \in 0..k
           /\ \A v \in DOMAIN units : (units[v].active /\ units[v].position = p) =>
                  units[v].stack_index < NextStackIndex(units, p)
<1> DEFINE there == {v \in DOMAIN units : units[v].active /\ units[v].position = p}
           S == {-1} \cup {units[v].stack_index : v \in there}
<1>1. NextStackIndex(units, p) = 1 + Max(S)
  BY DEF NextStackIndex
<1>2. \A i \in S : i \in Int /\ -1 <= i /\ i <= k - 1
  OBVIOUS
<1>3. \A v \in there : units[v].stack_index \in S
  OBVIOUS
<1>4. -1 \in S
  OBVIOUS
<1> HIDE DEF S
<1>5. Max(S) \in S /\ \A i \in S : i <= Max(S)
  <2>1. k - 1 \in Int /\ S \in SUBSET Int /\ S # {} /\ \A i \in S : i <= k - 1
    BY <1>2, <1>4
  <2> QED BY ONLY <2>1, BoundedHasMax
<1>6. Max(S) \in Int /\ -1 <= Max(S) /\ Max(S) <= k - 1
  BY <1>2, <1>5
<1>7. \A v \in there : units[v].stack_index \in Int /\ units[v].stack_index <= Max(S)
  BY <1>2, <1>3, <1>5
<1> DEFINE m == Max(S)
<1> HIDE DEF m
<1>8. 1 + m \in 0..k /\ \A i \in Int : i <= m => i < 1 + m
  BY <1>6 DEF m
<1> QED BY <1>1, <1>7, <1>8 DEF m

\* What is known when the first k rows are on the board.
HasPlaced(units, rows, k) ==
    /\ DOMAIN units = {rows[n].id : n \in 1..k}
    /\ \A n \in 1..k : /\ units[rows[n].id].position = AxialFromOffset(rows[n].position)
                       /\ units[rows[n].id].stack_index \in 0..(n - 1)
    /\ \A m, n \in 1..k :
          (/\ m < n /\ units[rows[m].id].position = units[rows[n].id].position
           /\ units[rows[m].id].active) =>
              units[rows[m].id].stack_index < units[rows[n].id].stack_index

\* One more row leaves the units before it as they were.
LEMMA PlacesOneMore ==
    ASSUME NEW rows, NEW k \in Nat, NEW units, HasPlaced(units, rows, k),
           \A m \in 1..k : rows[m].id # rows[k + 1].id
    PROVE  HasPlaced(PlaceUnit(units, rows[k + 1]), rows, k + 1)
<1> DEFINE row == rows[k + 1]
           p == AxialFromOffset(row.position)
           next == PlaceUnit(units, row)
           stack == NextStackIndex(units, p)
<1>1. \A v \in DOMAIN units : units[v].stack_index \in 0..(k - 1)
  <2> TAKE v \in DOMAIN units
  <2>1. PICK n \in 1..k : v = rows[n].id
    BY DEF HasPlaced
  <2>2. units[v].stack_index \in 0..(n - 1)
    BY <2>1 DEF HasPlaced
  <2> QED BY <2>2
<1>2. /\ stack \in 0..k
      /\ \A v \in DOMAIN units : (units[v].active /\ units[v].position = p) =>
              units[v].stack_index < stack
  BY <1>1, StackGrows
<1>3. /\ DOMAIN next = DOMAIN units \cup {row.id}
      /\ next[row.id].position = p /\ next[row.id].stack_index = stack
      /\ \A v \in DOMAIN units : v # row.id => next[v] = units[v]
  BY DEF PlaceUnit, With
<1> HIDE DEF next, stack, p
<1>4. ASSUME NEW n \in 1..k
      PROVE  rows[n].id \in DOMAIN units /\ rows[n].id # row.id /\ next[rows[n].id] = units[rows[n].id]
  BY <1>3 DEF HasPlaced
<1>5. DOMAIN next = {rows[n].id : n \in 1..(k + 1)}
  <2>1. 1..(k + 1) = 1..k \cup {k + 1}
    OBVIOUS
  <2> QED BY <1>3, <2>1 DEF HasPlaced
<1>6. ASSUME NEW n \in 1..(k + 1)
      PROVE  /\ next[rows[n].id].position = AxialFromOffset(rows[n].position)
             /\ next[rows[n].id].stack_index \in 0..(n - 1)
  <2>1. CASE n \in 1..k
    BY <1>4, <2>1 DEF HasPlaced
  <2>2. CASE n = k + 1
    <3>1. n - 1 = k
      BY <2>2
    <3> QED BY <1>2, <1>3, <2>2, <3>1 DEF p
  <2> QED BY <2>1, <2>2
<1>7. ASSUME NEW m \in 1..(k + 1), NEW n \in 1..(k + 1), m < n,
             next[rows[m].id].position = next[rows[n].id].position, next[rows[m].id].active
      PROVE  next[rows[m].id].stack_index < next[rows[n].id].stack_index
  <2>1. m \in 1..k
    BY <1>7
  <2>2. rows[m].id \in DOMAIN units /\ next[rows[m].id] = units[rows[m].id]
    BY <1>4, <2>1
  <2>3. CASE n \in 1..k
    <3>1. next[rows[n].id] = units[rows[n].id]
      BY <1>4, <2>3
    <3> QED BY <1>7, <2>1, <2>2, <2>3, <3>1 DEF HasPlaced
  <2>4. CASE n = k + 1
    <3>1. units[rows[m].id].position = p /\ units[rows[m].id].active
      BY <1>3, <1>7, <2>2, <2>4
    <3> QED BY <1>2, <1>3, <2>2, <2>4, <3>1
  <2> QED BY <2>3, <2>4
<1> QED BY <1>5, <1>6, <1>7 DEF HasPlaced, next

NoUnits == [u \in {} |-> None]

\* All rows are on the board when each has an id of its own.
LEMMA RowsArePlaced ==
    ASSUME NEW rows, IsList(rows),
           \A m, n \in DOMAIN rows : m < n => rows[m].id # rows[n].id
    PROVE  HasPlaced(FoldLeft(PlaceUnit, NoUnits, rows), rows, Len(rows))
<1> DEFINE placed == FoldLeft(PlaceUnit, NoUnits, rows)
           n == Len(rows)
<1>1. n \in Nat /\ DOMAIN rows = 1..n
  BY DEF IsList
<1>2. placed = Placing!Folded(None, NoUnits, rows)
  BY DEF FoldLeft, MapThenFoldSet, Placing!MapThenFoldSet, Placing!Folded, Max, Placing!Greatest, Puts
<1> HIDE DEF n, placed
<1>3. Placing!RunsThrough(None, NoUnits, rows, n)
  BY <1>1, Placing!Unrolled
<1>4. PICK g : /\ g[0] = NoUnits
               /\ \A k \in 0..(n - 1) : g[k + 1] = Puts(None, g[k], rows[k + 1])
               /\ Placing!Folded(None, NoUnits, rows) = g[n]
  BY <1>3, Zenon DEF Placing!RunsThrough
<1> DEFINE T == {k \in 0..n : HasPlaced(g[k], rows, k)}
<1>5. 0 \in T
  <2>1. 1..0 = {} /\ 0 \in 0..n
    BY <1>1
  <2>2. HasPlaced(NoUnits, rows, 0)
    BY <2>1 DEF HasPlaced, NoUnits
  <2> QED BY <1>4, <2>1, <2>2
<1>6. ASSUME NEW k \in 0..(n - 1), k \in T PROVE k + 1 \in T
  <2>1. /\ k \in Nat /\ k + 1 \in 1..n /\ k + 1 \in 0..n
        /\ \A m \in 1..k : m \in 1..n /\ m < k + 1
    BY <1>1
  <2>2. g[k + 1] = PlaceUnit(g[k], rows[k + 1])
    BY <1>4 DEF Puts
  <2>3. \A m \in 1..k : rows[m].id # rows[k + 1].id
    BY <1>1, <2>1
  <2>4. HasPlaced(g[k], rows, k)
    BY <1>6
  <2>5. HasPlaced(g[k + 1], rows, k + 1)
    BY <2>1, <2>2, <2>3, <2>4, PlacesOneMore
  <2> QED BY <2>1, <2>5
<1> HIDE DEF T
<1>7. 0..n \subseteq T
  BY <1>1, <1>5, <1>6, Placing!BoundedInduction
<1>8. HasPlaced(g[n], rows, n)
  BY <1>1, <1>7 DEF T
<1> QED BY <1>2, <1>4, <1>8 DEF placed, n

-----------------------------------------------------------------------------
(* Every file an author may write *)

\* A file of lists, whose made-up ids tell their numbers, puts all its units on the board.
LEMMA UnitsArePlaced ==
    ASSUME IsFile(file), NumbersTell(file)
    PROVE  UnitsAreAllPlaced
<1> SUFFICES ASSUME NEW s \in {InitialState(file)} \ {None}
             PROVE  LET rows == Units(file)
                        At(n) == s.board.units[rows[n].id]
                        grid == ScenarioData(file).grid_hexes
                    IN /\ Len(rows) = Len(UnitEntries(file))
                       /\ \A m, n \in DOMAIN rows : m < n =>
                            /\ rows[m].id # rows[n].id
                            /\ (At(m).position = At(n).position /\ At(m).active) =>
                                    At(m).stack_index < At(n).stack_index
                       /\ \A n \in DOMAIN rows : grid # None => At(n).position \in grid
  BY DEF UnitsAreAllPlaced
<1> DEFINE rows == Units(file)
           data == ScenarioData(file)
           At(n) == s.board.units[rows[n].id]
<1>1. InitialState(file) = s /\ s # None
  OBVIOUS
<1>2. data # None
  BY <1>1 DEF InitialState, StateFrom
<1>3. FileIsSound(file) /\ data.units = rows /\ data.grid_hexes = OccupiedGrid(file, LocationRows(file), rows)
  BY <1>2 DEF ScenarioData
<1>4. rows # None
  BY <1>3 DEF FileIsSound
<1> HIDE DEF rows
<1>5. /\ IsList(rows) /\ Len(rows) = Len(UnitEntries(file))
      /\ \A m, n \in DOMAIN rows : m < n => rows[m].id # rows[n].id
  BY <1>4, UnitsHaveOwnIds DEF rows
<1>6. s.board.units = FoldLeft(PlaceUnit, NoUnits, rows)
  <2> DEFINE edges == [n \in DOMAIN data.edge_features |-> EdgeFeatures(data.edge_features[n])]
             lines == [n \in DOMAIN data.linear_features |-> LinearFeature(data.linear_features[n])]
  <2>1. s = FirstState(data, edges, lines)
    BY <1>1, <1>2 DEF InitialState, StateFrom
  <2> HIDE DEF edges, lines, data
  <2>2. s.board = InitialBoard(data, edges, lines)
    BY <1>1, <2>1 DEF FirstState
  <2>3. InitialBoard(data, edges, lines).units = FoldLeft(PlaceUnit, NoUnits, data.units)
    BY DEF InitialBoard, NoUnits
  <2> QED BY <1>3, <2>2, <2>3
<1>7. Len(rows) \in Nat /\ DOMAIN rows = 1..Len(rows)
  BY <1>5 DEF IsList
<1>8. HasPlaced(s.board.units, rows, Len(rows))
  BY <1>5, <1>6, RowsArePlaced
<1> HIDE DEF data
<1>9. ASSUME NEW n \in DOMAIN rows, data.grid_hexes # None
      PROVE  At(n).position \in data.grid_hexes
  <2>1. At(n).position = AxialFromOffset(rows[n].position)
    BY <1>7, <1>8 DEF HasPlaced
  <2>2. rows[n] \in Range(LocationRows(file)) \cup Range(rows)
    BY DEF Range
  <2> DEFINE used == {AxialFromOffset(r.position) : r \in Range(LocationRows(file)) \cup Range(rows)}
  <2>3. data.grid_hexes = used
    BY <1>3, <1>9 DEF OccupiedGrid
  <2> QED BY <2>1, <2>2, <2>3
<1>10. ASSUME NEW m \in DOMAIN rows, NEW n \in DOMAIN rows, m < n,
              At(m).position = At(n).position, At(m).active
       PROVE  At(m).stack_index < At(n).stack_index
  BY <1>7, <1>8, <1>10 DEF HasPlaced
<1> QED BY <1>5, <1>9, <1>10 DEF rows, data

\* A row of a table is one more entry of a list.
LEMMA ListGrows ==
    ASSUME NEW s, IsList(s), NEW r
    PROVE  IsList(Append(s, r)) /\ Range(Append(s, r)) = Range(s) \cup {r}
<1>1. Len(s) \in Nat /\ DOMAIN s = 1..Len(s) /\ s \in Seq(Range(s))
  BY DEF IsList
<1> DEFINE t == Append(s, r)
           k == Len(s)
<1>2. /\ DOMAIN t = 1..(k + 1) /\ t[k + 1] = r /\ t = [n \in 1..(k + 1) |-> t[n]]
      /\ \A n \in 1..k : t[n] = s[n]
  <2> HIDE DEF k
  <2>1. k \in Nat /\ s \in Seq(Range(s) \cup {r}) /\ Len(s) = k
    BY <1>1 DEF k
  <2>2. DOMAIN t = 1..(k + 1) /\ t[k + 1] = r /\ \A n \in 1..k : t[n] = s[n]
    BY <2>1
  <2>3. t \in Seq(Range(s) \cup {r})
    BY <2>1
  <2> HIDE DEF t
  <2>4. t = [n \in DOMAIN t |-> t[n]]
    BY <2>3
  <2> QED BY <2>2, <2>4 DEF k
<1> HIDE DEF t, k
<1>3. k \in Nat /\ DOMAIN s = 1..k
  BY <1>1 DEF k
<1>4. t \in [1..(k + 1) -> Range(t)]
  BY <1>2, <1>3 DEF Range
<1>5. IsList(t)
  <2>1. k + 1 \in Nat
    BY <1>3
  <2> QED BY <1>4, <2>1, FunctionIsSequence DEF IsList
<1>6. Range(t) = Range(s) \cup {r}
  <2>1. 1..(k + 1) = 1..k \cup {k + 1}
    BY <1>3
  <2>2. ASSUME NEW x \in Range(t) PROVE x \in Range(s) \cup {r}
    <3>1. PICK n \in 1..(k + 1) : x = t[n]
      BY <1>2 DEF Range
    <3>2. CASE n \in 1..k
      BY <1>2, <1>3, <3>1, <3>2 DEF Range
    <3>3. CASE n = k + 1
      BY <1>2, <3>1, <3>3
    <3> QED BY <2>1, <3>2, <3>3
  <2>3. ASSUME NEW x \in Range(s) PROVE x \in Range(t)
    <3>1. PICK n \in 1..k : x = s[n]
      BY <1>3 DEF Range
    <3>2. n \in DOMAIN t /\ x = t[n]
      BY <1>2, <2>1, <3>1
    <3> QED BY <3>2 DEF Range
  <2>4. r \in Range(t)
    <3>1. k + 1 \in DOMAIN t
      BY <1>2, <1>3
    <3> QED BY <1>2, <3>1 DEF Range
  <2> QED BY <2>2, <2>3, <2>4
<1> QED BY <1>5, <1>6 DEF t

\* Writing a row keeps the tables lists.
LEMMA WriteKeepsFile ==
    ASSUME IsFile(file), Write
    PROVE  IsFile(file')
<1>1. PICK t \in DOMAIN Rows : \E r \in Rows[t] : file' = [file EXCEPT ![t] = Append(file[t], r)]
  BY DEF Write
<1> PICK r \in Rows[t] : file' = [file EXCEPT ![t] = Append(file[t], r)]
  BY <1>1
<1>2. /\ DOMAIN file' = DOMAIN file
      /\ \A u \in DOMAIN file : file'[u] = IF u = t THEN Append(file[t], r) ELSE file[u]
  BY <1>1
<1>3. ASSUME NEW u \in {"units", "unit_placements"}
      PROVE  IsList(file'[u]) /\ Range(file'[u]) \subseteq Range(file[u]) \cup (IF u = t THEN {r} ELSE {})
  <2>1. u \in DOMAIN file /\ IsList(file[u])
    BY DEF IsFile
  <2>2. CASE u = t
    BY <1>2, <2>1, <2>2, ListGrows
  <2>3. CASE u # t
    BY <1>2, <2>1, <2>3
  <2> QED BY <2>2, <2>3
<1>4. ASSUME NEW n \in DOMAIN file'.unit_placements
      PROVE  PositionsAreList(file'.unit_placements[n])
  <2> DEFINE g == file'.unit_placements[n]
  <2>1. g \in Range(file'.unit_placements)
    BY DEF Range
  <2>2. g \in Range(file.unit_placements) \/ (t = "unit_placements" /\ g = r)
    BY <1>3, <2>1
  <2> HIDE DEF g
  <2>3. CASE g \in Range(file.unit_placements)
    <3>1. PositionsAreList(g)
      BY <2>3 DEF IsFile, Range
    <3> QED BY <3>1 DEF g
  <2>4. CASE t = "unit_placements" /\ g = r
    <3>1. "unit_placements" \in DOMAIN Rows \cap {"unit_placements"} /\ r \in Rows["unit_placements"]
      BY <2>4
    <3>2. PositionsAreList(r)
      BY <3>1, FileAssumption
    <3> QED BY <2>4, <3>2 DEF g
  <2> QED BY <2>2, <2>3, <2>4
<1>5. {"units", "unit_placements"} \subseteq DOMAIN file'
  BY <1>2 DEF IsFile
<1> QED BY <1>3, <1>4, <1>5 DEF IsFile

FileIsListed == IsFile(file)

MadeUpIdsTell == NumbersTell(file)

\* In every file an author comes to, row by row, as long as the ids made up from a token
\* tell their numbers: a file that loads puts every unit it names on the board, under an
\* id of its own, above the units of its hex that were placed before it.
THEOREM UnitsAlwaysPlaced ==
    (FileInit /\ [][FileNext]_file /\ []MadeUpIdsTell) => []UnitsAreAllPlaced
<1>1. FileInit => FileIsListed
  BY FileAssumption DEF FileInit, FileIsListed
<1>2. FileIsListed /\ [FileNext]_file => FileIsListed'
  BY WriteKeepsFile DEF FileNext, FileIsListed
<1>3. FileIsListed /\ MadeUpIdsTell => UnitsAreAllPlaced
  BY UnitsArePlaced DEF FileIsListed, MadeUpIdsTell
<1> QED BY <1>1, <1>2, <1>3, PTL
=============================================================================
