------------------------------ MODULE WCCProofs ------------------------------
(***************************************************************************)
(* Proofs about WCC for every graph, every number of threads and every     *)
(* iteration limit: the labels stay inside their components, and an        *)
(* iteration that changes nothing has found the components.                *)
(***************************************************************************)
EXTENDS WCC, TLAPS

\* The initial labels are the vertices themselves.
LEMMA InitInv == Init => IInv
<1> SUFFICES ASSUME Init PROVE IInv
  OBVIOUS
<1> USE DEF Init, Resting
<1>1. TypeOK
  BY WCCAssumption DEF TypeOK
<1>2. BusyInv /\ LoadedInv /\ CurrentInv /\ AgreeInv /\ DoneInv
  BY DEF BusyInv, LoadedInv, CurrentInv, AgreeInv, DoneInv
<1>3. LabelsInside
  BY WCCAssumption DEF LabelsInside, LabelOf
<1> QED BY <1>1, <1>2, <1>3 DEF IInv

\* A label travels along an edge in both directions.
LEMMA Crosses ==
  ASSUME NEW u \in Vertices, NEW v \in Vertices, NEW a, <<u, v>> \in edges
  PROVE  /\ LabelOf(a, u) /\ a <= v => LabelOf(a, v)
         /\ LabelOf(a, v) /\ a <= u => LabelOf(a, u)
<1>1. \A C \in SUBSET Vertices : Closed(C) => (u \in C <=> v \in C)
  BY DEF Closed
<1> QED BY <1>1 DEF LabelOf

-----------------------------------------------------------------------------
(* The main thread.                                                        *)

\* A step that leaves the labels and what threads have loaded alone keeps both
\* label invariants.
LEMMA LabelsKept ==
  ASSUME IInv, edges' = edges, components' = components, th' = th,
         phase' = "forward" => phase = "forward" \/ \A t \in Threads : th[t].pc = "rest"
  PROVE  LabelsInside' /\ LoadedInv'
<1>1. \A C \in SUBSET Vertices : Closed(C)' <=> Closed(C)
  BY DEF Closed
<1>2. LabelsInside'
  BY <1>1 DEF IInv, LabelsInside, LabelOf
<1>3. LoadedInv'
  BY <1>1 DEF IInv, LoadedInv, LabelOf
<1> QED BY <1>2, <1>3

LEMMA NextIterationInv == IInv /\ NextIteration => IInv'
<1> SUFFICES ASSUME IInv, NextIteration PROVE IInv'
  OBVIOUS
<1> USE DEF NextIteration
<1>1. \A t \in Threads : th[t].pc = "rest"
  BY DEF IInv, BusyInv, TypeOK
<1>2. LabelsInside' /\ LoadedInv'
  BY <1>1, LabelsKept
<1>3. TypeOK'
  BY DEF IInv, TypeOK
<1>4. BusyInv' /\ CurrentInv' /\ AgreeInv' /\ DoneInv'
  BY <1>1 DEF BusyInv, CurrentInv, AgreeInv, DoneInv
<1> QED BY <1>2, <1>3, <1>4 DEF IInv

LEMMA EndPassInv == IInv /\ EndPass => IInv'
<1> SUFFICES ASSUME IInv, EndPass PROVE IInv'
  OBVIOUS
<1> USE DEF EndPass
<1>1. \A t \in Threads : th[t].pc = "rest"
  OBVIOUS
<1>2. LabelsInside' /\ LoadedInv'
  BY <1>1, LabelsKept
<1>3. TypeOK'
  BY DEF IInv, TypeOK
<1>4. BusyInv' /\ CurrentInv' /\ DoneInv'
  BY <1>1 DEF BusyInv, CurrentInv, DoneInv
<1>5. AgreeInv'
  <2> SUFFICES ASSUME ~changed, NEW e \in edges
               PROVE  \/ phase' = "forward"
                      \/ phase' = "backward" /\ e[1] \in todo'
                      \/ components[e[1]] = components[e[2]]
    BY DEF AgreeInv
  <2>1. CASE phase = "forward"
    <3>1. e[1] \in Vertices
      BY DEF IInv, TypeOK
    <3> QED BY <2>1, <3>1
  <2>2. CASE phase = "backward"
    BY <1>1, <2>2 DEF IInv, AgreeInv, Ahead
  <2> QED BY <2>1, <2>2
<1> QED BY <1>2, <1>3, <1>4, <1>5 DEF IInv

LEMMA StopIteratingInv == IInv /\ StopIterating => IInv'
<1> SUFFICES ASSUME IInv, StopIterating PROVE IInv'
  OBVIOUS
<1> USE DEF StopIterating
<1>1. \A t \in Threads : th[t].pc = "rest"
  BY DEF IInv, BusyInv, TypeOK
<1>2. LabelsInside' /\ LoadedInv'
  BY <1>1, LabelsKept
<1>3. TypeOK' /\ BusyInv' /\ CurrentInv' /\ DoneInv'
  BY <1>1 DEF IInv, TypeOK, BusyInv, CurrentInv, DoneInv
<1>4. AgreeInv'
  BY DEF IInv, AgreeInv
<1> QED BY <1>2, <1>3, <1>4 DEF IInv

\* If the ends of every edge agree, every label names itself, and following labels
\* leads nowhere else.
LEMMA RootsAreLabels ==
  ASSUME TypeOK, LabelsInside, \A e \in edges : components[e[1]] = components[e[2]]
  PROVE  Roots(components) = components
<1> DEFINE G(g) == g = [v \in Vertices |-> IF components[v] = v THEN v ELSE g[components[v]]]
<1>1. ASSUME NEW v \in Vertices PROVE components[components[v]] = components[v]
  <2> DEFINE C == {w \in Vertices : components[w] = components[v]}
  <2>1. Closed(C)
    BY DEF Closed, TypeOK
  <2>2. components[v] \in C
    BY <2>1 DEF LabelsInside, LabelOf
  <2> QED BY <2>2
<1>2. G(components)
  BY <1>1 DEF TypeOK
<1>3. ASSUME NEW g, G(g) PROVE g = components
  <2>1. \A v \in Vertices : components[v] \in Vertices
    BY DEF TypeOK
  <2>2. ASSUME NEW v \in Vertices PROVE g[v] = components[v]
    <3>1. g[components[v]] = components[v]
      BY <1>1, <1>3, <2>1
    <3> QED BY <1>3, <3>1
  <2>3. g = [v \in Vertices |-> g[v]]
    BY <1>3
  <2> QED BY <2>2, <2>3 DEF TypeOK
<1>4. Roots(components) = CHOOSE g : G(g)
  BY DEF Roots
<1> HIDE DEF G
<1> QED BY <1>2, <1>3, <1>4

LEMMA FlattenInv == IInv /\ Flatten => IInv'
<1> SUFFICES ASSUME IInv, Flatten PROVE IInv'
  OBVIOUS
<1> USE DEF Flatten
<1>1. \A t \in Threads : th[t].pc = "rest"
  BY DEF IInv, BusyInv, TypeOK
<1>2. LabelsInside' /\ LoadedInv'
  BY <1>1, LabelsKept
<1>3. TypeOK' /\ BusyInv' /\ CurrentInv'
  BY <1>1 DEF IInv, TypeOK, BusyInv, CurrentInv
<1>4. ~changed => \A e \in edges : components[e[1]] = components[e[2]]
  BY DEF IInv, AgreeInv
<1>5. AgreeInv'
  BY <1>4 DEF AgreeInv
<1>6. DoneInv'
  BY <1>4, RootsAreLabels DEF IInv, DoneInv
<1> QED BY <1>2, <1>3, <1>5, <1>6 DEF IInv

-----------------------------------------------------------------------------
(* The threads.                                                            *)

LEMMA TakeInv == ASSUME NEW t \in Threads PROVE IInv /\ Take(t) => IInv'
<1> SUFFICES ASSUME IInv, Take(t) PROVE IInv'
  OBVIOUS
<1>1. PICK u \in todo :
        /\ todo' = todo \ {u}
        /\ \/ /\ phase \in {"forward", "backward"}
              /\ th' = [th EXCEPT ![t] = [Resting EXCEPT !.pc = "scan", !.u = u,
                          !.left = Out(u), !.a = IF phase = "forward" THEN components[u] ELSE 0]]
           \/ phase = "forward" /\ th' = th
  BY DEF Take
<1>2. /\ th[t].pc = "rest"
      /\ UNCHANGED <<edges, components, changed, iter, phase, parent>>
  BY DEF Take
<1>3. u \in Vertices
  BY DEF IInv, TypeOK
<1>4. CASE th' = th /\ phase = "forward"
  <2>1. LabelsInside' /\ LoadedInv'
    BY <1>2, <1>4, LabelsKept
  <2>2. TypeOK' /\ BusyInv' /\ CurrentInv' /\ AgreeInv' /\ DoneInv'
    BY <1>1, <1>2, <1>4 DEF IInv, TypeOK, BusyInv, CurrentInv, AgreeInv, DoneInv
  <2> QED BY <2>1, <2>2 DEF IInv
<1>5. CASE /\ phase \in {"forward", "backward"}
           /\ th' = [th EXCEPT ![t] = [Resting EXCEPT !.pc = "scan", !.u = u,
                       !.left = Out(u), !.a = IF phase = "forward" THEN components[u] ELSE 0]]
  <2> DEFINE x == [Resting EXCEPT !.pc = "scan", !.u = u, !.left = Out(u),
                     !.a = IF phase = "forward" THEN components[u] ELSE 0]
  <2>1. th' = [th EXCEPT ![t] = x]
    BY <1>5
  <2>2. th'[t] = x /\ \A r \in Threads : r # t => th'[r] = th[r]
    BY <2>1 DEF IInv, TypeOK
  <2>3. x.pc = "scan" /\ x.u = u /\ x.left = Out(u)
        /\ (phase = "forward" => x.a = components[u])
    BY DEF Resting
  <2>4. Out(u) \subseteq Vertices /\ \A v \in Out(u) : <<u, v>> \in edges
    BY DEF Out
  <2>5. x \in [pc : {"rest", "scan", "load", "store"}, u : Nat, v : Nat,
               left : SUBSET Vertices, a : Nat, b : Nat]
    <3>1. u \in Nat /\ components[u] \in Nat
      BY <1>3, WCCAssumption DEF IInv, TypeOK
    <3> QED BY <2>4, <3>1 DEF Resting
  <2> HIDE DEF x
  <2>6. TypeOK'
    BY <1>1, <1>2, <2>1, <2>2, <2>5 DEF IInv, TypeOK
  <2>7. BusyInv'
    BY <1>2, <1>3, <1>5, <2>2, <2>3, <2>4 DEF IInv, BusyInv
  <2>8. LabelsInside' /\ LoadedInv'
    <3>1. \A C \in SUBSET Vertices : Closed(C)' <=> Closed(C)
      BY <1>2 DEF Closed
    <3>2. LabelsInside'
      BY <1>2, <3>1 DEF IInv, LabelsInside, LabelOf
    <3>3. \A a, v : LabelOf(a, v) <=> /\ a \in Vertices /\ a <= v
                                      /\ \A C \in SUBSET Vertices : Closed(C)' /\ v \in C => a \in C
      BY <3>1 DEF LabelOf
    <3>4. LoadedInv'
      BY <1>2, <1>3, <2>2, <2>3, <3>2, <3>3 DEF IInv, LoadedInv, LabelsInside, LabelOf
    <3> QED BY <3>2, <3>4
  <2>9. CurrentInv'
    BY <1>2, <2>2, <2>3 DEF IInv, CurrentInv
  <2>10. AgreeInv'
    <3> SUFFICES ASSUME ~changed, NEW e \in edges, phase # "forward",
                        components[e[1]] # components[e[2]]
                 PROVE  phase = "backward" /\ (e[1] \in todo' \/ \E r \in Threads : Ahead(r, e)')
      BY <1>2 DEF AgreeInv
    <3>1. e = <<e[1], e[2]>> /\ e[2] \in Vertices
      BY DEF IInv, TypeOK
    <3>2. phase = "backward" /\ (e[1] \in todo \/ \E r \in Threads : Ahead(r, e))
      BY DEF IInv, AgreeInv
    <3>3. ASSUME NEW r \in Threads, Ahead(r, e) PROVE Ahead(r, e)'
      BY <1>2, <2>2, <3>3 DEF Ahead
    <3>4. e[1] = u => Ahead(t, e)'
      BY <2>2, <2>3, <3>1 DEF Ahead, Out
    <3> QED BY <1>1, <3>2, <3>3, <3>4
  <2>11. DoneInv'
    BY <1>2 DEF IInv, DoneInv
  <2> QED BY <2>6, <2>7, <2>8, <2>9, <2>10, <2>11 DEF IInv
<1> QED BY <1>1, <1>4, <1>5

\* What a thread's own step shows of the label invariants when only its record has
\* changed, not the labels.
LEMMA OwnStep ==
  ASSUME NEW t \in Threads, IInv,
         edges' = edges, components' = components, phase' = phase,
         \A r \in Threads : r # t => th'[r] = th[r],
         th'[t].pc \in {"load", "store"} \/ (th'[t].pc = "scan" /\ phase = "forward")
           => LabelOf(th'[t].a, th'[t].u),
         th'[t].pc = "store" => LabelOf(th'[t].b, th'[t].v)
  PROVE  LabelsInside' /\ LoadedInv'
<1>1. \A C \in SUBSET Vertices : Closed(C)' <=> Closed(C)
  BY DEF Closed
<1>2. LabelsInside'
  BY <1>1 DEF IInv, LabelsInside, LabelOf
<1>3. \A a, v : LabelOf(a, v) <=> /\ a \in Vertices /\ a <= v
                                  /\ \A C \in SUBSET Vertices : Closed(C)' /\ v \in C => a \in C
  BY <1>1 DEF LabelOf
<1>4. LoadedInv'
  <2> SUFFICES ASSUME NEW r \in Threads
               PROVE  /\ th'[r].pc \in {"load", "store"} \/ (th'[r].pc = "scan" /\ phase = "forward")
                           => LabelOf(th'[r].a, th'[r].u)
                      /\ th'[r].pc = "store" => LabelOf(th'[r].b, th'[r].v)
    BY <1>3 DEF LoadedInv, LabelOf
  <2> QED BY DEF IInv, LoadedInv
<1> QED BY <1>2, <1>4

LEMMA NextEdgeInv == ASSUME NEW t \in Threads PROVE IInv /\ NextEdge(t) => IInv'
<1> SUFFICES ASSUME IInv, NextEdge(t) PROVE IInv'
  OBVIOUS
<1>1. PICK v \in th[t].left :
        th' = [th EXCEPT ![t].pc = "load", ![t].v = v, ![t].left = @ \ {v},
                         ![t].a = IF phase = "backward" THEN components[th[t].u] ELSE @]
  BY DEF NextEdge
<1>2. /\ th[t].pc = "scan"
      /\ UNCHANGED <<edges, components, changed, iter, phase, todo, parent>>
  BY DEF NextEdge
<1>3. /\ th[t].u \in Vertices /\ v \in Vertices /\ <<th[t].u, v>> \in edges
      /\ phase \in {"forward", "backward"}
      /\ components[th[t].u] \in Nat /\ v \in Nat
  BY <1>2, WCCAssumption DEF IInv, TypeOK, BusyInv
<1>4. /\ th'[t].pc = "load" /\ th'[t].v = v /\ th'[t].u = th[t].u
      /\ th'[t].left = th[t].left \ {v}
      /\ th'[t].a = IF phase = "backward" THEN components[th[t].u] ELSE th[t].a
      /\ \A r \in Threads : r # t => th'[r] = th[r]
  BY <1>1 DEF IInv, TypeOK
<1>5. TypeOK'
  BY <1>1, <1>2, <1>3 DEF IInv, TypeOK
<1>6. BusyInv'
  BY <1>2, <1>3, <1>4 DEF IInv, BusyInv
<1>7. LabelsInside' /\ LoadedInv'
  <2>1. LabelOf(th'[t].a, th'[t].u)
    BY <1>2, <1>3, <1>4 DEF IInv, LabelsInside, LoadedInv
  <2> QED BY <1>2, <1>4, <2>1, OwnStep
<1>8. CurrentInv'
  BY <1>2, <1>3, <1>4 DEF IInv, CurrentInv
<1>9. AgreeInv'
  <2>1. ASSUME NEW r \in Threads, NEW e \in edges, Ahead(r, e) PROVE Ahead(r, e)'
    BY <1>2, <1>4, <2>1 DEF Ahead
  <2> QED BY <1>2, <2>1 DEF IInv, AgreeInv
<1>10. DoneInv'
  BY <1>2 DEF IInv, DoneInv
<1> QED BY <1>5, <1>6, <1>7, <1>8, <1>9, <1>10 DEF IInv

LEMMA LoadOtherInv == ASSUME NEW t \in Threads PROVE IInv /\ LoadOther(t) => IInv'
<1> SUFFICES ASSUME IInv, LoadOther(t) PROVE IInv'
  OBVIOUS
<1>1. /\ th[t].pc = "load"
      /\ th' = [th EXCEPT ![t].pc = "store", ![t].b = components[th[t].v]]
      /\ UNCHANGED <<edges, components, changed, iter, phase, todo, parent>>
  BY DEF LoadOther
<1>2. th[t].v \in Vertices /\ components[th[t].v] \in Nat
  BY <1>1, WCCAssumption DEF IInv, TypeOK, BusyInv
<1>3. /\ th'[t].pc = "store" /\ th'[t].v = th[t].v /\ th'[t].u = th[t].u
      /\ th'[t].left = th[t].left /\ th'[t].a = th[t].a /\ th'[t].b = components[th[t].v]
      /\ \A r \in Threads : r # t => th'[r] = th[r]
  BY <1>1 DEF IInv, TypeOK
<1>4. TypeOK'
  BY <1>1, <1>2 DEF IInv, TypeOK
<1>5. BusyInv'
  <2>1. BusyInv
    BY DEF IInv
  <2> SUFFICES ASSUME NEW r \in Threads, th'[r].pc # "rest"
               PROVE  /\ phase \in {"forward", "backward"}
                      /\ th'[r].u \in Vertices
                      /\ \A v \in th'[r].left : <<th'[r].u, v>> \in edges
                      /\ th'[r].pc # "scan" => th'[r].v \in Vertices
                                              /\ <<th'[r].u, th'[r].v>> \in edges
    BY <1>1 DEF BusyInv
  <2>2. CASE r = t
    BY <1>1, <1>3, <2>1, <2>2 DEF BusyInv
  <2>3. CASE r # t
    BY <1>3, <2>1, <2>3 DEF BusyInv
  <2> QED BY <2>2, <2>3
<1>6. LabelsInside' /\ LoadedInv'
  <2>1. LabelOf(th'[t].a, th'[t].u)
    BY <1>1, <1>3 DEF IInv, LoadedInv
  <2>2. LabelOf(th'[t].b, th'[t].v)
    BY <1>2, <1>3 DEF IInv, LabelsInside
  <2> QED BY <1>1, <1>3, <2>1, <2>2, OwnStep
<1>7. CurrentInv'
  <2>1. CurrentInv
    BY DEF IInv
  <2> SUFFICES ASSUME ~changed, NEW r \in Threads
               PROVE  /\ th'[r].pc \in {"load", "store"} \/ (th'[r].pc = "scan" /\ phase = "forward")
                           => th'[r].a = components[th'[r].u]
                      /\ th'[r].pc = "store" => th'[r].b = components[th'[r].v]
    BY <1>1 DEF CurrentInv
  <2>2. CASE r = t
    BY <1>1, <1>3, <2>1, <2>2 DEF CurrentInv
  <2>3. CASE r # t
    BY <1>3, <2>1, <2>3 DEF CurrentInv
  <2> QED BY <2>2, <2>3
<1>8. AgreeInv'
  <2>1. ASSUME NEW r \in Threads, NEW e \in edges, Ahead(r, e) PROVE Ahead(r, e)'
    BY <1>1, <1>3, <2>1 DEF Ahead
  <2> QED BY <1>1, <2>1 DEF IInv, AgreeInv
<1>9. DoneInv'
  BY <1>1 DEF IInv, DoneInv
<1> QED BY <1>4, <1>5, <1>6, <1>7, <1>8, <1>9 DEF IInv

LEMMA LeaveInv == ASSUME NEW t \in Threads PROVE IInv /\ Leave(t) => IInv'
<1> SUFFICES ASSUME IInv, Leave(t) PROVE IInv'
  OBVIOUS
<1>1. /\ th[t].pc = "scan" /\ th[t].left = {}
      /\ th' = [th EXCEPT ![t] = Resting]
      /\ UNCHANGED <<edges, components, changed, iter, phase, todo, parent>>
  BY DEF Leave
<1>2. th'[t].pc = "rest" /\ \A r \in Threads : r # t => th'[r] = th[r]
  BY <1>1 DEF IInv, TypeOK, Resting
<1>3. TypeOK'
  BY <1>1 DEF IInv, TypeOK, Resting
<1>4. BusyInv' /\ CurrentInv' /\ DoneInv'
  BY <1>1, <1>2 DEF IInv, BusyInv, CurrentInv, DoneInv
<1>5. LabelsInside' /\ LoadedInv'
  BY <1>1, <1>2, OwnStep
<1>6. AgreeInv'
  <2>1. ASSUME NEW r \in Threads, NEW e \in edges, Ahead(r, e) PROVE Ahead(r, e)'
    BY <1>1, <1>2, <2>1 DEF Ahead
  <2> QED BY <1>1, <2>1 DEF IInv, AgreeInv
<1> QED BY <1>3, <1>4, <1>5, <1>6 DEF IInv

\* A store of a label that its vertex may have keeps all labels inside, and what the
\* threads have loaded before stays a label, if an old one.
LEMMA StoreLabel ==
  ASSUME NEW t \in Threads, NEW w \in Vertices, NEW a \in Vertices,
         IInv, edges' = edges, phase' = phase,
         components' = [components EXCEPT ![w] = a], LabelOf(a, w),
         th'[t].pc = "scan", th'[t].a = th[t].a, th'[t].u = th[t].u,
         th[t].pc = "store",
         \A r \in Threads : r # t => th'[r] = th[r]
  PROVE  LabelsInside' /\ LoadedInv'
<1>1. \A C \in SUBSET Vertices : Closed(C)' <=> Closed(C)
  BY DEF Closed
<1>2. \A l, v : LabelOf(l, v) <=> /\ l \in Vertices /\ l <= v
                                  /\ \A C \in SUBSET Vertices : Closed(C)' /\ v \in C => l \in C
  BY <1>1 DEF LabelOf
<1>3. LabelsInside'
  <2> SUFFICES ASSUME NEW v \in Vertices PROVE LabelOf(components'[v], v)
    BY <1>2 DEF LabelsInside, LabelOf
  <2>1. CASE v = w
    BY <2>1 DEF IInv, TypeOK
  <2>2. CASE v # w
    BY <2>2 DEF IInv, TypeOK, LabelsInside
  <2> QED BY <2>1, <2>2
<1>4. LoadedInv'
  <2>1. LoadedInv
    BY DEF IInv
  <2> SUFFICES ASSUME NEW r \in Threads
               PROVE  /\ th'[r].pc \in {"load", "store"} \/ (th'[r].pc = "scan" /\ phase = "forward")
                           => LabelOf(th'[r].a, th'[r].u)
                      /\ th'[r].pc = "store" => LabelOf(th'[r].b, th'[r].v)
    BY <1>2 DEF LoadedInv, LabelOf
  <2>2. CASE r = t
    BY <2>1, <2>2 DEF LoadedInv
  <2>3. CASE r # t
    BY <2>1, <2>3 DEF LoadedInv
  <2> QED BY <2>2, <2>3
<1> QED BY <1>3, <1>4

LEMMA StoreInv == ASSUME NEW t \in Threads PROVE IInv /\ Store(t) => IInv'
<1> SUFFICES ASSUME IInv, Store(t) PROVE IInv'
  OBVIOUS
<1> DEFINE a == th[t].a
           b == th[t].b
           u == th[t].u
           v == th[t].v
<1>1. /\ th[t].pc = "store"
      /\ th' = [th EXCEPT ![t].pc = "scan"]
      /\ UNCHANGED <<edges, iter, phase, todo, parent>>
  BY DEF Store
<1>2. \/ a < b /\ components' = [components EXCEPT ![v] = a] /\ changed' = TRUE
      \/ /\ b < a /\ phase = "backward"
         /\ components' = [components EXCEPT ![u] = b] /\ changed' = TRUE
      \/ ~(a < b) /\ ~(b < a /\ phase = "backward") /\ UNCHANGED <<components, changed>>
  BY DEF Store
<1>3. u \in Vertices /\ v \in Vertices /\ <<u, v>> \in edges /\ phase \in {"forward", "backward"}
  BY <1>1 DEF IInv, BusyInv
<1>4. LabelOf(a, u) /\ LabelOf(b, v)
  BY <1>1 DEF IInv, LoadedInv
<1>5. /\ a \in Vertices /\ b \in Vertices
      /\ a \in Nat /\ b \in Nat /\ u \in Nat /\ v \in Nat
      /\ a <= u /\ b <= v
  BY <1>3, <1>4, WCCAssumption DEF LabelOf
<1>6. /\ th'[t].pc = "scan" /\ th'[t].v = v /\ th'[t].u = u
      /\ th'[t].left = th[t].left /\ th'[t].a = a /\ th'[t].b = b
      /\ \A r \in Threads : r # t => th'[r] = th[r]
  BY <1>1 DEF IInv, TypeOK
<1>7. TypeOK'
  <2>1. components' \in [Vertices -> Vertices] /\ changed' \in BOOLEAN
    BY <1>2, <1>3, <1>5 DEF IInv, TypeOK
  <2> QED BY <1>1, <2>1 DEF IInv, TypeOK
<1>8. BusyInv'
  <2>1. BusyInv
    BY DEF IInv
  <2> SUFFICES ASSUME NEW r \in Threads, th'[r].pc # "rest"
               PROVE  /\ phase \in {"forward", "backward"}
                      /\ th'[r].u \in Vertices
                      /\ \A x \in th'[r].left : <<th'[r].u, x>> \in edges
                      /\ th'[r].pc # "scan" => th'[r].v \in Vertices
                                              /\ <<th'[r].u, th'[r].v>> \in edges
    BY <1>1 DEF BusyInv
  <2>2. CASE r = t
    BY <1>1, <1>3, <1>6, <2>1, <2>2 DEF BusyInv
  <2>3. CASE r # t
    BY <1>6, <2>1, <2>3 DEF BusyInv
  <2> QED BY <2>2, <2>3
<1>9. DoneInv'
  BY <1>1, <1>3 DEF DoneInv
<1>10. CASE a < b /\ components' = [components EXCEPT ![v] = a] /\ changed' = TRUE
  <2>1. a <= v
    BY <1>5, <1>10
  <2>2. LabelOf(a, v)
    BY <1>3, <1>4, <2>1, Crosses
  <2>3. LabelsInside' /\ LoadedInv'
    BY <1>1, <1>3, <1>5, <1>6, <1>10, <2>2, StoreLabel
  <2>4. CurrentInv' /\ AgreeInv'
    BY <1>10 DEF CurrentInv, AgreeInv
  <2> QED BY <1>7, <1>8, <1>9, <2>3, <2>4 DEF IInv
<1>11. CASE b < a /\ components' = [components EXCEPT ![u] = b] /\ changed' = TRUE
  <2>1. b <= u
    BY <1>5, <1>11
  <2>2. LabelOf(b, u)
    BY <1>3, <1>4, <2>1, Crosses
  <2>3. LabelsInside' /\ LoadedInv'
    BY <1>1, <1>3, <1>5, <1>6, <1>11, <2>2, StoreLabel
  <2>4. CurrentInv' /\ AgreeInv'
    BY <1>11 DEF CurrentInv, AgreeInv
  <2> QED BY <1>7, <1>8, <1>9, <2>3, <2>4 DEF IInv
<1>12. CASE ~(a < b) /\ ~(b < a /\ phase = "backward") /\ UNCHANGED <<components, changed>>
  <2>1. LabelsInside' /\ LoadedInv'
    BY <1>1, <1>4, <1>6, <1>12, OwnStep
  <2>2. CurrentInv'
    <3>1. CurrentInv
      BY DEF IInv
    <3> SUFFICES ASSUME ~changed, NEW r \in Threads
                 PROVE  /\ th'[r].pc \in {"load", "store"}
                             \/ (th'[r].pc = "scan" /\ phase = "forward")
                             => th'[r].a = components[th'[r].u]
                        /\ th'[r].pc = "store" => th'[r].b = components[th'[r].v]
      BY <1>1, <1>12 DEF CurrentInv
    <3>2. CASE r = t
      BY <1>1, <1>6, <3>1, <3>2 DEF CurrentInv
    <3>3. CASE r # t
      BY <1>6, <3>1, <3>3 DEF CurrentInv
    <3> QED BY <3>2, <3>3
  <2>3. AgreeInv'
    <3> SUFFICES ASSUME ~changed, NEW e \in edges, phase # "forward"
                 PROVE  \/ phase = "backward" /\ (e[1] \in todo \/ \E r \in Threads : Ahead(r, e)')
                        \/ components[e[1]] = components[e[2]]
      BY <1>1, <1>12 DEF AgreeInv
    <3>1. phase = "backward"
      BY <1>3
    <3>2. a = components[u] /\ b = components[v]
      BY <1>1 DEF IInv, CurrentInv
    <3>3. a = b
      BY <1>5, <1>12, <3>1
    <3>4. CASE \E r \in Threads : Ahead(r, e)
      <4>1. PICK r \in Threads : Ahead(r, e)
        BY <3>4
      <4>2. CASE r = t
        <5>1. e[2] \in th[t].left => Ahead(t, e)'
          BY <1>6, <4>1, <4>2 DEF Ahead
        <5>2. e[2] = v => components[e[1]] = components[e[2]]
          BY <3>2, <3>3, <4>1, <4>2 DEF Ahead
        <5> QED BY <3>1, <4>1, <4>2, <5>1, <5>2 DEF Ahead
      <4>3. CASE r # t
        BY <1>6, <3>1, <4>1, <4>3 DEF Ahead
      <4> QED BY <4>2, <4>3
    <3>5. CASE ~ \E r \in Threads : Ahead(r, e)
      BY <3>1, <3>5 DEF IInv, AgreeInv
    <3> QED BY <3>4, <3>5
  <2> QED BY <1>7, <1>8, <1>9, <2>1, <2>2, <2>3 DEF IInv
<1> QED BY <1>2, <1>10, <1>11, <1>12
-----------------------------------------------------------------------------
(* The theorems.                                                           *)

LEMMA StepInv == IInv /\ [Next]_vars => IInv'
<1> SUFFICES ASSUME IInv, [Next]_vars PROVE IInv'
  OBVIOUS
<1>1. CASE UNCHANGED vars
  <2>1. LabelsInside' /\ LoadedInv'
    BY <1>1, LabelsKept DEF vars
  <2>2. TypeOK' /\ BusyInv' /\ CurrentInv' /\ DoneInv'
    BY <1>1 DEF vars, IInv, TypeOK, BusyInv, CurrentInv, DoneInv
  <2>3. AgreeInv'
    BY <1>1 DEF vars, IInv, AgreeInv, Ahead
  <2> QED BY <2>1, <2>2, <2>3 DEF IInv
<1>2. CASE Next
  BY <1>2, NextIterationInv, EndPassInv, StopIteratingInv, FlattenInv, TakeInv,
     NextEdgeInv, LoadOtherInv, StoreInv, LeaveInv DEF Next
<1> QED BY <1>1, <1>2

\* The inductive invariant holds in every reachable state.
THEOREM Invariance == Spec => []IInv
BY InitInv, StepInv, PTL DEF Spec

\* For every graph and team: the races between the threads never give a vertex a label
\* from another component, or one above itself.
THEOREM LabelsInsideAlways == Spec => []LabelsInside
<1>1. IInv => LabelsInside
  BY DEF IInv
<1> QED BY <1>1, Invariance, PTL

\* For every graph and team: when an iteration has reported no change, the ends of
\* every edge have the same label.
THEOREM LabelsAgreeAlways == Spec => []LabelsAgree
<1>1. IInv => LabelsAgree
  BY DEF IInv, AgreeInv, LabelsAgree
<1> QED BY <1>1, Invariance, PTL

\* For every graph and team: if the iterations end because nothing changed, the result
\* is the partition into weakly connected components.
THEOREM ComponentsAlwaysFound == Spec => []ComponentsFound
<1>1. IInv => ComponentsFound
  <2> SUFFICES ASSUME IInv, phase = "done", ~changed
               PROVE  /\ \A e \in edges : parent[e[1]] = parent[e[2]]
                      /\ \A v \in Vertices : LabelOf(parent[v], v)
    BY DEF ComponentsFound
  <2>1. parent = components
    BY DEF IInv, DoneInv
  <2>2. \A e \in edges : components[e[1]] = components[e[2]]
    BY DEF IInv, AgreeInv
  <2> QED BY <2>1, <2>2 DEF IInv, LabelsInside
<1> QED BY <1>1, Invariance, PTL
=============================================================================
