--------------------------------- MODULE WCC ---------------------------------
(***************************************************************************)
(* Weakly connected components: algorithm/WCC.cpp.  Labels spread over the *)
(* edges of a published snapshot until an iteration changes nothing, or    *)
(* until the iteration limit.  The threads of a parallel loop read and     *)
(* write the plain array components without synchronisation: every access  *)
(* is a step of its own, and a label may be overwritten by a larger one    *)
(* that was computed before.                                               *)
(***************************************************************************)
EXTENDS Integers, FiniteSets

CONSTANTS
  Vertices,   \* vertex ids, below max_vid
  Threads,    \* the OpenMP team
  Graphs,     \* the snapshots that are tried: sets of edges <<u, v>>
  MAX_ITER    \* iteration limit (100 in the code)

ASSUME WCCAssumption ==
  /\ Vertices \subseteq Nat
  /\ Graphs \subseteq SUBSET (Vertices \X Vertices)
  /\ MAX_ITER \in Nat

VARIABLES
  edges,        \* the snapshot that is scanned
  components,   \* label of each vertex
  changed, iter,
  phase,        \* "loop", "forward", "backward", "flatten", "done"
  todo,         \* vertices no thread has taken in this pass
  th,           \* per thread: where it is in the loop body
  parent        \* the result

vars == <<edges, components, changed, iter, phase, todo, th, parent>>

\* A thread: its vertex u, edges left to visit, and the values it has loaded.
Resting == [pc |-> "rest", u |-> 0, v |-> 0, left |-> {}, a |-> 0, b |-> 0]

Init ==
  /\ edges \in Graphs
  /\ components = [v \in Vertices |-> v]
  /\ changed = TRUE
  /\ iter = 0
  /\ phase = "loop"
  /\ todo = {}
  /\ th = [t \in Threads |-> Resting]
  /\ parent = [v \in Vertices |-> v]

Out(u) == {v \in Vertices : <<u, v>> \in edges}

-----------------------------------------------------------------------------
(* The main thread between the parallel loops.                             *)

\* while (changed && iter < 100)
NextIteration ==
  /\ phase = "loop"
  /\ changed /\ iter < MAX_ITER
  /\ changed' = FALSE
  /\ iter' = iter + 1
  /\ phase' = "forward"
  /\ todo' = Vertices
  /\ UNCHANGED <<edges, components, th, parent>>

\* The barrier at the end of a parallel loop.
EndPass ==
  /\ phase \in {"forward", "backward"}
  /\ todo = {} /\ \A t \in Threads : th[t].pc = "rest"
  /\ IF phase = "forward" THEN phase' = "backward" /\ todo' = Vertices
                          ELSE phase' = "loop" /\ todo' = todo
  /\ UNCHANGED <<edges, components, changed, iter, th, parent>>

StopIterating ==
  /\ phase = "loop"
  /\ ~(changed /\ iter < MAX_ITER)
  /\ phase' = "flatten"
  /\ UNCHANGED <<edges, components, changed, iter, todo, th, parent>>

\* while (components[cur] != cur) cur = components[cur]
Roots(label) ==
  LET top[v \in Vertices] == IF label[v] = v THEN v ELSE top[label[v]] IN top

Flatten ==
  /\ phase = "flatten"
  /\ phase' = "done"
  /\ parent' = Roots(components)
  /\ UNCHANGED <<edges, components, changed, iter, todo, th>>

-----------------------------------------------------------------------------
(* The bodies of the parallel loops.                                       *)

\* A thread takes a vertex.  The forward pass skips one whose check_degree is 0 and
\* loads the label of any other; check_degree is inexact, so both may happen.
Take(t) ==
  /\ th[t].pc = "rest"
  /\ \E u \in todo :
       /\ todo' = todo \ {u}
       /\ \/ /\ phase \in {"forward", "backward"}
             /\ th' = [th EXCEPT ![t] = [Resting EXCEPT !.pc = "scan", !.u = u,
                         !.left = Out(u), !.a = IF phase = "forward" THEN components[u] ELSE 0]]
          \/ phase = "forward" /\ th' = th
  /\ UNCHANGED <<edges, components, changed, iter, phase, parent>>

\* The next edge; the backward pass loads the label of u now.
NextEdge(t) ==
  /\ th[t].pc = "scan"
  /\ \E v \in th[t].left :
       th' = [th EXCEPT ![t].pc = "load", ![t].v = v, ![t].left = @ \ {v},
                        ![t].a = IF phase = "backward" THEN components[th[t].u] ELSE @]
  /\ UNCHANGED <<edges, components, changed, iter, phase, todo, parent>>

LoadOther(t) ==
  /\ th[t].pc = "load"
  /\ th' = [th EXCEPT ![t].pc = "store", ![t].b = components[th[t].v]]
  /\ UNCHANGED <<edges, components, changed, iter, phase, todo, parent>>

\* Mutant: the backward pass does not report a changed label.
StoreSilent(t) ==
  /\ th[t].pc = "store"
  /\ th' = [th EXCEPT ![t].pc = "scan"]
  /\ components' = CASE th[t].a < th[t].b -> [components EXCEPT ![th[t].v] = th[t].a]
                     [] th[t].b < th[t].a /\ phase = "backward"
                          -> [components EXCEPT ![th[t].u] = th[t].b]
                     [] OTHER -> components
  /\ changed' = (changed \/ (phase = "forward" /\ th[t].a < th[t].b))
  /\ UNCHANGED <<edges, iter, phase, todo, parent>>

\* Of the two ends, the one with the larger label gets the smaller one; the forward
\* pass only writes to the head of the edge.
Store(t) ==
  LET a == th[t].a
      b == th[t].b
  IN
  /\ th[t].pc = "store"
  /\ th' = [th EXCEPT ![t].pc = "scan"]
  /\ \/ a < b /\ components' = [components EXCEPT ![th[t].v] = a] /\ changed' = TRUE
     \/ /\ b < a /\ phase = "backward"
        /\ components' = [components EXCEPT ![th[t].u] = b] /\ changed' = TRUE
     \/ ~(a < b) /\ ~(b < a /\ phase = "backward") /\ UNCHANGED <<components, changed>>
  /\ UNCHANGED <<edges, iter, phase, todo, parent>>

Leave(t) ==
  /\ th[t].pc = "scan"
  /\ th[t].left = {}
  /\ th' = [th EXCEPT ![t] = Resting]
  /\ UNCHANGED <<edges, components, changed, iter, phase, todo, parent>>

-----------------------------------------------------------------------------
Next ==
  \/ NextIteration \/ EndPass \/ StopIterating \/ Flatten
  \/ \E t \in Threads : Take(t) \/ NextEdge(t) \/ LoadOther(t) \/ Store(t) \/ Leave(t)

Spec == Init /\ [][Next]_vars

-----------------------------------------------------------------------------
(* Properties.  A set of vertices that no edge leaves or enters is a union *)
(* of components; what holds for all of them holds for the components.     *)

Closed(C) == \A e \in edges : e[1] \in C <=> e[2] \in C

\* a is a label that v may have: a vertex of v's component, not above v.
LabelOf(a, v) ==
  /\ a \in Vertices /\ a <= v
  /\ \A C \in SUBSET Vertices : Closed(C) /\ v \in C => a \in C

\* A label is the id of a vertex of the same component and never above the vertex it
\* labels, whatever the races: the loop that follows labels ends, and ends inside.
LabelsInside == \A v \in Vertices : LabelOf(components[v], v)

\* When the iterations stop because nothing changed, the ends of every edge have the
\* same label, although other threads wrote labels while an edge was looked at.
LabelsAgree ==
  phase \in {"flatten", "done"} /\ ~changed =>
    \A e \in edges : components[e[1]] = components[e[2]]

\* Then the result is the partition into weakly connected components, each named by
\* its smallest vertex: the same name at both ends of an edge, a member of the
\* component, and not above any vertex.
ComponentsFound ==
  phase = "done" /\ ~changed =>
    /\ \A e \in edges : parent[e[1]] = parent[e[2]]
    /\ \A v \in Vertices : LabelOf(parent[v], v)

-----------------------------------------------------------------------------
(* The inductive invariant.                                                *)

TypeOK ==
  /\ edges \subseteq Vertices \X Vertices
  /\ components \in [Vertices -> Vertices]
  /\ changed \in BOOLEAN
  /\ phase \in {"loop", "forward", "backward", "flatten", "done"}
  /\ todo \subseteq Vertices
  /\ DOMAIN th = Threads
  /\ \A t \in Threads :
       th[t] \in [pc : {"rest", "scan", "load", "store"}, u : Nat, v : Nat,
                  left : SUBSET Vertices, a : Nat, b : Nat]

\* Between the parallel loops all threads rest; inside, a thread looks at an edge of
\* its vertex.
BusyInv ==
  \A t \in Threads : th[t].pc # "rest" =>
    /\ phase \in {"forward", "backward"}
    /\ th[t].u \in Vertices
    /\ \A v \in th[t].left : <<th[t].u, v>> \in edges
    /\ th[t].pc # "scan" => th[t].v \in Vertices /\ <<th[t].u, th[t].v>> \in edges

\* What a thread has loaded is a label of the vertex it loaded it from, perhaps an
\* old one.
LoadedInv ==
  \A t \in Threads :
    /\ th[t].pc \in {"load", "store"} \/ (th[t].pc = "scan" /\ phase = "forward")
         => LabelOf(th[t].a, th[t].u)
    /\ th[t].pc = "store" => LabelOf(th[t].b, th[t].v)

\* As long as nothing has changed in this iteration, what was loaded is current.
CurrentInv ==
  ~changed => \A t \in Threads :
    /\ th[t].pc \in {"load", "store"} \/ (th[t].pc = "scan" /\ phase = "forward")
         => th[t].a = components[th[t].u]
    /\ th[t].pc = "store" => th[t].b = components[th[t].v]

\* Thread t has still to compare the ends of edge e.
Ahead(t, e) ==
  /\ th[t].pc # "rest" /\ th[t].u = e[1]
  /\ e[2] \in th[t].left \/ (th[t].pc # "scan" /\ th[t].v = e[2])

\* As long as nothing has changed, the ends of an edge agree once the backward pass
\* has compared them.
AgreeInv ==
  ~changed => \A e \in edges :
    \/ phase = "forward"
    \/ phase = "backward" /\ (e[1] \in todo \/ \E t \in Threads : Ahead(t, e))
    \/ components[e[1]] = components[e[2]]

\* Then following labels adds nothing: every label names itself.
DoneInv == phase = "done" /\ ~changed => parent = components

IInv == /\ TypeOK /\ BusyInv /\ LabelsInside /\ LoadedInv /\ CurrentInv
        /\ AgreeInv /\ DoneInv
=============================================================================
