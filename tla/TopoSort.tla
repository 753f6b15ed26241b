------------------------------- MODULE TopoSort -------------------------------
(***************************************************************************)
(* Manager.RegisterModule and Manager.sortModules (modulex.go): modules    *)
(* are registered one by one while the manager is configuring, and         *)
(* InitModules then orders them by a depth-first walk of their declared    *)
(* dependencies.  The walk is a pure function of the registrations; the    *)
(* behaviours of this module only enumerate the registrations it is        *)
(* applied to.                                                             *)
(*                                                                         *)
(* Names are compared after strings.TrimSpace in the code, so a name here  *)
(* is a trimmed one and Empty is every blank name.                         *)
(***************************************************************************)
EXTENDS Naturals, Sequences, SequencesExt, FiniteSets

CONSTANTS
  Name,        \* non-blank names a module may declare or depend on
  Registrable, \* those of Name some module carries; the others stay unknown
  Empty,       \* the blank name
  MaxDeps      \* bound on the length of one DependsOn list

VARIABLES
  moduleOrder, \* names in registration order (Manager.moduleOrder)
  dependsOn,   \* DependsOn() of every registered module (Manager.modules)
  sorted       \* the result of sortModules, or Unsorted

topoVars == <<moduleOrder, dependsOn, sorted>>

Unsorted == [err |-> "unsorted", order |-> <<>>, cycle |-> <<>>]

DependencyLists == BoundedSeq(Name \cup {Empty}, MaxDeps)

(***************************************************************************)
(* The traversal.  ts is topoSorter: state and path of the walk, the order *)
(* emitted so far, and the first error with the cycle it reports.          *)
(***************************************************************************)
NewTopoSorter ==
  [state |-> [n \in Name |-> "unvisited"], path |-> <<>>, order |-> <<>>,
   err |-> "none", cycle |-> <<>>]

\* cycleError: the part of the path from name's first occurrence, closed by name.
CycleError(name, ts) ==
  LET start == SelectInSeq(ts.path, LAMBDA n : n = name)
  IN [ts EXCEPT !.err = "circular",
                !.cycle = Append(SubSeq(ts.path, start, Len(ts.path)), name)]

RECURSIVE Visit(_, _, _)

\* visitDependency: the two names that are errors whatever the graph is.
VisitDependency(deps, name, dep, ts) ==
  CASE dep = Empty -> [ts EXCEPT !.err = "invalidName"]
    [] dep = name  -> [ts EXCEPT !.err = "self"]
    [] OTHER       -> Visit(deps, dep, ts)

\* Mutant: a name still being visited is taken for a visited one.
VisitSkippingOpen(deps, name, ts) ==
  IF name \in DOMAIN deps /\ ts.state[name] = "unvisited"
  THEN LET walked == FoldLeft(LAMBDA acc, dep :
                                IF acc.err = "none"
                                THEN VisitDependency(deps, name, dep, acc)
                                ELSE acc,
                              [ts EXCEPT !.state[name] = "visiting"], deps[name])
       IN [walked EXCEPT !.state[name] = "visited", !.order = Append(@, name)]
  ELSE ts

\* visit: dependencies first, then the module; the deferred function marks it
\* visited and pops the path on every return, the failing ones included.
Visit(deps, name, ts) ==
  CASE ts.state[name] = "visiting" -> CycleError(name, ts)
    [] ts.state[name] = "visited"  -> ts
    [] /\ ts.state[name] = "unvisited"
       /\ name \notin DOMAIN deps  -> [ts EXCEPT !.err = "notFound"]
    [] OTHER ->
       LET entered == [ts EXCEPT !.state[name] = "visiting",
                                 !.path = Append(@, name)]
           walked  == FoldLeft(LAMBDA acc, dep :
                                 IF acc.err = "none"
                                 THEN VisitDependency(deps, name, dep, acc)
                                 ELSE acc,
                               entered, deps[name])
       IN [walked EXCEPT !.state[name] = "visited",
                         !.path = Front(@),
                         !.order = IF walked.err = "none"
                                   THEN Append(@, name) ELSE @]

\* sortModules: visit every registered name in registration order, stop at
\* the first error, and return no order then.
SortModules(order, deps) ==
  LET ts == FoldLeft(LAMBDA acc, name :
                       IF acc.err = "none" /\ acc.state[name] = "unvisited"
                       THEN Visit(deps, name, acc) ELSE acc,
                     NewTopoSorter, order)
  IN [err |-> ts.err, cycle |-> ts.cycle,
      order |-> IF ts.err = "none" THEN ts.order ELSE <<>>]

-----------------------------------------------------------------------------
Init ==
  /\ moduleOrder = <<>>
  /\ dependsOn = << >>
  /\ sorted = Unsorted

\* RegisterModule: refused once initialisation began, for a blank name and for
\* a name already taken.
RegisterModule(name, deps) ==
  /\ sorted = Unsorted
  /\ name # Empty
  /\ name \notin DOMAIN dependsOn
  /\ dependsOn' = [n \in DOMAIN dependsOn \cup {name} |->
                     IF n = name THEN deps ELSE dependsOn[n]]
  /\ moduleOrder' = Append(moduleOrder, name)
  /\ UNCHANGED sorted

\* InitModules, as far as lockSortedModules: the registrations are frozen.
LockSortedModules ==
  /\ sorted = Unsorted
  /\ sorted' = SortModules(moduleOrder, dependsOn)
  /\ UNCHANGED <<moduleOrder, dependsOn>>

Next ==
  \/ \E name \in Registrable, deps \in DependencyLists : RegisterModule(name, deps)
  \/ LockSortedModules

Spec == Init /\ [][Next]_topoVars

-----------------------------------------------------------------------------
(***************************************************************************)
(* Reference definitions, independent of the walk.                         *)
(***************************************************************************)
Registered == DOMAIN dependsOn

Edges == {<<m, d>> \in Registered \X Registered : d \in ToSet(dependsOn[m])}

\* Non-empty sets of modules each of which depends on another of the set:
\* a finite graph has such a set exactly when it has a cycle.
HasCycle ==
  \E S \in (SUBSET Registered) \ {{}} : \A m \in S : \E d \in S : <<m, d>> \in Edges

HasBadName ==
  \E m \in Registered : \E d \in ToSet(dependsOn[m]) : d \notin Registered

IsTopological(s) ==
  \A i, j \in DOMAIN s : <<s[i], s[j]>> \in Edges => j < i

Before(s, m, n) == \E i, j \in DOMAIN s : i < j /\ s[i] = m /\ s[j] = n

TopoTypeOK ==
  /\ Registered \subseteq Registrable
  /\ \A m \in Registered : dependsOn[m] \in DependencyLists
  /\ ToSet(moduleOrder) = Registered
  /\ sorted = Unsorted \/ sorted.err \in
       {"none", "circular", "self", "notFound", "invalidName"}

\* InitModules accepts exactly the graphs without cycle, self dependency,
\* unknown or blank dependency, and then calls every registered module once,
\* after all the modules it depends on.
SortCorrect ==
  sorted # Unsorted =>
    /\ sorted.err = "none" <=> ~HasCycle /\ ~HasBadName
    /\ sorted.err = "none" =>
         /\ ToSet(sorted.order) = Registered
         /\ Len(sorted.order) = Cardinality(Registered)
         /\ IsTopological(sorted.order)

\* The error sortModules returns names a defect the registrations really have:
\* the reported cycle is a closed path of declared dependencies, without
\* repetition but for its ends; a self or unknown dependency exists.
ErrorTruthful ==
  /\ sorted.err = "circular" =>
       LET c == sorted.cycle
       IN /\ Len(c) > 2
          /\ c[1] = c[Len(c)]
          /\ Cardinality(ToSet(c)) = Len(c) - 1
          /\ \A i \in 1..(Len(c) - 1) : <<c[i], c[i + 1]>> \in Edges
  /\ sorted.err = "self" => \E m \in Registered : <<m, m>> \in Edges
  /\ sorted.err = "notFound" =>
       \E m \in Registered : \E d \in ToSet(dependsOn[m]) : d \in Name \ Registered
  /\ sorted.err = "invalidName" => \E m \in Registered : Empty \in ToSet(dependsOn[m])

\* Registration order is the tie-break: when it already respects the
\* dependencies it is returned unchanged, and in every case a module overtakes
\* an earlier registered one only on behalf of a dependent registered no later.
RegistrationOrderTieBreak ==
  sorted.err = "none" =>
    /\ IsTopological(moduleOrder) => sorted.order = moduleOrder
    /\ \A m, n \in Registered :
         Before(moduleOrder, m, n) /\ Before(sorted.order, n, m) =>
           \E k \in Registered :
             /\ <<k, n>> \in Edges
             /\ k = m \/ Before(moduleOrder, k, m) \/ Before(sorted.order, k, m)

===============================================================================
