---------------------------- MODULE FlowFramesMC ----------------------------
(***************************************************************************)
(* Flows for TLC: two levels of loops, conditionals and blocks over short  *)
(* lists of tasks, followed by a task that sees what they left.  Written   *)
(* as nested steps, and made into trees the way the compiler makes them.   *)
(***************************************************************************)
EXTENDS FlowFrames, SequencesExt

----------------------------------------------------------------------------
(* Expressions: they depend on how many outputs there are *)

Outputs(scope) == Cardinality(DOMAIN scope.output)

\* Items and accumulators are lists of pairs.  JSON tells values apart by how many parts
\* they have: a list here has 1, what a task outputs has 2, and a scope 3.
List(pairs) == <<pairs>>

MCEval(expression, scope) ==
  LET n == expression.limit IN
  CASE expression.of = "scope" -> scope
    [] expression.of = "outputs" -> Outputs(scope) >= n
    [] expression.of = "items" ->
         [i \in 1..(1 + (Outputs(scope) % 2)) |-> List(<<<<i, Outputs(scope)>>>>)]
    [] expression.of = "guard" -> scope.iteration.index <= 2 /\ Outputs(scope) < n
    [] expression.of = "merge" ->
         List(Append(IF scope.accumulator = None THEN <<>> ELSE scope.accumulator[1],
                     <<scope.iteration.index, Outputs(scope)>>))

Expression(of, n) == [of |-> of, limit |-> n]

----------------------------------------------------------------------------
(* JSON: what the tasks of some flows output is dropped, or reads back as something else, *)
(* and so do some of the pairs of lists; and some flows cannot be encoded after a task    *)

ListAsJson(list) ==
  List([i \in DOMAIN list[1] |-> IF list[1][i][2] = 3 THEN <<list[1][i][1], 0>> ELSE list[1][i]])

TaskOutputAsJson(instance) ==
  LET choice == instance[1][1] IN
  CASE choice % 7 = 3 -> None
    [] choice % 5 = 2 -> <<<<0, instance[1][2]>>, instance[2]>>
    [] OTHER -> instance

ValueAsJson(value) ==
  CASE value = None -> None
    [] value # None /\ Cardinality(DOMAIN value) = 1 -> ListAsJson(value)
    [] value # None /\ Cardinality(DOMAIN value) = 2 -> TaskOutputAsJson(value)

ScopeAsJson(scope) ==
  [scope EXCEPT !.output = [name \in {m \in DOMAIN @ : ValueAsJson(@[m]) # None} |-> ValueAsJson(@[name])]]

MCJson(value) == IF Cardinality(DOMAIN value) = 3 THEN ScopeAsJson(value) ELSE ValueAsJson(value)

MCEncodes(checkpoint) ==
  \/ \A n \in DOMAIN checkpoint.frames : n[1] % 11 # 6
  \/ DOMAIN checkpoint.output = {}

----------------------------------------------------------------------------
(* Nested steps *)

Task(waits) == [kind |-> "task", steps |-> <<>>, waits |-> waits, inputs |-> Expression("scope", 0)]
WaitingTask == Task(TRUE)
PlainTask == Task(FALSE)
Sequence(steps) == [kind |-> "sequence", steps |-> steps]
Parallel(steps) == [kind |-> "parallel", steps |-> steps]
Conditional(n, m, steps) ==
  [kind |-> "conditional", steps |-> <<Sequence(steps), Sequence(<<PlainTask>>)>>,
   conditions |-> <<Expression("outputs", n), Expression("outputs", m)>>]
ForEach(until, accumulate, initial, steps) ==
  [kind |-> "for_each", steps |-> <<Sequence(steps)>>, items |-> Expression("items", 0),
   until |-> IF until = 0 THEN None ELSE Expression("outputs", until),
   accumulate |-> accumulate, initial |-> initial, merge |-> Expression("merge", 0)]
While(n, steps) ==
  [kind |-> "while", steps |-> <<Sequence(steps)>>, guard |-> Expression("guard", n),
   accumulate |-> TRUE, initial |-> None, merge |-> Expression("merge", 0)]

Unnamed(step) == step @@ [name |-> None]

Variant(v, b) ==
  CASE v = 1 -> ForEach(0, TRUE, List(<<>>), b)
    [] v = 2 -> ForEach(0, TRUE, None, b)
    [] v = 3 -> ForEach(2, TRUE, List(<<>>), b)
    [] v = 4 -> Unnamed(ForEach(2, TRUE, None, b))
    [] v = 5 -> ForEach(0, FALSE, None, b)
    [] v = 6 -> While(1, b)
    [] v = 7 -> While(3, b)
    [] v = 8 -> Conditional(0, 0, b)
    [] v = 9 -> Conditional(1, 0, b)
    [] v = 10 -> Conditional(1, 2, b)
    [] v = 11 -> Parallel(<<Head(b), WaitingTask>>)
    [] v = 12 -> Parallel(<<Head(b), PlainTask>>)

Tasks(l) ==
  CASE l = 1 -> <<WaitingTask>>
    [] l = 2 -> <<PlainTask, WaitingTask>>
    [] l = 3 -> <<WaitingTask, PlainTask>>

\* The flows are numbered: 36 inner steps in 30 places.
Definition(choice) ==
  LET inner == Variant(1 + (choice % 12), Tasks(1 + ((choice \div 12) % 3)))
      place == choice \div 36
  IN CASE place \in 0..11 -> <<Variant(1 + place, <<inner>>), PlainTask>>
       [] place \in 12..21 -> <<Variant(place - 11, <<inner, WaitingTask>>), PlainTask>>
       [] place \in 22..28 -> <<Variant(place - 21, <<WaitingTask>>), inner, PlainTask>>
       [] place = 29 -> <<PlainTask, inner, WaitingTask>>

FlowChoices == 1..1079

----------------------------------------------------------------------------
(* Trees *)

\* For TLC to evaluate a function and a bound value once.
Listed(f) == f @@ <<>>
The(values) == CHOOSE v \in values : TRUE

RECURSIVE Flattened(_, _)

\* The nodes of a step and what is under it, by their places.
Flattened(step, place) ==
  The({(place :> step) @@
         [p \in UNION {DOMAIN below[i] : i \in DOMAIN below} |-> below[p[Len(place) + 1]][p]] :
       below \in {Listed([i \in DOMAIN step.steps |-> Flattened(step.steps[i], Append(place, i))])}})

UpToPlace(place) == {SubSeq(place, 1, i) : i \in 0..Len(place)}
Longest(places) == CHOOSE p \in places : \A q \in places : Len(q) <= Len(p)

\* Node p of the flow of a choice, given the steps at all places of the flow.
Compiled(choice, steps, p) ==
  LET KindOver(q) == IF q = <<>> THEN None ELSE steps[Front(q)].kind
      InBlock(q) == KindOver(q) = "parallel"
      Owning(q) ==
        /\ steps[q].kind = "sequence"
        /\ KindOver(q) \in {None, "for_each", "while"} \/ InBlock(Front(q))
      NodeAt(q) == <<choice, q>>
      NodesAt(places) == {NodeAt(q) : q \in places}
      up == UpToPlace(p)
      loops == {q \in up \ {p} : steps[q].kind \in {"for_each", "while"}}
  IN [f \in DOMAIN steps[p] \ {"steps"} |-> steps[p][f]] @@
     [name |-> p, parent |-> IF p = <<>> THEN None ELSE NodeAt(Front(p)),
      above |-> NodesAt(up \ {p}),
      under |-> NodesAt({q \in DOMAIN steps : p \in UpToPlace(q)}),
      children |-> [i \in DOMAIN steps[p].steps |-> NodeAt(Append(p, i))],
      layer |-> NodeAt(Longest({q \in up : q = <<>> \/ InBlock(q)})),
      scope |-> NodeAt(Longest({q \in up : Owning(q)})),
      loop |-> IF loops = {} THEN None ELSE NodeAt(Longest(loops))]

TreeOf(choice, definition) ==
  The({Listed([p \in DOMAIN steps |-> Compiled(choice, steps, p)]) :
       steps \in {Flattened(Sequence(definition), <<>>)}})

Trees == [choice \in FlowChoices |-> TreeOf(choice, Definition(choice))] @@ <<>>

Nodes ==
  The({UNION {{choice} \X DOMAIN trees[choice] : choice \in FlowChoices} : trees \in {Trees}})

MCTree(n) == Trees[n[1]][n[2]]
MCNode == Nodes
MCFlows == FlowChoices \X {<<>>}
=============================================================================
