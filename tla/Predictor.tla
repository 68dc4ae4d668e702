------------------------------- MODULE Predictor -------------------------------
(***************************************************************************)
(* MarkovAstPredictor: how often, below a node of a kind whose parent is   *)
(* of a kind, a child, and any descendant, of a kind was seen.  A tree is  *)
(* the sequence of its nodes, in the order they are visited, each with its *)
(* kind and the place of its parent, 0 for the root; counts are bags.      *)
(* What is asked of the counts (predict_next, should_prune_subtree) only   *)
(* compares them with a threshold and changes nothing: it is left out.     *)
(***************************************************************************)
EXTENDS Integers, FiniteSets, Sequences, SequencesExt

NoParent == 0
EmptyModel == [transitions |-> EmptyBag, descendants |-> EmptyBag, totals |-> EmptyBag]

\* Mutant: a transition is counted once.
ObserveNewOnly(model, parent, current, next) ==
    IF BagIn(<<parent, current, next>>, model.transitions) THEN model
    ELSE [model EXCEPT !.totals = @ (+) SetToBag({<<parent, current>>}),
                       !.transitions = @ (+) SetToBag({<<parent, current, next>>})]

observe_transition(model, parent, current, next) ==
    [model EXCEPT !.totals = @ (+) SetToBag({<<parent, current>>}),
                  !.transitions = @ (+) SetToBag({<<parent, current, next>>})]

KindAt(tree, i) == IF i = 0 THEN NoParent ELSE tree[i].kind
ParentKind(tree, i) == KindAt(tree, tree[i].parent)
Elders(tree, i) == {j \in 1 .. i - 1 : tree[j].parent = tree[i].parent}

\* A child is noted below its parent and after its elder.
VisitChild(model, tree, i) ==
    LET up == tree[i].parent
        elder == CHOOSE j \in Elders(tree, i) : \A k \in Elders(tree, i) : k <= j
        below == observe_transition(model, ParentKind(tree, up), tree[up].kind, tree[i].kind)
    IN IF Elders(tree, i) = {} THEN below
       ELSE observe_transition(below, tree[up].kind, tree[elder].kind, tree[i].kind)

\* Every child in turn; and of every node the kinds of its subtree, its own included.
traverse_and_observe(model, tree) ==
    LET visited == FoldLeft(LAMBDA done, i : IF tree[i].parent = 0 THEN done ELSE VisitChild(done, tree, i),
                            model, [i \in DOMAIN tree |-> i])
        Seen[i \in DOMAIN tree] ==
            FoldSet(LAMBDA child, seen : seen (+) Seen[child], SetToBag({tree[i].kind}),
                    {child \in DOMAIN tree : tree[child].parent = i})
        Noted(i) == [key \in {<<ParentKind(tree, i), tree[i].kind, kind>> : kind \in DOMAIN Seen[i]} |-> Seen[i][key[3]]]
    IN [visited EXCEPT !.descendants = FoldLeft(LAMBDA bag, i : bag (+) Noted(i), @, [i \in DOMAIN tree |-> i])]

observe_tree(model, root) == traverse_and_observe(model, root)

total_observations(model) == BagCardinality(model.totals)
================================================================================
