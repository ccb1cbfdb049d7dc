-------------------------------- MODULE Mcts --------------------------------
(***************************************************************************)
(* The engine's tree search (engine/src/mcts.cpp): selection with virtual  *)
(* loss, batched evaluation behind a cache, backup, and a tree that is     *)
(* kept from one move of the game to the next.                             *)
(*                                                                         *)
(* The game is a constant: a finite graph of positions.  A position stands *)
(* for a board signature, so two lines of play that meet are one position. *)
(* A node is named by the actions that lead to it from the root.  PUCT     *)
(* ranks the children by floating point numbers; the model lets any child  *)
(* the code may compare be the best one.  A prior is 0 or positive (1).    *)
(***************************************************************************)
EXTENDS Gomoku, Sequences, SequencesExt

CONSTANTS
    Start,        \* the first position
    Succ,         \* position -> the function from its legal actions to positions
    Mover,        \* position -> the seat to act there
    Opening,      \* positions before standard play, where the mover may act again
    Outcome,      \* terminal position -> its value for seat A
    Value,        \* position -> the evaluator's value for its mover
    ZeroPrior,    \* position -> the actions the evaluator's policy rounds to 0
    Solved,       \* position the endgame solver proves -> its winning action
    SafeActions,  \* position under a threat -> the actions the defence allows
    BatchSize, VirtualLoss,
    Noise,        \* whether the search was made with root noise
    MaxSimulations  \* bound on the simulations of one search

Positions == DOMAIN Succ
Actions == UNION {DOMAIN Succ[p] : p \in Positions}
Legal(p) == DOMAIN Succ[p]
IsTerminal(p) == p \in DOMAIN Outcome

ASSUME GameIsWellFormed ==
    /\ Start \in Positions /\ BatchSize \in Nat \ {0} /\ VirtualLoss \in Nat /\ Noise \in BOOLEAN
    /\ \A p \in Positions : \A a \in Legal(p) : Succ[p][a] \in Positions
    /\ Outcome \in [DOMAIN Outcome -> -1 .. 1]
    /\ Mover \in [Positions -> Seats] /\ Value \in [Positions -> -1 .. 1]
    /\ \A p \in Positions : IsTerminal(p) <=> Legal(p) = {}
    /\ \A p \in Positions \ Opening, a \in Actions :
           a \in Legal(p) => Mover[Succ[p][a]] = Other(Mover[p])
    /\ ZeroPrior \in [Positions -> SUBSET Actions]
    /\ \A p \in DOMAIN Solved : Solved[p] \in Legal(p)
    /\ \A p \in DOMAIN SafeActions : SafeActions[p] # {} /\ SafeActions[p] \subseteq Legal(p)

VARIABLES
    pos,         \* the caller's board
    nodes,       \* the tree: path -> node; empty when root_ is null
    cache,       \* evaluation_cache_
    noise,       \* dirichlet_noise_ is set
    flags,       \* root_noise_applied_, defensive_filter_applied_, ..mask_active_
    pc, paths, simulations,   \* Search: where it is, its batch, its progress
    policy,      \* the actions the last Search gave a positive probability
    searched     \* the caller has searched this position

tree == <<nodes, cache, noise, flags>>
vars == <<pos, tree, pc, paths, simulations, policy, searched>>

NoFlags == [noised |-> FALSE, filtered |-> FALSE, masked |-> FALSE]

-----------------------------------------------------------------------------
(* Nodes.  hits and gain are not in the program: the simulations backed up  *)
(* through a node and the sum of their values for seat A.                   *)

NewNode(prior, seat) ==
    [prior |-> prior, seat |-> seat, visits |-> 0, sum |-> 0, expanded |-> FALSE,
     hits |-> 0, gain |-> 0]

Root == <<>>
HasRoot == Root \in DOMAIN nodes

\* The position the actions of a path lead to.
Walk(p, path) ==
    LET at[i \in 0 .. Len(path)] == IF i = 0 THEN p ELSE Succ[at[i - 1]][path[i]]
    IN  at[Len(path)]

Board(path) == Walk(pos, path)

ChildPaths(ns, path) == {q \in DOMAIN ns : Len(q) = Len(path) + 1 /\ Front(q) = path}

\* A plausible slip: the seat always changes, in the opening too.
MutChildSeat(p, action) == Other(Mover[p])

\* The seat to act at a child: the other one in standard play, what the board
\* forecasts in the opening.
ChildSeat(p, action) ==
    IF p \notin Opening THEN Other(Mover[p]) ELSE Mover[Succ[p][action]]

Expand(ns, path, p, pmf) ==
    IF ns[path].expanded THEN ns
    ELSE [q \in DOMAIN ns \cup {Append(path, a) : a \in Legal(p)} |->
            IF q = path THEN [ns[q] EXCEPT !.expanded = TRUE]
            ELSE IF q \in DOMAIN ns THEN ns[q]
            ELSE NewNode(pmf[Last(q)], ChildSeat(p, Last(q)))]

\* A loss for the seat that selects the node, whichever seat acts there.
LossFor(node, selector) ==
    IF node.seat = selector THEN -VirtualLoss ELSE VirtualLoss

AddVirtualLoss(node, selector) ==
    [node EXCEPT !.visits = @ + VirtualLoss, !.sum = @ + LossFor(node, selector)]

\* A plausible slip: the sign of an edge that changes the seat, always.
MutRevertVirtualLoss(node, selector) ==
    [node EXCEPT !.visits = @ - VirtualLoss, !.sum = @ - VirtualLoss]

RevertVirtualLoss(node, selector) ==
    [node EXCEPT !.visits = @ - VirtualLoss, !.sum = @ - LossFor(node, selector)]

Update(node, value, gain) ==
    [node EXCEPT !.visits = @ + 1, !.sum = @ + value,
                 !.hits = @ + 1, !.gain = @ + gain]

-----------------------------------------------------------------------------
(* Evaluations and priors.                                                  *)

NetworkPolicy(p) == [a \in Legal(p) |-> IF a \in ZeroPrior[p] THEN 0 ELSE 1]

\* What the cache is filled with: the solver's proof overrides the network.
Evaluation(p) ==
    IF p \in DOMAIN Solved
    THEN [value |-> 1, pmf |-> [a \in Legal(p) |-> IF a = Solved[p] THEN 1 ELSE 0]]
    ELSE [value |-> Value[p], pmf |-> NetworkPolicy(p)]

\* A plausible slip: safe actions without a prior get none.
MutMaskPolicyToSafeActions(p, pmf) ==
    IF p \notin DOMAIN SafeActions THEN pmf
    ELSE [a \in Legal(p) |-> IF a \in SafeActions[p] THEN pmf[a] ELSE 0]

\* Unsafe actions lose their prior; the safe ones share it.
MaskPolicyToSafeActions(p, pmf) ==
    IF p \notin DOMAIN SafeActions THEN pmf
    ELSE LET safe == SafeActions[p]
             some == \E a \in safe : pmf[a] > 0
         IN  [a \in Legal(p) |-> IF a \notin safe THEN 0
                                 ELSE IF some THEN pmf[a] ELSE 1]

\* Dirichlet noise gives every legal action a share.
AddDirichletNoise(pmf) == [a \in DOMAIN pmf |-> 1]

RootPriors(ns) == [a \in {Last(q) : q \in ChildPaths(ns, Root)} |-> ns[<<a>>].prior]

WithRootPriors(ns, pmf) ==
    [q \in DOMAIN ns |-> IF Len(q) = 1 THEN [ns[q] EXCEPT !.prior = pmf[q[1]]]
                         ELSE ns[q]]

\* A plausible slip: the priors of a kept root are not masked.
MutApplyDefensiveFilter(ns) == ns

ApplyDefensiveFilter(ns) ==
    WithRootPriors(ns, MaskPolicyToSafeActions(pos, RootPriors(ns)))

ApplyRootNoise(ns) ==
    IF noise THEN WithRootPriors(ns, AddDirichletNoise(RootPriors(ns))) ELSE ns

\* The support of MakePriorPolicy: positive priors, else all children.
MakePriorPolicy(ns) ==
    LET pmf == RootPriors(ns)
        positive == {a \in DOMAIN pmf : pmf[a] > 0}
    IN  IF positive # {} THEN positive ELSE DOMAIN pmf

-----------------------------------------------------------------------------
(* Search.                                                                  *)

Init ==
    /\ pos = Start /\ nodes = <<>> /\ cache = {} /\ noise = Noise
    /\ flags = NoFlags /\ pc = "idle" /\ paths = <<>> /\ simulations = 0
    /\ policy = {} /\ searched = FALSE

CanSearch == pc = "idle" /\ ~IsTerminal(pos) /\ ~searched

Return(support) == policy' = support /\ searched' = TRUE /\ pc' = "idle"

\* The deadline has passed on entry.
ReturnAtOnce ==
    /\ CanSearch
    /\ Return(IF HasRoot THEN MakePriorPolicy(nodes) ELSE Legal(pos))
    /\ UNCHANGED <<pos, tree, paths, simulations>>

\* The solver proves a win at the root.
ReturnSolved ==
    /\ CanSearch /\ pos \in DOMAIN Solved
    /\ Return({Solved[pos]})
    /\ UNCHANGED <<pos, tree, paths, simulations>>

\* The root, made and expanded if it is not, with the mask on its priors.
ReadyRoot ==
    LET made == IF HasRoot THEN nodes ELSE [q \in {Root} |-> NewNode(1, Mover[pos])]
    IN  Expand(made, Root, pos, MaskPolicyToSafeActions(pos, NetworkPolicy(pos)))

IsFreshRoot == ~HasRoot \/ ~nodes[Root].expanded

Filtered ==
    [flags EXCEPT !.filtered = TRUE,
                  !.masked = IF flags.filtered /\ ~IsFreshRoot THEN @
                             ELSE pos \in DOMAIN SafeActions]

\* The deadline passes while the root is evaluated.
ReturnPriors ==
    /\ CanSearch /\ pos \notin DOMAIN Solved
    /\ nodes' = ReadyRoot
    /\ flags' = IF IsFreshRoot THEN Filtered ELSE flags
    /\ Return(MakePriorPolicy(nodes'))
    /\ UNCHANGED <<pos, cache, noise, paths, simulations>>

\* A root kept from the last move is filtered once, and noised once.
BeginSearch ==
    /\ CanSearch /\ pos \notin DOMAIN Solved
    /\ LET ready == IF ~IsFreshRoot /\ ~flags.filtered
                    THEN ApplyDefensiveFilter(ReadyRoot) ELSE ReadyRoot
       IN  nodes' = IF flags.noised THEN ready ELSE ApplyRootNoise(ready)
    /\ flags' = [Filtered EXCEPT !.noised = TRUE]
    /\ pc' = "select"
    /\ simulations' = 0
    /\ UNCHANGED <<pos, cache, noise, paths, policy, searched>>

\* The children the selection compares.
Selectable(path) ==
    {q \in ChildPaths(nodes, path) :
        ~(path = Root /\ flags.masked /\ nodes[q].prior <= 0)}

\* A descent ends at the first node that has no children (yet).
IsDescent(path) ==
    /\ \A i \in 1 .. Len(path) : SubSeq(path, 1, i) \in Selectable(SubSeq(path, 1, i - 1))
    /\ ~nodes[path].expanded \/ ChildPaths(nodes, path) = {}

OnPath(q, path) == IsPrefix(q, path)
Selector(q) == nodes[Front(q)].seat

\* One descent of the batch.
SelectLeaf ==
    /\ pc = "select" /\ Len(paths) < BatchSize
    /\ simulations + Len(paths) < MaxSimulations
    /\ \E path \in DOMAIN nodes :
          /\ IsDescent(path)
          /\ paths' = Append(paths, path)
          /\ nodes' = [q \in DOMAIN nodes |->
                         IF q # Root /\ OnPath(q, path)
                         THEN AddVirtualLoss(nodes[q], Selector(q)) ELSE nodes[q]]
    /\ UNCHANGED <<pos, cache, noise, flags, pc, simulations, policy, searched>>

IsFullBatch == Len(paths) = BatchSize \/ simulations + Len(paths) = MaxSimulations

\* The leaves the cache misses are evaluated, each position once.
EvaluateLeaves ==
    /\ pc = "select" /\ paths # <<>> /\ IsFullBatch
    /\ cache' = cache \cup {Board(p) : p \in {q \in ToSet(paths) : ~IsTerminal(Board(q))}}
    /\ pc' = "backup"
    /\ UNCHANGED <<pos, nodes, noise, flags, paths, simulations, policy, searched>>

ForSeat(seat, valueForA) == IF seat = "A" THEN valueForA ELSE -valueForA

\* The value of a leaf for the seat of its node.
LeafValue(path) ==
    IF IsTerminal(Board(path)) THEN ForSeat(nodes[path].seat, Outcome[Board(path)])
    ELSE Evaluation(Board(path)).value

\* What a node on the path is credited with.
BackedUp(node, leaf, value) == IF node.seat = leaf.seat THEN value ELSE -value

\* Not in the program: what a simulation that ends at a position is worth to
\* seat A.
ValueForA(p) ==
    IF IsTerminal(p) THEN Outcome[p] ELSE ForSeat(Mover[p], Evaluation(p).value)

\* The nodes of a path, each without the virtual loss and with the value.
Credited(path) ==
    LET Credit(n) == Update(n, BackedUp(n, nodes[path], LeafValue(path)), ValueForA(Board(path)))
    IN  [q \in DOMAIN nodes |->
            IF ~OnPath(q, path) THEN nodes[q]
            ELSE IF q = Root THEN Credit(nodes[q])
            ELSE Credit(RevertVirtualLoss(nodes[q], Selector(q)))]

\* One path: the leaf is expanded, the virtual loss taken back, the value added.
Backup ==
    /\ pc = "backup" /\ paths # <<>>
    /\ LET path == Head(paths)
           p == Board(path)
       IN  nodes' = IF IsTerminal(p) THEN Credited(path)
                    ELSE Expand(Credited(path), path, p, Evaluation(p).pmf)
    /\ paths' = Tail(paths)
    /\ simulations' = simulations + 1
    /\ pc' = IF Len(paths) = 1 THEN "select" ELSE "backup"
    /\ UNCHANGED <<pos, cache, noise, flags, policy, searched>>

\* The limit or the deadline, between two batches: the policy is the visits of
\* the children, or their priors when none was visited.
EndSearch ==
    /\ pc = "select" /\ paths = <<>>
    /\ LET visited == {Last(q) : q \in {r \in ChildPaths(nodes, Root) : nodes[r].visits > 0}}
       IN  Return(IF visited # {} THEN visited ELSE MakePriorPolicy(nodes))
    /\ UNCHANGED <<pos, tree, paths, simulations>>

-----------------------------------------------------------------------------
(* The caller: every action played, its own or the opponent's, is selected. *)

\* The subtree of a child of the root.
Subtree(ns, action) ==
    [q \in {Tail(r) : r \in {s \in DOMAIN ns : s # Root /\ Head(s) = action}} |->
        ns[Cons(action, q)]]

\* The child becomes the root with its subtree; without one everything is reset.
SelectAction(action) ==
    IF <<action>> \in DOMAIN nodes
    THEN /\ nodes' = Subtree(nodes, action)
         /\ flags' = NoFlags
         /\ UNCHANGED <<cache, noise>>
    ELSE /\ nodes' = <<>>
         /\ flags' = IF HasRoot THEN NoFlags ELSE flags
         /\ cache' = IF HasRoot THEN {} ELSE cache
         /\ UNCHANGED noise

PlayAction(action) ==
    /\ pc = "idle" /\ action \in Legal(pos)
    /\ SelectAction(action)
    /\ pos' = Succ[pos][action]
    /\ searched' = FALSE /\ policy' = {}
    /\ UNCHANGED <<pc, paths, simulations>>

\* SetDirichletNoise(nullopt), after the opening plies of a game.
DisableNoise ==
    /\ pc = "idle" /\ noise
    /\ noise' = FALSE
    /\ flags' = [flags EXCEPT !.noised = FALSE]
    /\ UNCHANGED <<pos, nodes, cache, pc, paths, simulations, policy, searched>>

Next ==
    \/ ReturnAtOnce \/ ReturnSolved \/ ReturnPriors \/ BeginSearch
    \/ SelectLeaf \/ EvaluateLeaves \/ Backup \/ EndSearch
    \/ \E action \in Actions : PlayAction(action)
    \/ DisableNoise

Spec == Init /\ [][Next]_vars

-----------------------------------------------------------------------------
(* Properties.                                                              *)

\* Every node of the kept tree stands for the position its path leads to from
\* the caller's board, with the seat to act there, and an expanded node has a
\* child for every legal action: SelectAction keeps tree and game together.
TreeFitsTheGame ==
    \A q \in DOMAIN nodes :
        /\ nodes[q].seat = Mover[Board(q)]
        /\ nodes[q].expanded => {Last(r) : r \in ChildPaths(nodes, q)} = Legal(Board(q))

\* The number of descents of the batch under way that pass through a node.
Pending(q) == Cardinality({i \in DOMAIN paths : OnPath(q, paths[i])})

\* At every moment of a batch the statistics of a node are those of the
\* simulations backed up through it, seen from its own seat, plus the virtual
\* loss of the descents under way; between batches nothing of it remains.
StatisticsAreExact ==
    \A q \in DOMAIN nodes \ {Root} :
        LET n == nodes[q]
        IN  /\ n.visits = n.hits + VirtualLoss * Pending(q)
            /\ n.sum = ForSeat(n.seat, n.gain) + Pending(q) * LossFor(n, Selector(q))

\* A descent never finds a node whose children are all excluded: best_child is
\* dereferenced without a check.
SelectionNeverFails ==
    pc = "select" =>
        \A q \in DOMAIN nodes : ChildPaths(nodes, q) # {} => Selectable(q) # {}

\* mcts.h says that under the defensive mask unsafe children of the root must be
\* excluded from selection rather than merely discouraged: no descent goes
\* through one, at a new root or a kept one, while root noise is off.  (Noise
\* gives the unsafe children their share of the prior back.)
UnsafeMovesAreExcluded ==
    flags.masked /\ ~noise =>
        \A i \in DOMAIN paths : paths[i][1] \in SafeActions[pos]
=============================================================================
