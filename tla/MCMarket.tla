------------------------------ MODULE MCMarket ------------------------------
(* Market on small instances. *)
EXTENDS Market, TLC

CONSTANTS m1, m2, w1, w2, a1, a2

Wants == m1 :> 2 @@ m2 :> 1

\* calls of m1, calls of m2, and the workers
With(levels, executes, n1, n2, workers) ==
    [levels |-> levels, executes |-> executes,
     calls |-> m1 :> n1 @@ m2 :> n2, workers |-> workers]

\* One arena and two, with two workers, at one level; one arena with tasks of two
\* levels; one such arena and an idle one; two such arenas with one worker.
Cases ==
    {With({NormalPriority}, TRUE, 4, 0, {w1, w2}),
     With({NormalPriority}, TRUE, 2, 2, {w1, w2}),
     With({1, 2}, FALSE, 3, 0, {w1, w2}),
     With({1, 2}, FALSE, 2, 1, {w1, w2}),
     With({1, 2}, FALSE, 2, 2, {w1})}

\* One arena with tasks of two levels.
TwoLevels == {With({1, 2}, FALSE, 3, 0, {w1, w2})}
=============================================================================
