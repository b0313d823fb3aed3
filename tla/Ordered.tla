------------------------------- MODULE Ordered -------------------------------
(***************************************************************************)
(* What sorts, comprehensions, loops and sums of the program leave: the    *)
(* elements of a set of numbers in ascending order, what is kept of a      *)
(* list, the last value of a loop, a total.  A list is defined by counting *)
(* its places and not by a sort or a fold, so that what is made with it    *)
(* can be proved about (OrderedProofs).                                    *)
(***************************************************************************)
EXTENDS Integers, Sequences, FiniteSets, FiniteSetsExt

\* The elements of the finite set S of numbers, in ascending order.
InOrder(S) ==
    [k \in 1..Cardinality(S) |-> CHOOSE i \in S : Cardinality({j \in S : j <= i}) = k]

\* The elements of the finite set S in an order of which R has the pairs.
Arranged(S, R) ==
    [k \in 1..Cardinality(S) |-> CHOOSE i \in S : Cardinality({j \in S : <<j, i>> \in R}) = k - 1]

\* The elements of s that are in Good, in their order.
Filtered(s, Good) ==
    LET at == InOrder({i \in DOMAIN s : s[i] \in Good})
    IN [k \in DOMAIN at |-> s[at[k]]]

\* What a loop of n turns leaves that starts with base, step[<<i, x>>] being what its
\* i-th turn makes of x.
Looped(n, base, step) ==
    LET loop[i \in 0..n] == IF i = 0 THEN base ELSE step[<<i, loop[i - 1]>>]
    IN loop[n]

\* The sum of f over S.
SumOf(f, S) == MapThenSumSet(LAMBDA x : f[x], S)
=============================================================================
