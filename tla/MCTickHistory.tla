---------------------------- MODULE MCTickHistory ----------------------------
(* TickHistory on one symbol, whose events are stamped 1 or 2.  Two        *)
(* clients ask alike: for more rows than the store returns at once, or for *)
(* a range that leaves timestamps out, with the default limit.             *)
EXTENDS TickHistory

CONSTANTS A, P, R1, R2

JustOne == A :> P

Asked == {[symbol |-> A, from |-> 1, to |-> 2, limit |-> 3],
          [symbol |-> A, from |-> 2, to |-> 2, limit |-> Absent]}

Alike == Permutations({R1, R2})
=============================================================================
