------------------------- MODULE CommittedConsumer -------------------------
(***************************************************************************)
(* What both Kafka consumers of the platform promise (at-least-once): they *)
(* commit only by hand ("enable.auto.commit": False), and a committed      *)
(* offset has nothing unsettled below it.  An offset is settled when it    *)
(* never has to be delivered again: its work is done, or no work exists    *)
(* for it.                                                                 *)
(***************************************************************************)
EXTENDS Integers

CONSTANT Partition

VARIABLES
  settled,     \* [Partition -> SUBSET Nat]
  committed    \* [Partition -> Nat]: the group's next offset to deliver

Init ==
  /\ settled = [p \in Partition |-> {}]
  /\ committed = [p \in Partition |-> 0]

Settle ==
  /\ \A p \in Partition : settled[p] \subseteq settled'[p]
  /\ UNCHANGED committed

Commit ==
  /\ \A p \in Partition :
       /\ committed[p] <= committed'[p]
       /\ 0 .. committed'[p] - 1 \subseteq settled[p]
  /\ UNCHANGED settled

Next == Settle \/ Commit

Spec == Init /\ [][Next]_<<settled, committed>>
=============================================================================
