--------------------------- MODULE CronLeadership ---------------------------
(***************************************************************************)
(* What the cluster promises about its cron schedule, whatever the workers *)
(* do: one leader at a time, a new one only after the old one is gone, and *)
(* none any more once the cluster closes.  ClusterSupervisor implements it.*)
(***************************************************************************)
EXTENDS Naturals

CONSTANT MaxLeader          \* bound: the largest leader id

VARIABLES
  leader,    \* id of the worker that runs the schedule, 0 for none
  owed,      \* a successor is on its way
  open       \* successors may still be elected

lvars == <<leader, owed, open>>

LInit == leader = 0 /\ owed = FALSE /\ open = TRUE

First == leader = 0 /\ ~owed /\ open /\ leader' = 1 /\ UNCHANGED <<owed, open>>

\* A successor is elected into the empty, owed slot.
Elect(w) ==
  /\ open /\ leader = 0 /\ owed
  /\ leader' = w /\ owed' = FALSE /\ UNCHANGED open

\* The leader dies; its succession is owed unless the cluster closes with it.
Lose ==
  /\ leader # 0 /\ leader' = 0
  /\ \/ open /\ owed' = TRUE /\ UNCHANGED open
     \/ owed' = FALSE /\ open' = FALSE

Abandon == owed /\ owed' = FALSE /\ UNCHANGED <<leader, open>>

Close == open /\ open' = FALSE /\ owed' = FALSE /\ UNCHANGED leader

LNext == First \/ Lose \/ Abandon \/ Close \/ \E w \in 1..MaxLeader : Elect(w)

LSpec == LInit /\ [][LNext]_lvars
=============================================================================
