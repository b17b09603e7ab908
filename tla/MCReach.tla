------------------------------ MODULE MCReach -------------------------------
(* Instances of Reach: a small model with a cycle, a diamond, a self loop   *)
(* and states at distances 0 to 3, and a wide one whose load is worth        *)
(* sharing.                                                                 *)
EXTENDS Reach

MCState == 1 .. 6
Small == << {2, 3}, {3, 4}, {4, 1}, {5}, {5}, {} >>
Wide == << {2, 3, 4, 5}, {1}, {6}, {6}, {}, {2} >>

Job(succ, error, strategy, max_level) ==
    [succ |-> succ, error |-> error, strategy |-> strategy,
     max_level |-> max_level]

MCJobs == {Job(succ, error, strategy, 9) :
             succ \in {Small, Wide}, error \in {{}, {5}},
             strategy \in {"bfs", "sbfs"}}
          \cup {Job(succ, {}, "sbfs", max) : succ \in {Small, Wide}, max \in 1 .. 3}
=============================================================================
