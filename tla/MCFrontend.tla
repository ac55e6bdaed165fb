----------------------------- MODULE MCFrontend -----------------------------
(* Two states of a cluster, three chapters, schedules of every shape the      *)
(* panel has words for.                                                      *)
EXTENDS Frontend

TaskOf(id, retries) == [id |-> id, priority |-> 5, retries |-> retries, max_retries |-> 3]

NodeOf(id, capacity, alive, inFlight) ==
    [id |-> id, capacity |-> capacity, alive |-> alive, in_flight_tasks |-> inFlight]

\* A leader without workers, an overfull node and one with more workers than dots;
\* then the first two are dead, one of them with tasks, and event IDs collide.
MCHistory ==
    <<[nodes |-> {NodeOf(1, 0, TRUE, 0), NodeOf(2, 2, TRUE, 3), NodeOf(3, 13, TRUE, 1)},
       leader |-> 1,
       events |-> <<[id |-> 1, type |-> "submitted"]>>,
       cluster |-> <<>>,
       enhanced |-> [total_processed |-> 0, total_failed |-> 0, total_retries |-> 0,
                     queue_size |-> 1, active_workers |-> 2, success_rate |-> 0,
                     delayed_queue_size |-> 1, dead_letter_size |-> 0, total_submitted |-> 4],
       queues |-> [ready |-> <<TaskOf(1, 0)>>, delayed |-> <<[task |-> TaskOf(2, 0), execute_at |-> 7]>>],
       failed |-> <<>>],
      [nodes |-> {NodeOf(1, 0, FALSE, 0), NodeOf(2, 2, FALSE, 2), NodeOf(3, 13, TRUE, 2)},
       leader |-> 3,
       events |-> <<[id |-> 2, type |-> "failed"], [id |-> 2, type |-> "dead_lettered"],
                    [id |-> 1, type |-> "submitted"]>>,
       cluster |-> <<[id |-> 3, type |-> "node_dead"]>>,
       enhanced |-> [total_processed |-> 1, total_failed |-> 2, total_retries |-> 1,
                     queue_size |-> 2, active_workers |-> 1, success_rate |-> 33,
                     delayed_queue_size |-> 0, dead_letter_size |-> 1, total_submitted |-> 5],
       queues |-> [ready |-> <<TaskOf(2, 0), TaskOf(1, 1)>>, delayed |-> <<>>],
       failed |-> <<[task |-> TaskOf(4, 3), reason |-> "exhausted"]>>]>>

\* The second is not out yet.
MCChapters ==
    <<Written("one", 1, "Foundations"),
      [Written("two", 2, "Phase 1") EXCEPT !.status = "coming-soon", !.body = FALSE],
      Written("three", 3, "Phase 1")>>

Star == [kind |-> "star", n |-> 0]
At(n) == [kind |-> "at", n |-> n]
Every(n) == [kind |-> "every", n |-> n]

\* Schedules with right words, with none, and with wrong ones: steps that divide and
\* that do not, a day, an hour, and steps of whole hours.
MCTyped ==
    {<<At(0), At(0), At(0), Star, Star, Star>>,
     <<At(0), At(0), At(0), At(1), Star, Star>>,
     <<At(0), At(0), Every(2), Star, Star, Star>>,
     <<Every(7), Star, Star, Star, Star, Star>>,
     <<At(0), At(0), Every(5), Star, Star, Star>>,
     <<Every(15), Star, Star, Star, Star>>,
     <<Every(15), Every(1), Star, Star, Every(1)>>,
     <<Every(15), At(9), Star, Star, Star>>,
     <<Every(15), Star, Star, Star, At(1)>>,
     <<Every(45), Star, Star, Star, Star>>,
     <<Every(120), Every(2), Star, Star, Star>>,
     <<At(0), Every(12), Star, Star, Star>>,
     <<At(0), Every(12), At(1), Star, Star>>,
     <<At(0), Star, Star, Star, Star>>,
     <<Star, Star, Star, Star, Star>>,
     <<At(30), At(9), Star, Star, At(1)>>}
=============================================================================
