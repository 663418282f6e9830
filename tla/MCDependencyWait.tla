-------------------------- MODULE MCDependencyWait --------------------------
(* Setups for TLC's run of DependencyWait.                                 *)
EXTENDS DependencyWait

CONSTANTS a, b, c, ghost

None == [s \in Services |-> << >>]

\* a and b wait for each other; b is restarted.
Mutual == [units |-> {a, b}, deps |-> None, after |-> [None EXCEPT ![a] = <<b>>, ![b] = <<a>>],
           restarted |-> {b}]

\* b depends on a and waits for it to stop all the same; so does c, but for a
\* name that is no service, so that it does not wait.
OnDependency == [units |-> {a, b, c}, deps |-> [None EXCEPT ![b] = <<a>>],
                 after |-> [None EXCEPT ![b] = <<c, a>>, ![c] = <<ghost, a>>],
                 restarted |-> {}]

WaitSetups == {Mutual, OnDependency}
WaitBound == [start |-> 3, restart |-> 1, stop |-> 1, fault |-> 1]
=============================================================================
