----------------------------- MODULE MCJobWorker -----------------------------
(* Instances of JobWorker for TLC. *)
EXTENDS JobWorker, TLC

CONSTANTS r1, r2, w1, w2, x1, x2, x3, k

OneEach     == (x1 :> w1) @@ (x2 :> w2)
TwoPlusOne  == (x1 :> w1) @@ (x2 :> w1) @@ (x3 :> w2)
OnePool     == [w \in Workers |-> "interactive"]
RunsPool    == [r \in Runs |-> "interactive"]
SameKey     == [r \in Runs |-> k]
NoKeys      == [r \in Runs |-> NoKey]

\* The two runs are alike, and so are the two one-execution workers.
Symmetry ==
  {p @@ q : p \in Permutations(Runs),
            q \in {[z \in Workers \cup Execs |-> z],
                  (w1 :> w2) @@ (w2 :> w1) @@ (x1 :> x2) @@ (x2 :> x1)}}

=============================================================================
