------------------------------ MODULE MCMergePr ------------------------------
(* Instances of MergePr. *)
EXTENDS MergePr, TLC

Perms == Permutations(Workflows) \cup Permutations(Hosts)

\* Nothing has happened to a pull request yet.
Untouched(w) == attempt[w] = 0 /\ pr[w] = "OPEN" /\ ci[w] = "running" /\ stale[w] = "none"
Alone(w) == \A v \in Workflows \ {w} : Untouched(v)

\* Merges into main that a modelled run has made.
Merged == Cardinality({w \in Workflows : pr[w] = "MERGED"})

\* Either one pull request is alone, with all its attempts and no crash; or each has
\* one attempt, main moves by their merges only, GitHub shows every head at once,
\* and no check fails.
TwoAttempts ==
    \/ pid = 0 /\ \E w \in Workflows : Alone(w)
    \/ /\ mainTip = Merged
       /\ \A w \in Workflows :
              attempt[w] <= 1 /\ stale[w] = "none" /\ ci[w] \in {"unregistered", "running", "passed"}

\* Others push to the branch of one that is alone and at work.
OthersPush == \A w \in Workflows : OtherPush(w) => Alone(w) /\ attempt[w] > 0
=============================================================================
