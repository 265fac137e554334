------------------------------ MODULE MCEgress ------------------------------
EXTENDS Egress

\* A re-review: the second task is created when the first one has ended at its
\* first attempt, its findings are on the pull request and nothing is pruned.
ReReview == status[2] # "absent" =>
    /\ status[1] = "succeeded" /\ answered[1] /\ sig[1] = "none"
    /\ reviews[1] = "posted" /\ finding[1] # {} /\ buf[1] = EmptyBuffer
    /\ \A k \in Kinds : st[<<1, k>>] \in {"none", "posted"}
=============================================================================
