----------------------------- MODULE MCNmRouter -----------------------------
EXTENDS NmRouter, TLC

Symmetry == Permutations(Cid)

\* What decides the further course: all but the histories of failures and of
\* what the device has done, which no action reads.
Course == <<prog, op, vsq, up, issued, extra, ios, hq, nsq, ncq, cqe>>
=============================================================================
