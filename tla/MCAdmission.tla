------------------------------ MODULE MCAdmission ------------------------------
(* Instances of Admission for TLC: tags and savers are interchangeable.      *)
EXTENDS Admission, TLC

Says(status, expires) == [status |-> status, expires |-> expires]
Said == {Says("Accepted", FALSE), Says("Accepted", TRUE), Says("Blocked", FALSE)}

\* New lists of one tag, one too long, and changes.
Update(v, full, set, del) == [version |-> v, full |-> full, set |-> set, del |-> del]
Updating ==
    {Update(1, TRUE, [x \in {t} |-> Says("Accepted", TRUE)], {}) : t \in Tags}
    \cup {Update(2, TRUE, [x \in Tags |-> Says("Accepted", FALSE)], {})}
    \cup {Update(2, FALSE, [x \in {t} |-> Says("Blocked", FALSE)], Tags \ {t}) : t \in Tags}

Symmetry == Permutations(Tags) \cup Permutations(Savers)
=============================================================================
