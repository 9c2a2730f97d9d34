-------------------------- MODULE MCVisitPublishing --------------------------
(* A history that is excused is followed only as far as one request at a   *)
(* time: nothing but its type is asked of it, and it is most of the states.*)
EXTENDS VisitPublishing

UnderWay == {c \in Coordinator : office[c] # NoRequest}
Followed == Excused => Cardinality(UnderWay) <= 1

MCSpec ==
    /\ PublishingInit /\ [][Followed /\ PublishingNext]_vars
    /\ PublishingFairness
=============================================================================
