---------------------------- MODULE MCProcessing ----------------------------
(* Instances of Processing for TLC. *)
EXTENDS Processing, TLC

CONSTANTS a1, a2, a3, d1, d2, t1, t2

Draft(src, did, ts) == [src |-> src, did |-> did, pub |-> FALSE,
                        pending |-> <<"publish">>, error |-> FALSE, ts |-> ts,
                        by |-> None]
Task(src, did) == [Draft(src, did, 0) EXCEPT !.pending = <<"collect">>]

\* A document and an older one that the publisher gives the same document_id.
TwoDrafts == <<Draft(1, d1, 2), Draft(2, d2, 1)>>

\* Three documents, one of them newer, for the same document_id.
ThreeDrafts == <<Draft(1, d1, 1), Draft(2, d2, 1), Draft(3, t1, 2)>>

\* A collect beside a document that is ready to be published.
TaskAndDraft == <<Task(1, t1), Draft(2, d2, 1)>>

\* Documents whose actions delete them in the end.
SplitAndUtility == <<[Draft(1, d1, 1) EXCEPT !.pending = <<"split">>],
                     [Task(2, t1) EXCEPT !.pending = <<"utility">>]>>

OneTask    == {TaskAndDraft}
OneOlder   == {TwoDrafts}
TwoOlder   == {ThreeDrafts}
AnyOfThese == {TaskAndDraft, TwoDrafts, SplitAndUtility}

OwnIds  == [d \in Did |-> d]
SameIds == [d \in Did |-> IF d = d2 THEN d1 ELSE d]
OneId   == [d \in Did |-> d1]

OneConsumer == <<"consume">>

Symmetry == Permutations(Agent)
=============================================================================
