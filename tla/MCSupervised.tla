---------------------------- MODULE MCSupervised ----------------------------
EXTENDS Supervised

CONSTANTS u1, u2, m1, m2

\* 1 and 2 are one work through 3, which was updated before them and, by its publication,
\* lies behind the window on its own; 1 and 2 were updated together, and 1 was published
\* later.  4 is another work.
MCIdentitiesOf == <<<<"title a", "arxiv 1">>, <<"title b", "doi 2">>,
                    <<"title c", "arxiv 1", "doi 2">>, <<"title d">>>>
MCIdOf == <<1, 2, 1, 4>>
MCUpdatedOf == <<2, 2, 1, 2>>
MCPublishedOf == <<3, 2, 4, 1>>
MCWindow == [start |-> 2, end |-> 3]
MCLinksOf == <<{}, {u1}, {}, {}>>

MCGoals == {[papers |-> {}, urls |-> {}, code |-> TRUE, declined |-> FALSE, research |-> TRUE],
            [papers |-> {2}, urls |-> {u2}, code |-> TRUE, declined |-> FALSE, research |-> TRUE]}
=============================================================================
