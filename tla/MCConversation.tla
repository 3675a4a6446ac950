--------------------------- MODULE MCConversation ---------------------------
EXTENDS Conversation

CONSTANTS p1, p2, u1, u2

\* The first paper links one repository, the second one both.
MCLinksOf == [paper \in {p1, p2} |-> IF paper = p1 THEN {u1} ELSE {u1, u2}]

\* The latest papers and their code, one paper and its code, one repository with a
\* paper, and a paper without its code.
MCGoals ==
    {[papers |-> {}, urls |-> {}, code |-> TRUE, declined |-> FALSE, research |-> TRUE],
     [papers |-> {p1}, urls |-> {}, code |-> TRUE, declined |-> FALSE, research |-> FALSE],
     [papers |-> {p2}, urls |-> {u1}, code |-> FALSE, declined |-> FALSE, research |-> TRUE],
     [papers |-> {p1}, urls |-> {}, code |-> TRUE, declined |-> TRUE, research |-> FALSE]}
=============================================================================
