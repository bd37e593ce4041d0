\* Two conversations, three messages, one of them a reply, late answers.
CONSTANTS
    a = a  b = b  all = all  waits = waits  q1 = q1  q2 = q2
    Nil = Nil
    Convs = {a, b}
    Times = {1, 2, 3}
    Filters = {all, waits}
    Waiting = {waits}
    Groupings <- WithOrWithout
    Replies = {2}
    CardPage = 1
    MessagePage = 1
    Lanes = {q1, q2}
SPECIFICATION Spec
INVARIANTS CardsAreCurrent OneConversation
SYMMETRY Symmetry
