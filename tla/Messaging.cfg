SPECIFICATION Spec
CONSTANTS
    Foreign = {boundary, other}
    Loop = Loop
    asker = asker
    answerer = answerer
    question = question
    answer = answer
    Modules = {asker, answerer}
    Checked = {asker}
    Stranger = Stranger
    NoSender = NoSender
    Types = {question, answer}
    Inbox <- InboxOf
    Blocks = {b1, b2, b3}
    Null = Null
SYMMETRY BlockSymmetry
INVARIANTS
    TypeOK
    ExactlyOneOwner
    LockHolderNeverWaits
PROPERTY
    TypedSendsAreRouted
CHECK_DEADLOCK FALSE
