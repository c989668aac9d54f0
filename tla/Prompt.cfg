\* Two threads and a child that may be interrupted, and answers of any length.  Processes that
\* have ended do nothing more.
SPECIFICATION FairSpec
CHECK_DEADLOCK FALSE
CONSTANTS
    Program = Program
    Threads = {main, cli}
    cliThread = cli
    Children = {child}
    Answers <- AnyAnswers
    Newline = Newline
INVARIANTS
    TypeOK
    NeverDeaf
    ReplyDecides
PROPERTIES
    ReplyEndsPrompt
