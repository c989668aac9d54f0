\* main.c:28 against main.c:29 and 45: one thread, answers of more than one letter.
SPECIFICATION Spec
CHECK_DEADLOCK FALSE
CONSTANTS
    Program = Program
    Threads = {cli}
    cliThread = cli
    Children = {}
    Answers <- AnyAnswers
    Newline = Newline
INVARIANTS
    QuitIsAlwaysConfirmed
