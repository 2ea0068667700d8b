\* One isolate; a behaviour that underruns satisfies every property by then, so that the
\* constraint takes no counterexample away.
SPECIFICATION FairSpec
CONSTANTS
    Workers = {w1, w2}
    Isolates = {i1}
    Concurrency = 2
    MaxTasks = 2
    Failing = {2}
    MaxPops = 3
    Channels = {raw, method}
    MethodChannels = {method}
    ZeroedHeap = FALSE
    Contract = TRUE
CONSTRAINT BeforeUnderrun
INVARIANTS TypeOK CompleterPresentUntilUnderrun AnswersMatch AnsweredOnce MessageAlive RepliesAccountedFor
INVARIANT FailedSendsUnanswered
PROPERTIES RepliesUntilUnderrun TakenIsAnswered
CHECK_DEADLOCK FALSE
