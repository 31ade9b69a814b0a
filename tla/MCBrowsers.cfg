CONSTANTS
    Lanes = {"m68k", "ppc"}
    NBACKENDS <- MCBackends
    ExactFlags <- MCExactFlags
    Kernels = 2
    verify_budget = 2
    bench_budget = 5
    Times = {1, 2}
    Browsers = 2
    Repetitions = {0, 2}
SPECIFICATION Spec
INVARIANT TypeOK FiguresAreVerified FailIsJustified RunsAreComparable
INVARIANT BestIsLeastMeasured ReportIsThePagesOwn ReportIsWhole NotCutShort
PROPERTY RunnerEnds
CHECK_DEADLOCK FALSE
