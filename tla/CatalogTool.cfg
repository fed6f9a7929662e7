\* Two processes with one command each beside two changes to the repository.
SPECIFICATION Spec
CONSTANTS
    Tools = {t1, t2}
    None = None
    Rank <- MCRank
    Backslashed <- MCBackslashed
    Workspaces <- MCWorkspaces
    Repositories <- MCRepositories
    CommandLines <- MCCommandLines
    Missing = Missing
    Empty = Empty
    Torn = Torn
    MaxRuns = 1
    MaxChanges = 1
SYMMETRY Symmetry
INVARIANTS
    WriteRepairs
    CheckTellsFreshness
    AcceptsExactlyCanonical
    GeneratedIsFaithful
    AnswersAgree
CHECK_DEADLOCK FALSE
