\* One process with one command, in each of the repositories.
SPECIFICATION Spec
CONSTANTS
    Tools = {t1}
    None = None
    Rank <- MCRank
    Backslashed <- MCBackslashed
    Workspaces <- MCWorkspaces
    Repositories <- MCRepositories
    CommandLines <- MCCommandLines
    Missing = Missing
    Empty = Empty
    Torn = Torn
    MaxRuns = 1
    MaxChanges = 0
INVARIANT ValidatesVersion2
CHECK_DEADLOCK FALSE
