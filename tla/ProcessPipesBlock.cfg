\* One byte more on stdin, and on stdout, than a pipe and a read take.
SPECIFICATION FairSpec
CONSTANTS
    MaxInput = 2
    MaxOutput = 2
    Capacity = 1
PROPERTY RunsToCompletion
CHECK_DEADLOCK FALSE
