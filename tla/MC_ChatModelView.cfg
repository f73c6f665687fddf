\* The chat window, the Model Manager's load and unload, and the poll.
\* Deadlock is not checked: when the user stops, only the poll runs, and
\* once its slots are spent in a failure-free steady state it still cycles.
CONSTANTS
    a = a
    b = b
    e = e
    none = none
    Models <- MC_Models
    Modality <- MC_Modality
    NoModel <- none
    MaxFetches <- MC_MaxFetches
    MaxFailures <- MC_MaxFailures
    MaxClicks <- MC_MaxClicks
SPECIFICATION Spec
PROPERTY CurrentSettles
