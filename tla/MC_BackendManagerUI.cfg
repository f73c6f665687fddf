\* The backends view, its handlers and the refreshes they trigger, with
\* failing requests, until the user stops.
CONSTANTS
    k1 = k1
    k2 = k2
    NoInfo = NoInfo
    Keys <- MC_Keys
    MaxOps <- MC_MaxOps
    MaxClicks <- MC_MaxClicks
    MaxFailures <- MC_MaxFailures
    GithubSized <- MC_Keys
SPECIFICATION Spec
INVARIANT InstallingMatchesRunning
PROPERTY SizeLookupsStop
PROPERTY BackendsEventuallyShown
\* The app idles once the user stops and every request has settled.
CHECK_DEADLOCK FALSE
