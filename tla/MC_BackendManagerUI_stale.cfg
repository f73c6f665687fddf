\* Requests never fail: do the shown backend states settle on the server's?
CONSTANTS
    k1 = k1
    k2 = k2
    NoInfo = NoInfo
    Keys <- MC_Keys
    MaxOps <- MC_MaxOps
    MaxClicks <- MC_MaxClicks
    MaxFailures <- MC_NoFailures
    GithubSized <- MC_Keys
SPECIFICATION Spec
PROPERTY ViewConverges
\* The app idles once the user stops and every request has settled.
CHECK_DEADLOCK FALSE
