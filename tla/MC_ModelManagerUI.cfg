\* The panel's handlers, the interval poll and the models context, until the
\* user stops.
CONSTANTS
    m1 = m1
    m2 = m2
    Models <- MC_Models
    MaxOps <- MC_MaxOps
    MaxClicks <- MC_MaxClicks
    MaxFailures <- MC_MaxFailures
SPECIFICATION Spec
PROPERTY ViewConverges
