\* Two handler threads, reliable removal, an empty cache at start: the
\* first /system-info probe races an install.
CONSTANTS
    llamacpp_vulkan = llamacpp_vulkan
    llamacpp_rocm = llamacpp_rocm
    sdcpp_rocm = sdcpp_rocm
    t1 = t1
    t2 = t2
    Empty = Empty
    Backends <- MC_Backends
    Unsupported <- MC_Unsupported
    Threads <- MC_TwoThreads
    MaxRequests <- MC_MaxRequests
    RemoveCanFail = FALSE
    StartPopulated = FALSE
SPECIFICATION Spec
INVARIANT CacheNeverHidesInstalled
CHECK_DEADLOCK FALSE
