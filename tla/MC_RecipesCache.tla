-------------------------- MODULE MC_RecipesCache --------------------------
(* Instantiates RecipesCache: two supported pairs and an unsupported one.  *)
EXTENDS RecipesCache

CONSTANTS llamacpp_vulkan, llamacpp_rocm, sdcpp_rocm, t1, t2

MC_Backends == {llamacpp_vulkan, llamacpp_rocm, sdcpp_rocm}
MC_Unsupported == {sdcpp_rocm}
MC_OneThread == {t1}
MC_TwoThreads == {t1, t2}
MC_MaxRequests == 4
=============================================================================
