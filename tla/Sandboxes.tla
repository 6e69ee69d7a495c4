----------------------------- MODULE Sandboxes -----------------------------
(***************************************************************************)
(* Model checking of the two sandboxes.  A build has one of them: a        *)
(* behaviour is one of either, and they share no state.                    *)
(***************************************************************************)
EXTENDS SandboxLinux, SandboxWindows

VARIABLE platform  \* the operating system

SandboxInit == platform \in {"linux", "windows"} /\ LinInit /\ WinInit

LinuxNext == platform = "linux" /\ LinNext /\ UNCHANGED <<platform, winVars>>
WindowsNext == platform = "windows" /\ WinNext /\ UNCHANGED <<platform, linVars>>
SandboxNext == LinuxNext \/ WindowsNext

sandboxVars == <<platform, linVars, winVars>>

\* Each fairness condition is about the steps of its own platform.
SandboxSpec ==
    /\ SandboxInit /\ [][SandboxNext]_sandboxVars
    /\ \A l \in Launches : WF_sandboxVars(platform = "linux" /\ UNCHANGED <<platform, winVars>>
            /\ (ProbeStep(l) \/ SupervisorStep(l) \/ Tick(l)))
    /\ \A r \in Runs : WF_sandboxVars(platform = "windows" /\ UNCHANGED <<platform, linVars>>
            /\ LaunchStep(r))

\* A launch comes to its end on either system, unless its process is killed.
SandboxesReturn == LaunchReturns /\ SandboxRunReturns

=============================================================================
