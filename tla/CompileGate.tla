----------------------------- MODULE CompileGate -----------------------------
(***************************************************************************)
(* What the program and trace compilers promise together: "These barriers  *)
(* prevent early capture from closing the compile gate before another      *)
(* operation or lane has registered its programs"                          *)
(* (llm_runtime/README.md), and no program is compiled while a trace keeps *)
(* device addresses.  Programs are added only over a device no trace uses; *)
(* a capture starts only there, and only a capture takes resources; once   *)
(* some remain, after success or after a failure, nothing but their        *)
(* release can happen.                                                     *)
(***************************************************************************)
VARIABLES
    programs,   \* the registered programs
    capturing,  \* a capture is running
    traced      \* what traces hold on the device

vars == <<programs, capturing, traced>>

Init == programs = {} /\ capturing = FALSE /\ traced = {}

AddProgram ==
    /\ ~capturing
    /\ traced = {}
    /\ programs \subseteq programs' /\ programs' # programs
    /\ UNCHANGED <<capturing, traced>>

StartCapture ==
    /\ ~capturing
    /\ traced = {}
    /\ capturing' = TRUE
    /\ UNCHANGED <<programs, traced>>

Capture ==
    /\ capturing
    /\ traced \subseteq traced'
    /\ UNCHANGED <<programs, capturing>>

\* traced' is everything captured, or what a rollback could not release: a subset of
\* what was held and of what the failing step had just taken.
EndCapture ==
    /\ capturing
    /\ capturing' = FALSE
    /\ UNCHANGED programs

Release ==
    /\ ~capturing
    /\ traced' \subseteq traced
    /\ UNCHANGED <<programs, capturing>>

Next == AddProgram \/ StartCapture \/ Capture \/ EndCapture \/ Release

Spec == Init /\ [][Next]_vars

=============================================================================
