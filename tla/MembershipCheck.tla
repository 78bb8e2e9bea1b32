--------------------------- MODULE MembershipCheck ---------------------------
(***************************************************************************)
(* What check_bridge_membership_in_os promises its callers, with no        *)
(* socket, request or reply: between entering and returning, the call     *)
(* looks at the kernel once, atomically, and answers whether M was then   *)
(* enslaved to B; a failing step may turn the answer into FALSE, never    *)
(* into TRUE.  BridgeMembership implements this specification.           *)
(***************************************************************************)
EXTENDS Naturals

CONSTANTS Callers, Bridges, Members, MaxCalls, MaxKernelOps

BridgeArgs == Bridges \cup {0}
MemArgs == Members \cup {0}

VARIABLES
    kexists, kgone, kmaster, kops,  \* the kernel, as in BridgeMembership
    busy,      \* busy[c]: caller c is inside a call
    arg,       \* arg[c]: [bridge, mem] of c's current or latest call
    answered,  \* answered[c]: the call has looked at the kernel
    res,       \* res[c]: the answer it took, once answered[c]
    last,      \* last[c]: c's latest returned call and its result
    calls

avars == <<kexists, kgone, kmaster, kops, busy, arg, answered, res, last, calls>>
kvars == <<kexists, kgone, kmaster, kops>>

\* M is enslaved to B in the kernel now.
Enslaved(b, m) == m \in kexists /\ b # 0 /\ kmaster[m] = b

\* The kernel is the environment: any change of its membership table.
AKernel ==
    /\ kops < MaxKernelOps /\ kops' = kops + 1
    /\ kexists' \in SUBSET Members /\ kgone' \in SUBSET Members
    /\ kmaster' \in [Members -> BridgeArgs]
    /\ UNCHANGED <<busy, arg, answered, res, last, calls>>

ACall(c, b, m) ==
    /\ ~busy[c] /\ calls < MaxCalls /\ calls' = calls + 1
    /\ busy' = [busy EXCEPT ![c] = TRUE]
    /\ arg' = [arg EXCEPT ![c] = [bridge |-> b, mem |-> m]]
    /\ UNCHANGED <<kvars, answered, res, last>>

\* The instant the call reads the kernel.
AAnswer(c) ==
    /\ busy[c] /\ ~answered[c]
    /\ answered' = [answered EXCEPT ![c] = TRUE]
    /\ res' = [res EXCEPT ![c] = Enslaved(arg[c].bridge, arg[c].mem)]
    /\ UNCHANGED <<kvars, busy, arg, last, calls>>

\* A step fails instead: the answer is FALSE.
AFail(c) ==
    /\ busy[c] /\ ~answered[c]
    /\ answered' = [answered EXCEPT ![c] = TRUE]
    /\ res' = [res EXCEPT ![c] = FALSE]
    /\ UNCHANGED <<kvars, busy, arg, last, calls>>

Finish(c, r) ==
    /\ busy' = [busy EXCEPT ![c] = FALSE]
    /\ answered' = [answered EXCEPT ![c] = FALSE]
    /\ res' = [res EXCEPT ![c] = FALSE]
    /\ last' = [last EXCEPT ![c] = [bridge |-> arg[c].bridge,
                                    mem |-> arg[c].mem, result |-> r]]
    /\ UNCHANGED <<kvars, arg, calls>>

AReturn(c) == busy[c] /\ answered[c] /\ Finish(c, res[c])

\* The call gives up before asking the kernel and returns FALSE.
AAbort(c) == busy[c] /\ ~answered[c] /\ Finish(c, FALSE)

AInit ==
    /\ kexists \in SUBSET Members /\ kgone = {}
    /\ kmaster \in [Members -> BridgeArgs] /\ kops = 0
    /\ busy = [c \in Callers |-> FALSE]
    /\ arg = [c \in Callers |-> [bridge |-> 0, mem |-> 0]]
    /\ answered = [c \in Callers |-> FALSE]
    /\ res = [c \in Callers |-> FALSE]
    /\ last = [c \in Callers |-> [bridge |-> 0, mem |-> 0, result |-> FALSE]]
    /\ calls = 0

ANext ==
    \/ AKernel
    \/ \E c \in Callers, b \in BridgeArgs, m \in MemArgs : ACall(c, b, m)
    \/ \E c \in Callers : AAnswer(c) \/ AFail(c) \/ AReturn(c) \/ AAbort(c)

\* A call that has started reads the kernel and returns; failing is
\* allowed but not promised.
Spec == AInit /\ [][ANext]_avars /\ \A c \in Callers : WF_avars(AAnswer(c) \/ AReturn(c))
=============================================================================
