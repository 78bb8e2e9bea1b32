-------------------------- MODULE BridgeMembership --------------------------
(***************************************************************************)
(* check_bridge_membership_in_os (src/src/if/os_interface.cpp 209-254)    *)
(* with its reply callback get_if_detail_from_netlink (160-194).          *)
(*                                                                         *)
(* Callers (NAS bridge code, on their own threads) ask whether member M   *)
(* is enslaved to bridge B.  Each call opens an ad hoc netlink socket,    *)
(* sends one RTM_GETLINK for M, pumps the correlated answer through the   *)
(* callback into a zeroed if_details, compares, closes and returns.  The  *)
(* kernel changes memberships concurrently; it answers a request from its *)
(* state at the moment it handles it.                                     *)
(***************************************************************************)
EXTENDS Naturals, FiniteSets

CONSTANTS
    Callers,   \* threads calling check_bridge_membership_in_os
    Bridges,   \* bridge ifindices (nonzero)
    Members,   \* port ifindices that can be enslaved (nonzero)
    MaxCalls,  \* bound on calls
    MaxKernelOps \* bound on kernel membership changes

ASSUME 0 \notin Bridges \cup Members /\ Bridges \cap Members = {}

\* The arguments a caller may pass, 0 included: hal_ifindex_t is unchecked.
BridgeArgs == Bridges \cup {0}
MemArgs == Members \cup {0}

VARIABLES
    kexists,  \* ports that exist in the kernel
    kgone,    \* deleted ports (Linux does not reuse an ifindex)
    kmaster,  \* kmaster[m]: IFLA_MASTER of port m, 0 when it has none
    kops,     \* kernel changes so far
    pc,       \* pc[c]: where caller c is
    arg,      \* arg[c]: [bridge, mem] of c's current call
    sock,     \* sock[c]: c holds an open socket
    det,      \* det[c]: details._ifindex and IFLA_MASTER (0 = NULL attribute)
    snap,     \* history: what the kernel answered to c's GETLINK
    failed,   \* history: a socket, send, receive or parse step of c failed
    last,     \* history: last[c] is c's latest completed call and its result
    calls

vars == <<kexists, kgone, kmaster, kops, pc, arg, sock, det, snap, failed,
          last, calls>>
kvars == <<kexists, kgone, kmaster, kops>>

NoAnswer == [exists |-> FALSE, master |-> 0]
ZeroDetails == [ifindex |-> 0, master |-> 0]
NoCall == [bridge |-> 0, mem |-> 0, snap |-> NoAnswer, failed |-> FALSE,
           result |-> FALSE]

(***************************************************************************)
(* The kernel.                                                             *)
(***************************************************************************)
KernelStep == kops < MaxKernelOps /\ kops' = kops + 1

KCreate(m) ==
    /\ KernelStep /\ m \notin kexists \cup kgone
    /\ kexists' = kexists \cup {m} /\ kmaster' = [kmaster EXCEPT ![m] = 0]
    /\ UNCHANGED kgone

KDelete(m) ==
    /\ KernelStep /\ m \in kexists
    /\ kexists' = kexists \ {m} /\ kgone' = kgone \cup {m}
    /\ kmaster' = [kmaster EXCEPT ![m] = 0]

KEnslave(m, b) ==
    /\ KernelStep /\ m \in kexists /\ kmaster[m] = 0
    /\ kmaster' = [kmaster EXCEPT ![m] = b] /\ UNCHANGED <<kexists, kgone>>

KRelease(m) ==
    /\ KernelStep /\ m \in kexists /\ kmaster[m] # 0
    /\ kmaster' = [kmaster EXCEPT ![m] = 0] /\ UNCHANGED <<kexists, kgone>>

KernelNext ==
    \E m \in Members :
        \/ KCreate(m) \/ KDelete(m) \/ KRelease(m)
        \/ \E b \in Bridges : KEnslave(m, b)

(***************************************************************************)
(* check_bridge_membership_in_os.                                          *)
(***************************************************************************)
Return(c, fail, result) ==
    /\ pc' = [pc EXCEPT ![c] = "idle"]
    /\ last' = [last EXCEPT ![c] =
          [bridge |-> arg[c].bridge, mem |-> arg[c].mem, snap |-> snap[c],
           failed |-> fail, result |-> result]]

\* Mutant of ClearDetails: details are not cleared between calls.
ClearDetailsSkipped(c) == UNCHANGED det

\* memset(&details, 0, sizeof(details)) (line 221).
ClearDetails(c) == det' = [det EXCEPT ![c] = ZeroDetails]

\* A caller enters with its arguments; details are zeroed.
Call(c, b, m) ==
    /\ pc[c] = "idle" /\ calls < MaxCalls
    /\ calls' = calls + 1
    /\ pc' = [pc EXCEPT ![c] = "create"]
    /\ arg' = [arg EXCEPT ![c] = [bridge |-> b, mem |-> m]]
    /\ ClearDetails(c)
    /\ snap' = [snap EXCEPT ![c] = NoAnswer]
    /\ failed' = [failed EXCEPT ![c] = FALSE]
    /\ UNCHANGED <<kvars, sock, last>>

\* nas_nl_sock_create succeeds (211).
SockCreate(c) ==
    /\ pc[c] = "create"
    /\ sock' = [sock EXCEPT ![c] = TRUE]
    /\ pc' = [pc EXCEPT ![c] = "send"]
    /\ UNCHANGED <<kvars, arg, det, snap, failed, last, calls>>

\* nas_nl_sock_create fails: return false with no socket (211-214).
SockCreateFail(c) ==
    /\ pc[c] = "create"
    /\ failed' = [failed EXCEPT ![c] = TRUE]
    /\ Return(c, TRUE, FALSE)
    /\ UNCHANGED <<kvars, arg, sock, det, snap, calls>>

\* nl_send_request succeeds and the answer is pumped (230-231).
SendRequest(c) ==
    /\ pc[c] = "send"
    /\ pc' = [pc EXCEPT ![c] = "pump"]
    /\ UNCHANGED <<kvars, arg, sock, det, snap, failed, last, calls>>

\* nl_send_request fails and the pump is skipped, or the pump's receive
\* fails before the answer arrives: details stay zero (230-233).
RequestFail(c) ==
    /\ pc[c] \in {"send", "pump"}
    /\ pc' = [pc EXCEPT ![c] = "compare"]
    /\ failed' = [failed EXCEPT ![c] = TRUE]
    /\ UNCHANGED <<kvars, arg, sock, det, snap, last, calls>>

\* get_if_detail_from_netlink on an RTM_NEWLINK frame for m: the index is
\* stored, the attribute table cleared, then nla_parse fills it (173-193).
\* nla_parse is not in src/: when it reports a malformed attribute the
\* table holds whatever it had filled, with or without IFLA_MASTER.
FrameDetails(m, parseOk) ==
    IF parseOk THEN {[ifindex |-> m, master |-> kmaster[m]]}
    ELSE {[ifindex |-> m, master |-> x] : x \in {0, kmaster[m]}}

\* The kernel's NLMSG_ERROR for an unknown index ends the pump without
\* calling get_if_detail_from_netlink (lines 231-232).
ErrorFrame(c) == arg[c].mem \notin kexists /\ UNCHANGED <<snap, det, failed>>

\* netlink_tools_process_socket with the request's sequence number: the
\* kernel answers from its current state, a NEWLINK frame for an existing
\* port (handed to the callback) or an error frame for an unknown index
\* (not handed to it) (231-232).
Pump(c) ==
    /\ pc[c] = "pump"
    /\ LET m == arg[c].mem IN
       \/ /\ m \in kexists
          /\ snap' = [snap EXCEPT ![c] = [exists |-> TRUE, master |-> kmaster[m]]]
          /\ \E parseOk \in BOOLEAN :
                \E d \in FrameDetails(m, parseOk) :
                   /\ det' = [det EXCEPT ![c] = d]
                   /\ failed' = [failed EXCEPT ![c] = ~parseOk]
       \/ ErrorFrame(c)
    /\ pc' = [pc EXCEPT ![c] = "compare"]
    /\ UNCHANGED <<kvars, arg, sock, last, calls>>

\* What the compare returns from the details: the answer is for the member
\* asked about, IFLA_MASTER is present and it is the bridge (235-248).
Verdict(c) ==
    /\ det[c].ifindex = arg[c].mem
    /\ det[c].master # 0
    /\ det[c].master = arg[c].bridge

\* close(if_sock) before each of the three returns (lines 238, 246, 252).
CloseSocket(c) == sock' = [sock EXCEPT ![c] = FALSE]

\* The index check, the master check and the close on each path (235-253).
Compare(c) ==
    /\ pc[c] = "compare"
    /\ CloseSocket(c)
    /\ Return(c, failed[c], Verdict(c))
    /\ UNCHANGED <<kvars, arg, det, snap, failed, calls>>

Init ==
    /\ kexists \in SUBSET Members /\ kgone = {}
    /\ kmaster \in [Members -> BridgeArgs]
    /\ \A m \in Members \ kexists : kmaster[m] = 0
    /\ kops = 0
    /\ pc = [c \in Callers |-> "idle"]
    /\ arg = [c \in Callers |-> [bridge |-> 0, mem |-> 0]]
    /\ sock = [c \in Callers |-> FALSE]
    /\ det = [c \in Callers |-> ZeroDetails]
    /\ snap = [c \in Callers |-> NoAnswer]
    /\ failed = [c \in Callers |-> FALSE]
    /\ last = [c \in Callers |-> NoCall] /\ calls = 0

Kernel == KernelNext /\ UNCHANGED <<pc, arg, sock, det, snap, failed, last, calls>>

CallerStep(c) == SockCreate(c) \/ SendRequest(c) \/ Pump(c) \/ Compare(c)

CallerFail(c) == SockCreateFail(c) \/ RequestFail(c)

Next ==
    \/ Kernel
    \/ \E c \in Callers, b \in BridgeArgs, m \in MemArgs : Call(c, b, m)
    \/ \E c \in Callers : CallerStep(c)
    \/ \E c \in Callers : CallerFail(c)

\* A call in progress runs on its caller's thread, which is scheduled, and
\* the kernel answers every request it receives (a lost reply is not
\* modelled).  Socket, send and receive failures may happen but nothing
\* makes them happen: they are not fair.
Fairness == \A c \in Callers : WF_vars(CallerStep(c))

Spec == Init /\ [][Next]_vars /\ Fairness

(***************************************************************************)
(* Properties.                                                             *)
(***************************************************************************)
TypeOK ==
    /\ kexists \subseteq Members /\ kgone \subseteq Members
    /\ kmaster \in [Members -> BridgeArgs]
    /\ pc \in [Callers -> {"idle", "create", "send", "pump", "compare"}]
    /\ arg \in [Callers -> [bridge: BridgeArgs, mem: MemArgs]]
    /\ sock \in [Callers -> BOOLEAN]
    /\ det \in [Callers -> [ifindex: MemArgs, master: BridgeArgs]]
    /\ \A c \in Callers : det[c].ifindex \in {0, arg[c].mem}
    /\ failed \in [Callers -> BOOLEAN]

\* spec.md sections 4.5 and 8, round trip: the call answers TRUE exactly
\* when the GETLINK for M came back, was decoded without error and named
\* B as M's master; a mismatch, a parse failure or a socket failure gives
\* FALSE.  The compare at lines 235-253 reads if_details whatever
\* get_if_detail_from_netlink returned, after an nla_parse failure too.
MembershipRoundTrip ==
    \A c \in Callers : last[c] # NoCall =>
        LET a == last[c]
            said == a.snap.exists /\ a.snap.master # 0 /\ a.snap.master = a.bridge
        IN  a.result = (said /\ ~a.failed)

(***************************************************************************)
(* Refinement.  A call looks at the kernel when Pump handles its GETLINK,  *)
(* or fails at RequestFail; from then until Compare the answer it will     *)
(* return is fixed by det, so the abstract answer is Verdict(c) while the  *)
(* caller is at "compare".  SockCreateFail is the abstract abort.          *)
(***************************************************************************)
Check == INSTANCE MembershipCheck WITH
    busy <- [c \in Callers |-> pc[c] # "idle"],
    answered <- [c \in Callers |-> pc[c] = "compare"],
    res <- [c \in Callers |-> pc[c] = "compare" /\ Verdict(c)],
    last <- [c \in Callers |-> [bridge |-> last[c].bridge, mem |-> last[c].mem,
                                result |-> last[c].result]]

\* check_bridge_membership_in_os implements MembershipCheck: a call answers
\* whether the member was enslaved to the bridge at the one instant the
\* kernel handled its GETLINK (or FALSE after a failed step), and every
\* call that starts returns.
MembershipCheckSpec == Check!Spec
=============================================================================
