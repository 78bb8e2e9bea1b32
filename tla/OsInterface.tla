---------------------------- MODULE OsInterface ----------------------------
(***************************************************************************)
(* Link-event classification of src/src/if/os_interface.cpp.              *)
(*                                                                         *)
(* The Linux kernel keeps a table of interfaces per VRF (network           *)
(* namespace) and queues one RTM_NEWLINK / RTM_DELLINK notification per    *)
(* change on that VRF's interface socket.  One worker thread per VRF       *)
(* receives the notifications in order and runs os_interface_to_object on  *)
(* each; a query thread (_get_interfaces, on a cache miss) sends a         *)
(* GETLINK and runs the same function on the reply; a collaborator marks   *)
(* indices with suppression masks (os_interface_mask_event).  The handler  *)
(* is split into the steps between which it gives up the cache lock:       *)
(*   recv      decode, derive op, CREATE->SET downgrade  (lines 259-304)   *)
(*   classify  kind->type, cache type fallback, refinement hook (305-393)  *)
(*   update    if_info_update and change class            (391-403)       *)
(*   delete    deletion policy on DELETE                   (404-424)       *)
(*   decide    member rewrite / suppression / mask, VRF tag (426-501)      *)
(* The subscriber's view records what published objects tell it.          *)
(***************************************************************************)
EXTENDS Naturals, Sequences, FiniteSets, TLC

CONSTANTS
    Idx,          \* interface indices (nonzero; 0 means "no master")
    Vrfs,         \* VRF ids, one interface worker thread each
    DefaultVrf,   \* NAS_DEFAULT_VRF_ID: the only VRF whose events touch the cache
    NamedVrfs,    \* VRF ids nas_os_get_vrf_name resolves
    Queriers,     \* query threads calling _get_interfaces
    IfKind,       \* IfKind[v][i]: IFLA_INFO_KIND of interface i in VRF v, or NoKind
    NoKind,       \* model value: the message carries no IFLA_INFO_KIND
    Slaves,       \* Slaves[v]: pairs <<member, master>> the kernel may enslave
    Reserved,     \* default-VRF indices whose name has a reserved prefix
    Vetoed,       \* <<v, i>> whose events the refinement hook rejects
    Mtus,         \* MTU values the kernel may report
    MaxKernelOps, \* bound on kernel changes
    MaxMaskOps,   \* bound on os_interface_mask_event calls
    MaxQueries    \* bound on cache-miss queries

ASSUME /\ DefaultVrf \in Vrfs /\ NamedVrfs \subseteq Vrfs
       /\ 0 \notin Idx /\ Vrfs \cap Queriers = {}
       /\ \A v \in Vrfs : Slaves[v] \subseteq Idx \X Idx

VARIABLES
    kexists,   \* kexists[v]: indices that exist in VRF v's kernel table
    kgone,     \* kgone[v]: deleted indices (Linux does not reuse an ifindex)
    kattr,     \* kattr[v][i]: admin state, mtu and master in the kernel
    q,         \* q[v]: notifications queued on VRF v's socket
    kops,      \* kernel changes so far
    cache,     \* the IfCache table (default VRF only, by design)
    pc,        \* pc[t]: step of os_interface_to_object thread t is at
    msg,       \* msg[t]: the message t is handling
    op,        \* op[t]: details._op
    ty,        \* ty[t]: details._type
    tc,        \* tc[t]: track_change
    sub,       \* sub[i]: default-VRF interface i as the subscriber sees it
    members,   \* members[m]: members of m as the subscriber sees them
    pubs,      \* history: <<vrf, idx, type>> of published non-default objects
    masked,    \* history: indices ever given a nonzero mask
    maskOps, queries,
    fault,     \* a NULL dereference happened: the process is gone
    qreq,      \* qreq[t]: the index query thread t asked _get_interfaces for
    qans       \* history: qans[t] is what t's latest query returned

Cache == INSTANCE IfCache

vars == <<kexists, kgone, kattr, q, kops, cache, pc, msg, op, ty, tc, sub, members,
          pubs, masked, maskOps, queries, fault, qreq, qans>>

Threads == Vrfs \cup Queriers
VrfOf(t) == IF t \in Vrfs THEN t ELSE DefaultVrf

Types == {"L3_PORT", "L2_PORT", "LAG", "BRIDGE", "VLAN_SUBINTF", "MACVLAN",
          "VXLAN", "LOOPBACK"}
Ops == {"CREATE", "SET", "DELETE"}

\* info_kind_to_intf_type (lines 140-149).
KindTable ==
    [k \in {"tun", "bond", "bridge", "vlan", "macvlan", "vxlan", "dummy"} |->
        CASE k = "tun" -> "L3_PORT"     [] k = "bond" -> "LAG"
          [] k = "bridge" -> "BRIDGE"   [] k = "vlan" -> "VLAN_SUBINTF"
          [] k = "macvlan" -> "MACVLAN" [] k = "vxlan" -> "VXLAN"
          [] k = "dummy" -> "LOOPBACK"]

\* A decoded link notification: what the handler reads from ifinfomsg and
\* the IFLA_* attributes (master 0 = no IFLA_MASTER, lkind NoKind = no
\* IFLA_LINKINFO kind).  MAC, oper state and name are abstracted.
Msgs == [type: {"NEWLINK", "DELLINK"}, idx: Idx, up: BOOLEAN, mtu: Mtus,
         master: Idx \cup {0}, lkind: DOMAIN KindTable \cup {NoKind}]
NoMsg == [type |-> "NEWLINK", idx |-> CHOOSE i \in Idx : TRUE, up |-> FALSE,
          mtu |-> CHOOSE m \in Mtus : TRUE, master |-> 0, lkind |-> NoKind]

\* The notification the kernel sends for interface i of VRF v now.
KMsg(v, i, type) ==
    [type |-> type, idx |-> i, up |-> kattr[v][i].up, mtu |-> kattr[v][i].mtu,
     master |-> kattr[v][i].master, lkind |-> IfKind[v][i]]

\* The same notification as the bridge (AF_BRIDGE) family sends it for a
\* bridge port: IFLA_MASTER but no IFLA_LINKINFO.
KBrMsg(v, i, type) == [KMsg(v, i, type) EXCEPT !.lkind = NoKind]

Idle(t) == /\ pc' = [pc EXCEPT ![t] = "idle"] /\ msg' = [msg EXCEPT ![t] = NoMsg]
           /\ op' = [op EXCEPT ![t] = "SET"] /\ ty' = [ty EXCEPT ![t] = "L3_PORT"]
           /\ tc' = [tc EXCEPT ![t] = "NONE"]
Goto(t, s) == pc' = [pc EXCEPT ![t] = s]

IfsOf(v) == DOMAIN IfKind[v]
IsBridge(v, m) == IfKind[v][m] = "bridge"
\* The default-VRF interfaces whose events the hook does not reject.
Watched == {i \in IfsOf(DefaultVrf) : <<DefaultVrf, i>> \notin Vetoed}

(***************************************************************************)
(* The kernel.  Each change queues the notifications Linux sends for it    *)
(* on the VRF's socket, in the order it sends them.                        *)
(***************************************************************************)
KernelStep(v, i, new, msgs) ==
    /\ kops < MaxKernelOps
    /\ kattr' = [kattr EXCEPT ![v][i] = new]
    /\ q' = [q EXCEPT ![v] = @ \o msgs]
    /\ kops' = kops + 1

KNewAttr(v, i) == [up |-> FALSE, mtu |-> CHOOSE m \in Mtus : TRUE, master |-> 0]
KCreate(v, i) ==
    /\ i \notin kexists[v] /\ i \notin kgone[v]
    /\ kexists' = [kexists EXCEPT ![v] = @ \cup {i}]
    /\ kattr' = [kattr EXCEPT ![v][i] = KNewAttr(v, i)]
    /\ kops < MaxKernelOps /\ kops' = kops + 1 /\ UNCHANGED kgone
    /\ q' = [q EXCEPT ![v] = Append(@, [type |-> "NEWLINK", idx |-> i,
                 up |-> FALSE, mtu |-> KNewAttr(v, i).mtu, master |-> 0,
                 lkind |-> IfKind[v][i]])]

\* A master is deleted only after its members were released.
KDelete(v, i) ==
    /\ i \in kexists[v] /\ kattr[v][i].master = 0
    /\ \A x \in kexists[v] : kattr[v][x].master # i
    /\ kexists' = [kexists EXCEPT ![v] = @ \ {i}]
    /\ kgone' = [kgone EXCEPT ![v] = @ \cup {i}]
    /\ KernelStep(v, i, kattr[v][i], <<KMsg(v, i, "DELLINK")>>)

KAdmin(v, i) ==
    /\ i \in kexists[v]
    /\ LET new == [kattr[v][i] EXCEPT !.up = ~@]
       IN KernelStep(v, i, new, <<[KMsg(v, i, "NEWLINK") EXCEPT !.up = new.up]>>)
    /\ UNCHANGED <<kexists, kgone>>

KMtu(v, i, m) ==
    /\ i \in kexists[v] /\ m # kattr[v][i].mtu
    /\ KernelStep(v, i, [kattr[v][i] EXCEPT !.mtu = m],
                  <<[KMsg(v, i, "NEWLINK") EXCEPT !.mtu = m]>>)
    /\ UNCHANGED <<kexists, kgone>>

\* Enslaving to a bridge also sends the bridge family's RTM_NEWLINK.
KEnslave(v, i, m) ==
    /\ <<i, m>> \in Slaves[v] /\ {i, m} \subseteq kexists[v]
    /\ kattr[v][i].master = 0
    /\ LET n == [KMsg(v, i, "NEWLINK") EXCEPT !.master = m]
       IN KernelStep(v, i, [kattr[v][i] EXCEPT !.master = m],
                     IF IsBridge(v, m) THEN <<n, [n EXCEPT !.lkind = NoKind]>>
                     ELSE <<n>>)
    /\ UNCHANGED <<kexists, kgone>>

\* Leaving a bridge: br_del_if sends the bridge family's RTM_DELLINK (still
\* naming the master) before the RTM_NEWLINK without IFLA_MASTER.
KRelease(v, i) ==
    /\ i \in kexists[v] /\ kattr[v][i].master # 0
    /\ LET n == [KMsg(v, i, "NEWLINK") EXCEPT !.master = 0]
       IN KernelStep(v, i, [kattr[v][i] EXCEPT !.master = 0],
                     IF IsBridge(v, kattr[v][i].master)
                     THEN <<KBrMsg(v, i, "DELLINK"), n>> ELSE <<n>>)
    /\ UNCHANGED <<kexists, kgone>>

KernelNext ==
    \E v \in Vrfs, i \in Idx :
        /\ i \in IfsOf(v)
        /\ \/ KCreate(v, i) \/ KDelete(v, i) \/ KAdmin(v, i)
           \/ \E m \in Mtus : KMtu(v, i, m)
           \/ \E m \in Idx : KEnslave(v, i, m)
           \/ KRelease(v, i)

(***************************************************************************)
(* os_interface_to_object, one action per step between cache calls.        *)
(***************************************************************************)
\* Mutant of ToOp: the table has no RTM_DELLINK entry.
ToOpNoDelete(type) == IF type = "NEWLINK" THEN "CREATE" ELSE "SET"

\* _to_op_type (lines 273-286): NEWLINK->CREATE, DELLINK->DELETE, else SET.
ToOp(type) == CASE type = "NEWLINK" -> "CREATE"
                [] type = "DELLINK" -> "DELETE"
                [] OTHER -> "SET"

\* Lines 259-304: derive the operation; in the default VRF a CREATE for a
\* cached index becomes a SET (nas_os_check_intf_exists, one cache call).
StartHandling(t, m) ==
    LET raw == ToOp(m.type) IN
    /\ msg' = [msg EXCEPT ![t] = m]
    /\ op' = [op EXCEPT ![t] =
                 IF VrfOf(t) = DefaultVrf /\ raw = "CREATE" /\ Cache!Present(m.idx)
                 THEN "SET" ELSE raw]
    /\ Goto(t, "classify")
    /\ UNCHANGED <<ty, tc>>

\* The interface worker: netlink_tools_receive_event delivers the next
\* notification of its socket, in kernel order.
Recv(t) ==
    /\ pc[t] = "idle" /\ q[t] # <<>>
    /\ StartHandling(t, Head(q[t]))
    /\ q' = [q EXCEPT ![t] = Tail(@)]
    /\ UNCHANGED <<queries>>

(***************************************************************************)
(* The query facade: _get_interfaces (lines 614-672) on a query thread.   *)
(***************************************************************************)
\* What a query returns: the return code, the indices of the objects in
\* its list, the failures met on the way and, for a get-all, the existing
\* default-VRF interfaces it left out (histories for properties).
Answer(i, all, status, objs, fails) ==
    [idx |-> i, all |-> all, status |-> status, objs |-> objs, fail |-> fails,
     missed |-> {}]
NoAnswer == Answer(0, FALSE, "OK", {}, {})

\* get_netlink_data ends a query's handler run: the object is appended
\* when os_interface_to_object succeeds, the list stays empty otherwise.
Reply(t, objs, fails) ==
    IF t \in Queriers
    THEN qans' = [qans EXCEPT ![t] = Answer(qreq[t], FALSE, "OK", objs, fails)]
    ELSE UNCHANGED qans

\* os_interface_info_to_object (520-542): the name comes from the kernel
\* (cps_api_interface_if_index_to_name), so an entry the kernel no longer
\* has yields no object.
NameResolves(i) == i \in kexists[DefaultVrf]

QueryStart(t, i) ==
    /\ pc[t] = "idle" /\ queries < MaxQueries
    /\ queries' = queries + 1
    /\ qreq' = [qreq EXCEPT ![t] = i]
    /\ Goto(t, "qdb")
    /\ UNCHANGED <<q, msg, op, ty, tc, qans>>

\* _get_db_interface for one index (544-568): a cached entry whose name
\* resolves is returned from the cache and the query ends.
QueryDbHit(t) ==
    LET i == qreq[t] IN
    /\ pc[t] = "qdb" /\ Cache!Present(i) /\ NameResolves(i)
    /\ qans' = [qans EXCEPT ![t] = Answer(i, FALSE, "OK", {i}, {})]
    /\ Goto(t, "idle")
    /\ UNCHANGED <<q, msg, op, ty, tc, qreq, queries>>

\* Otherwise _get_db_interface returns an error and _get_interfaces asks
\* the kernel (548-553, 612, 617-620).
QueryDbMiss(t) ==
    LET i == qreq[t] IN
    /\ pc[t] = "qdb" /\ ~(Cache!Present(i) /\ NameResolves(i))
    /\ Goto(t, "qsock")
    /\ UNCHANGED <<q, msg, op, ty, tc, qreq, qans, queries>>

\* nas_nl_sock_create fails: the query returns an error (622-626).
QuerySockFail(t) ==
    /\ pc[t] = "qsock"
    /\ qans' = [qans EXCEPT ![t] = Answer(qreq[t], FALSE, "ERR", {}, {"socket"})]
    /\ Goto(t, "idle")
    /\ UNCHANGED <<q, msg, op, ty, tc, qreq, queries>>

\* nl_send_request (or the receive in the pump) fails: the list stays
\* empty, the socket is closed and the query returns OK (636-672).
QuerySendFail(t) ==
    /\ pc[t] = "qsock"
    /\ qans' = [qans EXCEPT ![t] = Answer(qreq[t], FALSE, "OK", {}, {"send"})]
    /\ Goto(t, "idle")
    /\ UNCHANGED <<q, msg, op, ty, tc, qreq, queries>>

\* The GETLINK is answered from the kernel's state when it is sent; the
\* reply frame goes through get_netlink_data into os_interface_to_object
\* (627-645, 503-518), which also writes the cache.
QueryReply(t) ==
    /\ pc[t] = "qsock" /\ qreq[t] \in kexists[DefaultVrf]
    /\ StartHandling(t, KMsg(DefaultVrf, qreq[t], "NEWLINK"))
    /\ UNCHANGED <<q, qreq, qans, queries>>

\* The kernel answers NLMSG_ERROR for an index it does not have: nothing
\* reaches os_interface_to_object and the query returns OK, empty (646-672).
QueryNoSuchIf(t) ==
    /\ pc[t] = "qsock" /\ qreq[t] \notin kexists[DefaultVrf]
    /\ qans' = [qans EXCEPT ![t] = Answer(qreq[t], FALSE, "OK", {}, {})]
    /\ Goto(t, "idle")
    /\ UNCHANGED <<q, msg, op, ty, tc, qreq, queries>>

\* _get_db_interface with get_all (569-611): every cache entry whose name
\* resolves, under one cache lock; it always returns OK, so the kernel
\* dump of lines 638-641 is never sent.
QueryAll(t) ==
    LET objs == {i \in DOMAIN cache : NameResolves(i)} IN
    /\ pc[t] = "idle" /\ queries < MaxQueries
    /\ queries' = queries + 1
    /\ qans' = [qans EXCEPT ![t] = [Answer(0, TRUE, "OK", objs, {}) EXCEPT
                    !.missed = (kexists[DefaultVrf] \cap Watched) \ objs]]
    /\ UNCHANGED <<q, pc, msg, op, ty, tc, qreq>>

\* Lines 371-382: the type from the link-info kind (L3_PORT if unknown),
\* else the type the cache records for this index, else L3_PORT.
KindType(m) ==
    IF m.lkind # NoKind
    THEN IF m.lkind \in DOMAIN KindTable THEN KindTable[m.lkind] ELSE "L3_PORT"
    ELSE IF Cache!Present(m.idx) THEN Cache!CachedType(m.idx) ELSE "L3_PORT"

\* The refinement hook INTERFACE::if_hdlr (not in src/): a port without
\* link-info kind is a bridge or bond member (L2_PORT) exactly when the
\* event names a master, a plain L3_PORT otherwise; other types pass.
HookType(m, t0) ==
    IF m.lkind = NoKind /\ t0 \in {"L3_PORT", "L2_PORT"}
    THEN IF m.master # 0 THEN "L2_PORT" ELSE "L3_PORT"
    ELSE t0

\* Lines 384-389: the hook rejects the event; nothing is published.
HookVeto(t) ==
    /\ pc[t] = "classify" /\ <<VrfOf(t), msg[t].idx>> \in Vetoed
    /\ Idle(t) /\ Reply(t, {}, {"veto"})

Classify(t) ==
    /\ pc[t] = "classify" /\ <<VrfOf(t), msg[t].idx>> \notin Vetoed
    /\ ty' = [ty EXCEPT ![t] = HookType(msg[t], KindType(msg[t]))]
    /\ Goto(t, "update")
    /\ UNCHANGED <<msg, op, tc, qans>>

\* Mutant of Candidate: ifinfo.master_idx read uninitialized when the
\* event carries no IFLA_MASTER (ifinfo is declared at line 268 and
\* master_idx is assigned only at line 366).
CandidateUninitMaster(t) ==
    [up |-> msg[t].up, mtu |-> msg[t].mtu,
     master |-> IF msg[t].master = 0 THEN 65535 ELSE msg[t].master,
     type |-> ty[t], mask |-> "NONE"]

\* The candidate if_info_t (lines 311-393).
Candidate(t) == [up |-> msg[t].up, mtu |-> msg[t].mtu, master |-> msg[t].master,
                 type |-> ty[t], mask |-> "NONE"]

\* Lines 395-403: only default-VRF events reach the cache.
UpdateCache(t) ==
    /\ pc[t] = "update" /\ VrfOf(t) = DefaultVrf
    /\ tc' = [tc EXCEPT ![t] = Cache!TrackChange(msg[t].idx, Candidate(t))]
    /\ Cache!Update(msg[t].idx, Candidate(t))
    /\ Goto(t, IF op[t] = "DELETE" THEN "delete" ELSE "decide")
    /\ UNCHANGED <<msg, op, ty>>

UpdateOtherVrf(t) ==
    /\ pc[t] = "update" /\ VrfOf(t) # DefaultVrf
    /\ Goto(t, "decide")
    /\ UNCHANGED <<msg, op, ty, tc, cache>>

(***************************************************************************)
(* Lines 404-424: the deletion policy on a DELETE.                         *)
(***************************************************************************)
\* Mutant of DeletePlain: the if_info_delete call is lost.
DeletePlainSkipped(t) ==
    /\ pc[t] = "delete" /\ ty[t] \notin {"L2_PORT", "LAG", "MACVLAN"}
    /\ UNCHANGED cache
    /\ Goto(t, "decide") /\ UNCHANGED <<fault>>

\* Not a member, aggregate or macvlan type: the entry goes.
DeletePlain(t) ==
    /\ pc[t] = "delete" /\ ty[t] \notin {"L2_PORT", "LAG", "MACVLAN"}
    /\ Cache!Delete(msg[t].idx)
    /\ Goto(t, "decide") /\ UNCHANGED <<fault>>

\* LAG: strncmp(details._info_kind, "bond", 4) removes a real bond.  The
\* kind pointer is read without a NULL check: a LAG-typed DELETE without
\* IFLA_INFO_KIND (its type came from the cache) dereferences NULL.
DeleteLag(t) ==
    /\ pc[t] = "delete" /\ ty[t] = "LAG"
    /\ IF msg[t].lkind = NoKind
       THEN fault' = TRUE /\ UNCHANGED <<cache, pc>>
       ELSE /\ IF msg[t].lkind = "bond" THEN Cache!Delete(msg[t].idx)
               ELSE UNCHANGED cache
            /\ Goto(t, "decide") /\ UNCHANGED <<fault>>

\* MACVLAN entries are kept.
DeleteMacvlan(t) ==
    /\ pc[t] = "delete" /\ ty[t] = "MACVLAN"
    /\ Goto(t, "decide") /\ UNCHANGED <<cache, fault>>

\* L2_PORT: the port stays, detached (a second if_info_update, master 0).
DeleteL2Port(t) ==
    /\ pc[t] = "delete" /\ ty[t] = "L2_PORT"
    /\ Cache!Update(msg[t].idx, [Candidate(t) EXCEPT !.master = 0])
    /\ Goto(t, "decide") /\ UNCHANGED <<fault>>

(***************************************************************************)
(* Lines 426-501: the publication decision and the VRF tag.                *)
(***************************************************************************)
\* Lines 426-427: a member joins or leaves a bridge or bond.
MemberEvt(t) ==
    /\ VrfOf(t) = DefaultVrf
    /\ \/ ty[t] = "L2_PORT"
       \/ ty[t] = "LAG" /\ msg[t].master # 0

\* Mutant of IsReserved: no name matches a reserved prefix.
IsReservedNone(i) == FALSE

\* is_reserved_interface (lines 91-102): eth*, mgmt*, veth-*, vdef-*.
IsReserved(i) == i \in Reserved

DropsUnchanged(t) ==
    op[t] # "DELETE" /\ ty[t] # "L2_PORT" /\ ~IsReserved(msg[t].idx)

\* Mutant of MaskMutes: the mask test of line 473 lost.
MaskMutesUnmasked(t) == tc[t] = "ADMIN"

\* Lines 467-474: an admin-only change of an index masked ADMIN is muted;
\* the mask is read by a separate if_info_getmask call, at this step.
MaskMutes(t) == Cache!GetMask(msg[t].idx) = "ADMIN" /\ tc[t] = "ADMIN"

\* evt_publish (lines 395, 426-475): member events and other VRFs' events
\* are always published.
PublishFlag(t) ==
    CASE VrfOf(t) # DefaultVrf \/ MemberEvt(t) -> TRUE
      [] tc[t] = "NONE" -> ~DropsUnchanged(t)
      [] OTHER -> ~MaskMutes(t)

\* The enabled attribute is removed for an L2 member rewrite (line 444) and
\* for a masked index whose change is not an admin change (lines 471-472).
StripsEnabled(t) ==
    \/ MemberEvt(t) /\ ty[t] = "L2_PORT"
    \/ /\ VrfOf(t) = DefaultVrf /\ ~MemberEvt(t) /\ tc[t] # "NONE"
       /\ Cache!GetMask(msg[t].idx) = "ADMIN" /\ tc[t] # "ADMIN"

\* The handler returns an error: the master's name is not in the cache
\* (nas_os_if_name_get, lines 431-436) or the VRF has no name (481-486).
DecideFails(t) ==
    \/ MemberEvt(t) /\ ~Cache!NameKnown(msg[t].master)
    \/ VrfOf(t) \notin NamedVrfs

\* The published object as the subscriber applies it.  A member rewrite
\* names the master and carries the member index; a LAG joining a bridge
\* is published as the LAG's own object with its master attribute.
Deliver(t) ==
    LET m == msg[t]
        v == VrfOf(t)
        plain == [known |-> op[t] # "DELETE",
                  up |-> IF StripsEnabled(t) THEN sub[m.idx].up ELSE m.up]
    IN IF v # DefaultVrf
       THEN /\ pubs' = pubs \cup {[vrf |-> v, idx |-> m.idx, type |-> ty[t],
                  own |-> HookType(m, IF m.lkind # NoKind THEN KindTable[m.lkind]
                                      ELSE "L3_PORT")]}
            /\ UNCHANGED <<sub, members>>
       ELSE /\ members' = IF MemberEvt(t)
                          THEN [members EXCEPT ![m.master] =
                                  IF op[t] = "DELETE" THEN @ \ {m.idx}
                                  ELSE @ \cup {m.idx}]
                          ELSE members
            /\ sub' = IF MemberEvt(t) /\ ty[t] = "L2_PORT" THEN sub
                      ELSE [sub EXCEPT ![m.idx] = plain]
            /\ UNCHANGED pubs

DecideFail(t) ==
    /\ pc[t] = "decide" /\ DecideFails(t)
    /\ Idle(t) /\ Reply(t, {}, {"lookup"}) /\ UNCHANGED <<sub, members, pubs>>

DecidePublish(t) ==
    /\ pc[t] = "decide" /\ t \in Vrfs /\ ~DecideFails(t) /\ PublishFlag(t)
    /\ Deliver(t) /\ Idle(t) /\ UNCHANGED qans

DecideSuppress(t) ==
    /\ pc[t] = "decide" /\ t \in Vrfs /\ ~DecideFails(t) /\ ~PublishFlag(t)
    /\ Idle(t) /\ UNCHANGED <<sub, members, pubs, qans>>

\* The index the returned object carries: an L2 member event is rewritten
\* to name its master, with the member in another attribute (437-446).
ObjIdx(t) == IF MemberEvt(t) /\ ty[t] = "L2_PORT" THEN msg[t].master ELSE msg[t].idx

\* A query thread's object goes to the query result, never to subscribers.
DecideReturn(t) ==
    /\ pc[t] = "decide" /\ t \in Queriers /\ ~DecideFails(t)
    /\ Idle(t) /\ Reply(t, {ObjIdx(t)}, {}) /\ UNCHANGED <<sub, members, pubs>>

\* os_interface_mask_event (lines 81-89).
MaskEvent(i, mk) ==
    /\ maskOps < MaxMaskOps
    /\ Cache!SetMask(i, mk)
    /\ maskOps' = maskOps + 1
    /\ masked' = IF mk # "NONE" THEN masked \cup {i} ELSE masked

(***************************************************************************)
(* The specification.                                                      *)
(***************************************************************************)
Init ==
    /\ kexists = [v \in Vrfs |-> {}]
    /\ kgone = [v \in Vrfs |-> {}]
    /\ kattr = [v \in Vrfs |-> [i \in Idx |->
                   [up |-> FALSE, mtu |-> CHOOSE m \in Mtus : TRUE, master |-> 0]]]
    /\ q = [v \in Vrfs |-> <<>>]
    /\ kops = 0
    /\ cache = [i \in {} |-> NoMsg]
    /\ pc = [t \in Threads |-> "idle"]
    /\ msg = [t \in Threads |-> NoMsg]
    /\ op = [t \in Threads |-> "SET"]
    /\ ty = [t \in Threads |-> "L3_PORT"]
    /\ tc = [t \in Threads |-> "NONE"]
    /\ sub = [i \in Idx |-> [known |-> FALSE, up |-> FALSE]]
    /\ members = [i \in Idx |-> {}]
    /\ pubs = {}
    /\ masked = {}
    /\ maskOps = 0 /\ queries = 0
    /\ fault = FALSE
    /\ qreq = [t \in Queriers |-> 0] /\ qans = [t \in Queriers |-> NoAnswer]

HandlerVars == <<pc, msg, op, ty, tc>>
OutVars == <<sub, members, pubs>>
QueryVars == <<qreq, qans>>
KernelVars == <<kexists, kgone, kattr, q, kops>>

\* The kernel changes an interface (no step after the process is gone).
Kernel ==
    /\ ~fault /\ KernelNext
    /\ UNCHANGED <<cache, HandlerVars, OutVars, masked, maskOps, queries, fault,
                   QueryVars>>

\* A worker receives the next notification of its socket.
Receive(t) ==
    /\ ~fault /\ t \in Vrfs /\ Recv(t)
    /\ UNCHANGED <<kexists, kgone, kattr, kops, cache, OutVars, masked, maskOps,
                   fault, QueryVars>>

\* A caller enters _get_interfaces on a query thread.
QueryCall(t) ==
    /\ ~fault /\ t \in Queriers
    /\ \/ \E i \in IfsOf(DefaultVrf) : QueryStart(t, i)
       \/ QueryAll(t)
    /\ UNCHANGED <<KernelVars, cache, OutVars, masked, maskOps, fault>>

\* The query's own steps up to the kernel's reply.
Querying(t) ==
    /\ ~fault /\ t \in Queriers
    /\ \/ QueryDbHit(t) \/ QueryDbMiss(t) \/ QueryReply(t) \/ QueryNoSuchIf(t)
    /\ UNCHANGED <<kexists, kgone, kattr, kops, cache, OutVars, masked, maskOps,
                   fault>>

\* A socket or send failure of a query.
QueryFailing(t) ==
    /\ ~fault /\ t \in Queriers
    /\ QuerySockFail(t) \/ QuerySendFail(t)
    /\ UNCHANGED <<KernelVars, cache, OutVars, masked, maskOps, fault>>

\* Steps that read or write the cache but publish nothing.
Classifying(t) ==
    /\ ~fault
    /\ \/ HookVeto(t) /\ UNCHANGED cache
       \/ Classify(t) /\ UNCHANGED cache
    /\ UNCHANGED <<KernelVars, OutVars, masked, maskOps, queries, fault, qreq>>

Updating(t) ==
    /\ ~fault
    /\ UpdateCache(t) \/ UpdateOtherVrf(t)
    /\ UNCHANGED <<KernelVars, OutVars, masked, maskOps, queries, fault, QueryVars>>

Deleting(t) ==
    /\ ~fault
    /\ DeletePlain(t) \/ DeleteLag(t) \/ DeleteMacvlan(t) \/ DeleteL2Port(t)
    /\ UNCHANGED <<msg, op, ty, tc, KernelVars, OutVars, masked, maskOps, queries,
                   QueryVars>>

Deciding(t) ==
    /\ ~fault
    /\ DecideFail(t) \/ DecidePublish(t) \/ DecideSuppress(t) \/ DecideReturn(t)
    /\ UNCHANGED <<KernelVars, cache, masked, maskOps, queries, fault, qreq>>

Masking ==
    /\ ~fault
    /\ \E i \in IfsOf(DefaultVrf), mk \in Cache!ChangeClasses : MaskEvent(i, mk)
    /\ UNCHANGED <<KernelVars, HandlerVars, OutVars, queries, fault, QueryVars>>

\* One step of os_interface_to_object, or of the code around it, by t,
\* once t has something to do: a queued notification or a query begun.
HandlerStep(t) ==
    Receive(t) \/ Querying(t) \/ Classifying(t) \/ Updating(t) \/ Deleting(t)
    \/ Deciding(t)

Next ==
    \/ Kernel
    \/ \E t \in Threads : Receive(t)
    \/ \E t \in Threads : QueryCall(t)
    \/ \E t \in Threads : Querying(t)
    \/ \E t \in Threads : QueryFailing(t)
    \/ \E t \in Threads : Classifying(t)
    \/ \E t \in Threads : Updating(t)
    \/ \E t \in Threads : Deleting(t)
    \/ \E t \in Threads : Deciding(t)
    \/ Masking

\* A thread with work takes its next step: the workers block only in recv
\* and a query thread only on its reply, which the kernel always sends.
\* Callers, the kernel, masks and socket failures are not forced.
Fairness == \A t \in Threads : WF_vars(HandlerStep(t))

Spec == Init /\ [][Next]_vars /\ Fairness

(***************************************************************************)
(* Properties.                                                             *)
(***************************************************************************)
TypeOK ==
    /\ \A v \in Vrfs : kexists[v] \cup kgone[v] \subseteq IfsOf(v)
    /\ \A v \in Vrfs : q[v] \in Seq(Msgs)
    /\ DOMAIN cache \subseteq Idx
    /\ \A i \in DOMAIN cache :
          cache[i] \in [up: BOOLEAN, mtu: Mtus, master: Idx \cup {0},
                        type: Types, mask: Cache!ChangeClasses]
    /\ pc \in [Threads -> {"idle", "qdb", "qsock", "classify", "update", "delete",
                          "decide"}]
    /\ msg \in [Threads -> Msgs]
    /\ op \in [Threads -> Ops] /\ ty \in [Threads -> Types]
    /\ tc \in [Threads -> Cache!ChangeClasses]
    /\ sub \in [Idx -> [known: BOOLEAN, up: BOOLEAN]]
    /\ members \in [Idx -> SUBSET Idx]
    /\ fault \in BOOLEAN
    /\ qreq \in [Queriers -> Idx \cup {0}]
    /\ qans \in [Queriers -> [idx: Idx \cup {0}, all: BOOLEAN, status: {"OK", "ERR"},
                              objs: SUBSET Idx,
                              fail: SUBSET {"socket", "send", "lookup", "veto"},
                              missed: SUBSET Idx]]

\* No notification is waiting and no handler is part-way through one.
Quiescent ==
    /\ \A v \in Vrfs : q[v] = <<>>
    /\ \A t \in Threads : pc[t] = "idle"

\* The type a default-VRF interface has, as the classifier derives it from
\* the kernel's own state.
KType(v, i) ==
    HookType(KMsg(v, i, "NEWLINK"),
             IF IfKind[v][i] # NoKind THEN KindTable[IfKind[v][i]] ELSE "L3_PORT")

\* Once every notification has been handled, the cache holds each existing
\* default-VRF interface with the kernel's admin state, mtu, master and
\* type, and a deleted one only if its type is one the deletion policy of
\* os_interface_to_object keeps (L2_PORT, LAG, MACVLAN).
QuiescentCacheCoherent ==
    Quiescent =>
      \A i \in Watched :
        /\ i \in kexists[DefaultVrf] =>
              /\ Cache!Present(i)
              /\ cache[i].up = kattr[DefaultVrf][i].up
              /\ cache[i].mtu = kattr[DefaultVrf][i].mtu
              /\ cache[i].master = kattr[DefaultVrf][i].master
              /\ cache[i].type = KType(DefaultVrf, i)
        /\ (i \notin kexists[DefaultVrf] /\ Cache!Present(i)) =>
              cache[i].type \in {"L2_PORT", "LAG", "MACVLAN"}

\* Once every notification has been handled, the published objects have
\* told the subscriber which default-VRF interfaces exist, the admin state
\* of every one that is neither a member nor ever masked, and the members
\* of every bridge: suppression of unchanged events and the member rewrite
\* of os_interface_to_object lose nothing the subscriber needs.
QuiescentSubscriberCoherent ==
    Quiescent =>
      \A i \in Watched :
        /\ sub[i].known = (i \in kexists[DefaultVrf])
        /\ (i \in kexists[DefaultVrf] /\ kattr[DefaultVrf][i].master = 0
              /\ i \notin masked) => sub[i].up = kattr[DefaultVrf][i].up
        /\ IsBridge(DefaultVrf, i) =>
              members[i] = {x \in kexists[DefaultVrf] :
                              kattr[DefaultVrf][x].master = i}

\* The process never dereferences a missing netlink attribute.
NoNullDeref == ~fault

\* An object published for a non-default VRF carries the type of that
\* VRF's own interface: nothing is taken from the default-VRF cache, where
\* the same index can name an unrelated interface.
VrfTypeIsolation == \A p \in pubs : p.type = p.own

\* Once every notification has been handled, the subscriber knows every
\* existing default-VRF interface with a reserved name (eth*, mgmt*,
\* veth-*, vdef-*), even when a query filled the cache first and the
\* kernel's own RTM_NEWLINK then brought no change.
ReservedAppearancePublished ==
    Quiescent =>
      \A i \in Watched \cap Reserved :
          i \in kexists[DefaultVrf] => sub[i].known

\* spec.md section 7: a query returns an error code on a SocketFailure or
\* a LookupFailure.  _get_interfaces ignores the result of nl_send_request
\* and of the pump (lines 636-645), and on a cache miss get_netlink_data
\* drops the object when os_interface_to_object cannot resolve a member's
\* master (lines 431-436, 510): either way the query returns OK, empty,
\* as if the kernel had answered "no such interface".
QueryFailureReported ==
    \A t \in Queriers : qans[t].fail \cap {"send", "lookup"} # {} => qans[t].status = "ERR"

\* A query for one index returns only objects of that index, whether it is
\* answered from the cache (_get_db_interface) or from the kernel through
\* os_interface_to_object, whose member rewrite (lines 437-446) renames
\* the object after the port's bridge.
QueryAnswerNamesRequested ==
    \A t \in Queriers : ~qans[t].all => qans[t].objs \subseteq {qans[t].idx}

\* spec.md section 2: the query facade falls back to a kernel dump when
\* the cache cannot answer.  _get_db_interface returns OK for a get-all
\* whatever the cache holds (line 609), so a get-all that finds the cache
\* empty while the kernel has interfaces returns an empty list.
QueryAllFallsBack ==
    \A t \in Queriers : (qans[t].all /\ qans[t].objs = {}) => qans[t].missed = {}

\* At every moment, not only at quiescence, the subscriber sees a port as a
\* member of at most one bridge: the member delete that os_interface_to_object
\* publishes for the bridge family's RTM_DELLINK (lines 404-446) reaches it
\* before the member add for the next bridge, whatever the port's own
\* RTM_NEWLINKs and the cache are doing in between.
OneBridgePerPort ==
    \A x \in Idx : \A b1, b2 \in {b \in IfsOf(DefaultVrf) : IsBridge(DefaultVrf, b)} :
        x \in members[b1] \cap members[b2] => b1 = b2
=============================================================================
