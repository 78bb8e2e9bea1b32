# TLA+ models of the opx-nas-linux interface event path

These modules model `src/src/if/os_interface.cpp`. It is the part of the NAS
Linux adaptation layer that turns kernel link notifications (rtnetlink
`RTM_NEWLINK`/`RTM_DELLINK`) into published interface objects, and it keeps the
interface cache that the rest of NAS reads.

## The system and how its parts interact

| Part | Code | Role |
|---|---|---|
| Netlink transport | `netlink_tools_*` (declared in `src/inc/opx/private/netlink_tools.h`, not in this repository) | One socket per VRF. Notifications arrive in kernel order. Request/response helpers serve queries. |
| Attribute decoder | `get_if_detail_from_netlink`, the attribute part of `os_interface_to_object` | Reads index, flags, MTU, `IFLA_MASTER` and `IFLA_INFO_KIND`. |
| Event classifier | `os_interface_to_object` (lines 256–501) | Derives the operation, the type, the change class and whether to publish. Writes the cache. |
| Interface cache | `INTERFACE` (os_if_utils, not in `src/`), plus the wrappers `os_intf_type_get`, `nas_os_if_name_get`, … | Per-index record: admin state, mtu, master, type, publish mask. Each call takes one lock. |
| Refinement hook | `INTERFACE::if_hdlr` (not in `src/`) | May veto an event (for example a sub-interface) and types ports as members. |
| Suppression masks | `os_interface_mask_event` | Another NAS component masks admin-state publication for an index. |
| Query facade | `_get_interfaces`, `_get_db_interface`, `os_interface_info_to_object`, `check_bridge_membership_in_os` | Answers reads from the cache. On a miss it sends `GETLINK` and runs the classifier on the reply. |
| ethtool/stats/oper status, CPS registration | lines 674–866 | ioctl and framework glue. |

Three kinds of actor run at the same time:

- **VRF workers.** There is one worker per VRF, and each runs the classifier on its own socket's notifications.
- **Query threads.** These run the same classifier on `GETLINK` replies. The classifier writes the cache, but the reply is never published.
- **The mask collaborator.** It sets masks on cached indices.

Only default-VRF events touch the cache (line 395). The classifier drops and takes the cache lock several times for each event:

- the type lookup (line 379);
- `if_info_update` (line 402);
- the deletes (lines 413 and 418);
- the master name lookup (line 432);
- `if_info_getmask` (line 462).

Other actors can interleave between any two of these calls.

## Modules

- **`IfCache.tla`** is the cache contract.
  - `TrackChange`, `Update`, `Delete`, `GetMask` and `SetMask` come from `spec.md` §4.3, because the `INTERFACE` class is not in `src/`. In the map they are marked `spec_modelled`.
  - `CachedType` is `os_intf_type_get`, and `NameKnown` is `nas_os_if_name_get` (the master-name lookup of the member rewrite).
  - The variable `cache` is a function from the indices in the cache to records.
- **`OsInterface.tla`** is the kernel, the workers, the query threads, the mask collaborator and the subscriber.
  - **Kernel state:**
    - `kexists[v]`, `kgone[v]` and `kattr[v][i]` hold the interfaces of each VRF. Linux never reuses an ifindex, hence `kgone`.
    - `q[v]` is the FIFO of notifications on VRF `v`'s socket.
    - Kernel actions (`KCreate`, `KDelete`, `KAdmin`, `KMtu`, `KEnslave`, `KRelease`) append the notifications Linux sends. Enslaving to a bridge also sends an `AF_BRIDGE` NEWLINK without link info. Releasing sends an `AF_BRIDGE` DELLINK, with the master still set, followed by a NEWLINK with master 0.
  - **Handler state:** `pc[t]`, `msg[t]`, `op[t]`, `ty[t]` and `tc[t]` are the program point, the message, `details._op`, `details._type` and `track_change` of thread `t`.
  - **Handler steps.** The actions follow the lock boundaries:
    - `Recv` / `StartHandling`: lines 259–304.
    - The query thread (`_get_interfaces`, lines 544–672):
      - `QueryStart` takes the index.
      - `QueryDbHit` answers from the cache when the kernel name lookup of `os_interface_info_to_object` resolves (`NameResolves`).
      - Otherwise `QueryDbMiss` falls through to the kernel.
      - `QuerySockFail` returns ERR.
      - `QuerySendFail` returns OK with an empty list.
      - `QueryReply` hands the `GETLINK` reply to the classifier, and `QueryNoSuchIf` returns OK empty for an unknown index.
      - `QueryAll` is a get-all answered from the cache alone. `_get_db_interface` returns OK for it whatever the cache holds, so the kernel dump is never sent.
      - `qreq[t]` is the index asked for. `qans[t]` is the latest answer: the status, the object indices, which step failed and, for a get-all, the existing interfaces left out (`missed`).
    - `Classify` with `KindType`, `HookType` and `HookVeto`: lines 305–393.
    - `UpdateCache` / `UpdateOtherVrf`: lines 391–403.
    - `DeletePlain`, `DeleteLag`, `DeleteMacvlan` and `DeleteL2Port`: lines 404–424.
    - `DecideFail`, `DecidePublish` and `DecideSuppress`, with `MemberEvt`, `PublishFlag` (with `DropsUnchanged` for the NONE-change suppression and `MaskMutes` for the mask), `StripsEnabled` and `Deliver`: lines 426–501.
    - `DecideReturn`: the query thread's `get_netlink_data` appends the object. For an L2 member the object carries the master's index (`ObjIdx`, lines 437–446). `DecideFail` and `HookVeto` leave a querier's list empty (`Reply`).
  - **Subscriber state:**
    - `sub[i]` is whether the subscriber knows interface `i` and the admin state it last saw.
    - `members[m]` is the membership of bridge `m` as seen through member events.
    - `pubs` is a history of the objects published for non-default VRFs, each with its true type.
    - `fault` records a NULL dereference, which kills the process. After it, nothing moves.
- **`BridgeMembership.tla`** is `check_bridge_membership_in_os` (lines 209–254) with its callback `get_if_detail_from_netlink` (lines 160–194). Several caller threads run it while the kernel creates, enslaves, releases and deletes the port.
  - The success path is `Call` (which zeroes `if_details`), `SockCreate`, `SendRequest`, `Pump` and `Compare`.
  - In `Pump` the kernel answers from its state at that moment: either a NEWLINK frame, decoded by `FrameDetails`, or an error frame for an unknown index.
  - `Compare` does the index check, the NULL-master check and the bridge check, then closes the socket.
  - The failure paths are `SockCreateFail` and `RequestFail` (the send or the receive fails).
  - `nla_parse` is not in `src/`. When it fails, the model lets the attribute table either hold `IFLA_MASTER` or not.
  - The history variables `snap` (what the kernel answered) and `last` (each caller's latest answer) exist for the properties.
  - `Verdict` is what the compare returns from the details.
  - `MCBridgeMembership.tla` instantiates it.
- **`MembershipCheck.tla`** is what `check_bridge_membership_in_os` promises its caller.
  - A call looks at the kernel once, atomically (`AAnswer`), and returns whether the member was enslaved to the bridge at that instant.
  - A failed step may make the answer FALSE (`AFail`, `AAbort`), never TRUE.
  - Each started call returns (weak fairness on `AAnswer` and `AReturn`).
  - `BridgeMembership` defines `Check == INSTANCE MembershipCheck WITH …`:
    - a caller is busy when it is not idle;
    - the call has answered at `"compare"`, with `Verdict(c)` as its answer;
    - `last` is projected onto bridge, member and result.
  - The linearisation point is `Pump` (the kernel reads its state), `RequestFail` or `SockCreateFail`. `Compare` maps to `AReturn`; every other step stutters.
- **`MCOsInterface.tla`** gives TLC the constant tables: interface kinds per VRF, allowed enslavements, the VRF sets and the vetoed pairs.

The message record keeps only what the classifier branches on. Names are abstracted:

- An index has a reserved name if it is in `Reserved` (`is_reserved_interface`).
- The MTU and the admin state are small sets.
- `NoKind` stands for a missing `IFLA_INFO_KIND`.

Two assumptions replace code that is not in `src/`:

1. **The refinement hook.** It vetoes the pairs in `Vetoed`. Given a message without a kind whose type is L3/L2, it types it as `L2_PORT` if a master is present and as `L3_PORT` otherwise.
2. **`ifinfo.master_idx`.** It is not written when `IFLA_MASTER` is absent (line 365). Line 268 default-initialises `ifinfo`, and `if_info_t` is not in `src/`, so what `master_idx` then holds depends on that type's constructor. The model assumes it is 0, and the type invariant cannot catch the uninitialised read, because the model fixes the value.

## Runs

| Run | Config | Expect | What it shows |
|---|---|---|---|
| core | `core.cfg` | pass | One VRF with two bridges, a port and a bond. The port joins and leaves any of the three masters, and every attribute changes. At quiescence the cache matches the kernel (`QuiescentCacheCoherent`), and the subscriber knows exactly the existing interfaces, their admin state and the bridge members (`QuiescentSubscriberCoherent`). At every step, not only at quiescence, the subscriber sees the port in at most one bridge (`OneBridgePerPort`): the member delete for the bridge family's `RTM_DELLINK` always comes before the member add for the next bridge. |
| query_reserved | `query_reserved.cfg` | pass | A query thread races the worker for a reserved-name port. It answers from the cache, from the kernel and by get-all, and fails at the socket and at the send. The subscriber still learns of the port (`ReservedAppearancePublished`): the reserved-name exception at line 453 covers the case where the cache was filled first. |
| wide | `wide.cfg` | pass | Three VRFs, one without a name, plus a macvlan, a vetoed VLAN sub-interface and a mask. It checks both coherence properties for the default VRF. |
| membership | `membership.cfg` | pass | Two callers, bridges 1 and 2, port 3 and the arguments 0, while the kernel creates, enslaves, releases and deletes the port. The call implements `MembershipCheck` (`MembershipCheckSpec`): each call answers as one atomic look at the kernel, and a failed step can only give FALSE. The type invariant keeps `if_details` either zeroed or about the member asked for. |
| query_failure_code | `query_failure_code.cfg` | violation | `QueryFailureReported`: when the `GETLINK` cannot be sent, `_get_interfaces` returns OK with an empty list (line 640). A query for a port enslaved to a bridge the cache has not learnt yet does the same: the classifier fails (lines 431–436) and `get_netlink_data` drops the object (line 510). Spec §7 says a socket or lookup failure gives an error code. TLC's shortest counterexample is the send failure. |
| query_member_rewrite | `query_member_rewrite.cfg` | violation | `QueryAnswerNamesRequested`: a cache-miss query for a bridge port returns the bridge's object, because the reply goes through the member rewrite (line 445); answered from the cache, the same query returns the port. |
| query_hides_appearance | `query_hides_appearance.cfg` | violation | `QuiescentSubscriberCoherent`: a query caches a new bridge before the worker handles its `RTM_NEWLINK`. The worker then sees no change and suppresses the bridge's only creation event (line 462). Spec §4.4 protects only reserved names. |
| bond_leaves_bridge | `bond_leaves_bridge.cfg` | violation | `NoNullDeref`: a bond that leaves a bridge reaches `strncmp(NULL, "bond", 4)` at line 417. |
| vrf_type_leak | `vrf_type_leak.cfg` | violation | `VrfTypeIsolation`: a vrf1 port with index 3 is published as a LAG because the default VRF's index 3 is a bond (line 379). |
| query_all_empty | `query_all_empty.cfg` | violation | `QueryAllFallsBack`: a get-all issued before the worker has cached anything returns OK with an empty list, because `_get_db_interface` answers get-all from the cache alone (line 609). Spec §2 says the facade falls back to a kernel dump. |
| membership_parse_failure | `membership_parse_failure.cfg` | violation | `MembershipRoundTrip`: `nla_parse` fails after filling `IFLA_MASTER`. `get_if_detail_from_netlink` returns false (line 189), but nobody checks that result, and the compare at lines 235–248 answers TRUE. Spec §4.5 and §8 say a parse failure yields false. |
| query_stale_reply | `query_stale_reply.cfg` | violation | `QuiescentCacheCoherent`: a GETLINK reply taken before an admin-up is applied after the worker's update. The cache stays "down" at quiescence (lines 643 and 402). |

Each violation run is recorded as a finding in `PROJECT.json`. Each property of the passing runs has a mutant, and TLC finds the property broken under that run's config. The mutants are:

- an uninitialised master;
- a skipped delete;
- NONE-change suppression that also drops deletes (`DropsUnchangedDeleteToo`);
- a mask that mutes admin changes whatever it says (`MaskMutesUnmasked`);
- an `_to_op_type` table with no `RTM_DELLINK` entry (`ToOpNoDelete`);
- reserved-name matching that never fires;
- `if_details` not cleared between calls (`ClearDetailsSkipped`).

`MembershipCheckSpec` is broken by the mutant that does not clear `if_details`. After a failed send, the stale details of the previous call answer TRUE for a member the kernel does not hold in that bridge.

### Bounds

- `MaxKernelOps` is 4–6 kernel changes. In core, six are enough to create a port and two bridges, then move the port from one bridge to the other, or to create, enslave, release and delete an interface. In `query_reserved`, four are enough for a create, a stale query and an admin change.
- There are 1–6 indices per configuration; membership uses one port, two calls and three kernel changes, enough for a port to be created, enslaved and released between two checks.
- Two MTU values are enough to make an MTU change an `ALL` change.
- `MaxMaskOps` is 1 and `MaxQueries` is at most 2.

Every bug found needs at most 4 kernel changes. The passing OsInterface runs reach up to 1.6 million distinct states (wide, about 1.5 minutes). Core reaches 1.2 million in about a minute, and `query_reserved`, with two queries and four kernel changes, reaches 0.9 million. Membership reaches 130,000. The query violation runs use one query and three kernel changes, which is enough to create a bridge and a port and enslave the port.

### Fairness

`OsInterface` states weak fairness on every thread's handler step: a started handler runs to completion. Kernel, mask and query-start actions are not fair, because they are environment choices, and neither are the query's socket and send failures. No OsInterface property is temporal. The event loop that would make a worker's progress a property of this code (`netlink_tools_receive_event`) is not in `src/`, and with the model's own loop weakly fair, "every event is handled" would hold by construction. The configurations set `CHECK_DEADLOCK FALSE` because the event loop legitimately waits forever in `recv` once the kernel stops changing.

In BridgeMembership, the success steps of a call in progress are weakly fair, but the failure steps are not. The kernel answers every request, and nothing forces a socket, send or receive failure. The liveness part of `MembershipCheckSpec` (every call returns) rests on the pump ending on the kernel's error frame. That is `netlink_tools_process_socket` behaviour, which is not in `src/`, so `ErrorFrame` is modelled from the spec.

## Not modelled

- TLV parsing and object layout.
- ethtool, stats and oper status (pure ioctl I/O).
- CPS registration and the read handler `__rd`. `__rd` maps the result of `nas_os_get_interface` to a CPS return code, and `nas_os_get_interface` is declared in `nas_os_interface.h` but not defined in this repository. `__wr` always returns an error.
- The VLAN unit test. It calls `nas_os_add_vlan`, which is not in this repository.
- Netlink buffer overflow (ENOBUFS).
- The `if_type` filter of a get-all (the model asks for every type) and the ethtool/oper-status enrichment of management interfaces in query answers.
- `nas_os_if_index_get`. On a cache hit it answers from `get_ifindex_from_name`, which is not in `src/`, and the model abstracts names to indices. A deleted MACVLAN or L2 port keeps its cache entry and its name, so a new interface with that name can be looked up to the dead index.
- The cache getters `os_intf_admin_state_get`, `os_intf_master_get` and `os_intf_mac_addr_get`. They are plain reads under the lock, and no code in `src/` calls them.
- The failure of `nas_os_check_intf_exists` (line 300). Its `return false` from a `t_std_error` function returns `STD_ERR_OK`. The cache call fails only when no cache handler is registered, and the model's cache always exists.
- Recovery of an admin change muted by a mask. The change is not published, but it is already in the cache (lines 402 and 473), so clearing the mask does not publish it. Spec §4.4 makes surfacing it the job of the masking collaborator, which is not in this repository. `QuiescentSubscriberCoherent` therefore leaves out every index that was ever masked. The hazard is listed in `PROJECT.json`.
- A netlink reply lost by the kernel. The pump has no timeout, and spec §5 accepts this.

- A decode failure of `nla_parse` in `os_interface_to_object` (lines 323–326): the event is dropped with no state change, and the model's messages are always well formed.

The cache class and the refinement hook are modelled from `spec.md`, as described above. `IfCache.Update` keeps the stored suppression mask, although line 312 sets the candidate's `ev_mask` to NONE and spec §4.3 says the record is overwritten. The reason is that the classifier reads the mask with `if_info_getmask` at line 468, after the update at line 402. If the update cleared the mask, the masking branch of §4.4 could never run, so the model takes the overwrite to cover the diffed fields only. This is an assumption about `INTERFACE`.

## Plan for later work

1. A subscriber-mirror refinement (the subscriber's view as an abstract per-interface copy of the kernel) was considered and not written. Without a query thread, the view is only ever set from a notification of the same socket, handled in kernel order, so such a mapping would hold by the model's structure. What the code can get wrong there is already checked: agreement once all notifications are handled (the quiescent coherence invariants, in runs without a query thread) and transient membership (`OneBridgePerPort`).
2. Model the rest of `os_interface_info_to_object`'s enrichment if a property about the answer's fields is wanted.
3. Model `nas_os_if_index_get` and the cache getters once the name data of the `INTERFACE` class is available to translate.
