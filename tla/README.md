# TLA+ models of the sidelink PHY/MAC

This directory holds TLA+ models of the sidelink (device-to-device) stack in
`src/`, together with the TLC configurations that check them. The stack is a
fork of srsLTE. A node transmits each transport block (TB) twice, as a first and
a second generation, on a shared resource pool. There is no ACK/NACK feedback,
so the receiver has to work out from the SCI (sidelink control information)
alone which soft information belongs together.

## System inventory

| Part | Source | State | Operations (state-changing) |
|---|---|---|---|
| MAC HARQ entity | `srssl/src/stack/mac/dl_harq.cc` | per process (pids 0..7, plus BCCH) and per TB: `cur_grant`, `is_first_tb`, `ack`, `n_retx`, `is_new_transmission`, `payload_buffer_ptr`, `softbuffer`, `mutex`; entity-wide `nof_pkts`, `average_retx` | `new_grant_dl` (entity routing + process), `tb_decoded`, `reset`, `reset_ndi`, `calc_is_new_transmission` |
| PHY worker RX | `srssl/src/phy/phch_worker.cc` `work_imp`, `decode_pscch_dl`, `decode_pssch` | the worker's grant and action structures, `snr_pssch_per_ue` | blind SCI scan over subchannels (first valid wins); pid = (t_SL_k + 8 − rti·gap) % 8; new_grant_dl → decode → tb_decoded |
| PHY worker TX | `phch_worker.cc` `work_imp` TX part | `ul_action` softbuffer, the SCI being built | eligibility `sidelink_id == t_SL_k % 5`; search over L = 1..numSubchannel with a DFT-valid PRB count and MCS < 12 with tbs > sdu; random start subchannel; two generations, time_gap 5 |
| Dual-buffer combiner | `lib/src/phy/ue_sl/ue_sl_mib.c` `sl_pscch_decode` | `softbuffers[0]` (fresh), `softbuffers[1]` (combined), `data_rx` | reset policy by rti, two decodes, success report |
| TX ordering and shared PHY state | `srssl/src/phy/phch_common.cc` `worker_end`, `set_repo` | `tx_mutex[]`, `is_first_tx`, `ue_repo.rp`, SNR averages | lock `tx_mutex[tti]`, transmit, unlock `tx_mutex[tti+1]`; REST reconfiguration memcpy |
| REST interface | `srssl/src/stack/upper/rest.cc` | none of its own | PUT repo, GET SPS RSRP (off-by-one read) |
| RLC TCP tunnel | `lib/src/upper/rlc.cc` `tcp_process` | `recv_buffer`, `recv_len`, `mutex`, `cvar` | receive thread fills the buffer; `get_packet` drains it without the lock |
| Convolutional encoder | `lib/src/phy/fec/convcoder.c` | none (pure function) | `srslte_convcoder_encode` |

How the parts interact:

- A PHY worker thread handles one subframe.
  - It scans for an SCI and builds a MAC grant.
  - The MAC's `dl_harq_entity` picks a process, takes the process's mutex and decides whether this is a new TB.
  - The worker decodes into the process's soft buffer and calls `tb_decoded`, which delivers or discards the payload buffer and releases the mutex.
- Several workers run this at once, one per tick.
- `phch_common::worker_end` orders their transmissions through a chain of mutexes.
- `sl_pscch_decode` is the stand-alone combiner used by the SNR file-decoder tools. It keeps two soft buffers and decides between them by the SCI's `rti` bit.

The hard behaviours:

- interleaving of workers on the HARQ processes;
- a mutex held across two calls;
- the buffer pool at its limit;
- a concurrent `reset`;
- the combiner's buffer lifetimes when control messages are missed;
- the wrap of the pool index t_SL_k, which affects both the pid formula and the non-modular relatedness check;
- racing reconfiguration and TX ordering.

## Modules

### DlHarq (`DlHarq.tla`, instance `MCDlHarq.tla`)

DlHarq models `dl_harq.cc`, and the part of `phch_worker::work_imp` that drives it, for TB 0. TB 1 is always disabled on the sidelink.

- State:
  - per process `p` in `0..NPids`, where `NPids` is the BCCH process: the members of `dl_tb_process`;
  - `lock[p]`: the holder of the pthread mutex;
  - `owner[b]`: the demux pool's view of each payload buffer;
  - per worker: a program counter, the grant, the routed process, `enabled` and `ack`;
  - history variables: `delivered`, and counters that bound the run.
- Actions:

  | Action | Code |
  |---|---|
  | `Receive` | a worker obtains a grant |
  | `NewGrantDropped` | the invalid-pid early return, and `dl_harq_process::new_grant_dl` skipping a TB of size 0 (`TbEnabled`): no mutex taken, decode disabled |
  | `NewGrant` | `dl_tb_process::new_grant_dl`, whole (helpers `MutexFree` for the blocking lock, `PayloadRequest` for the demux buffer request): lock, BCCH RV, new-transmission rule, the two reset conditions, `n_retx++`, and either save + (de)allocate + enable (or the "can't get a buffer" return with the lock held) or the duplicate branch with `reset(false)` |
  | `Decode` | PHY decode into the soft buffer, through `PsschDecode` (`decode_pssch`: no decode and no ack when TBS = 0) |
  | `PsschSnrRead`, `PsschSnrWrite` | after an enabled decode, the per-UE SNR moving average `phy->snr_pssch_per_ue[ue_id]` (phch_worker.cc:402-416): the read and the write of one EMA update, two steps because no shared lock covers them |
  | `TbDecoded` | `tb_decoded`: record ack, deliver or deallocate, read `nof_pkts`, unlock |
  | `UpdateStats` | the write-back of `nof_pkts++`, still inside the process's mutex, then the unlock |
  | `BcchReset` | the `reset()` after the unlock |
  | `StartReset`, `ResetStep` | `dl_harq_entity::reset`, one process at a time |
  | `DemuxFree` | the demux returning a delivered buffer |
- `SoftbufferReset` is `new_grant_dl`'s reset rule (dl_harq.cc:330-349): a new transmission, a TBS different from the saved grant's, or a retransmission that does not follow the saved grant by its time gap.
- The SNR average is abstracted to the number of samples folded into each of the 5 UE slots. The history variable `snrSamples` counts the samples measured. The slot is `ue_id % 5`, where `ue_id` is `srslte_repo_get_t_SL_k` of the tti; that function is outside `src/`, and the model takes the grant's tti as the index.
- Soft information is the set of generations combined. A decode succeeds if that set is all from one TB and either one generation is good or there are two.

### HarqProcessSpec (`HarqProcessSpec.tla`)

HarqProcessSpec is the abstract HARQ process of spec 4.5 and 5. It says what a process promises, not how `dl_harq.cc` tells a new transmission from a retransmission.

- State: `holder` (the worker holding each process, or `None`), `soft` (the generations combined in each soft buffer) and `delivered`.
- Actions:
  - `Take`: lock a free process, and keep its soft buffer or start it afresh;
  - `Combine`: the holder adds one generation;
  - `Deliver`: the holder hands over a generation of its buffer, only when the buffer decodes (the decode criterion is a parameter, spec 6), and may release the lock in the same step;
  - `Release`: the holder unlocks;
  - `Clear`: the reset of a process nobody holds.
- DlHarq instantiates it as `HP` with `holder <- lock`, `soft <- softbuf` and `Decodable <- DecodeOk`. The run dlharq_core checks `HP!Spec` as the property `HarqProcessRefinement`. Each concrete step must then be one abstract step or leave the three mapped variables alone. That covers:
  - `NewGrant` (take, with a fresh buffer when the grant resets the process);
  - `Decode` (combine);
  - `TbDecoded` (deliver and release, deliver and keep the lock until `UpdateStats`, or release);
  - `BcchReset` and `ResetStep` (clear).

### HarqCombiner (`HarqCombiner.tla`)

HarqCombiner models `sl_pscch_decode` and its caller.

- `Occasion(q)` is one subframe. The transmitter sends its current generation, and the receiver either misses the control message (`q = "lost"`, only when `LossyControl`) or runs `SlPscchDecode`.
- `SlPscchDecode` is the whole function:
  - reset buffer 0, and reset buffer 1 when rti = 0;
  - decode into both;
  - reset buffer 1 when rti = 1;
  - report success, with the `data_rx` contents, when either decode succeeded.
- A buffer whose decode succeeded keeps `cb_crc` and returns the cached success until it is reset.
- A failed decode may or may not overwrite `data_rx`. The decoder is not in `src/`, so both outcomes are allowed.

### SidelinkTx (`SidelinkTx.tla`, instance `MCSidelinkTx.tla`)

SidelinkTx models the TX block of `phch_worker::work_imp` (phch_worker.cc:469-644) and the REST handlers of `/phy/repo`: `phch_rest_get_repo_cb` (phch_common.cc:126-143), which reports `ue_repo.rp`, and `phch_rest_put_repo_cb` (:145-186), which replaces it.

- State:
  - `slot`: t_SL_k of the tick being scheduled;
  - `rp`: the pool configuration;
  - `ulRv`: the RV the UL HARQ hands out next (0, then 2, then 0 again: two generations without feedback);
  - `pc`: the position within the tick's TX block;
  - `sel`, `selPool`: the search result and the pool the search read;
  - history variables: `sent` and `puts`.
- The TX block is split at the second read of `ue_repo.rp`, because a PUT can land in between:
  - `TxSearch` covers eligibility (`t_SL_k > 0 && sidelink_id == t_SL_k % 5`) and the (L, MCS) search;
  - `TxStart` covers `rand() % (num - L + 1)` and the send;
  - `PutRepo(req)` is the whole PUT handler. A body that is not JSON is answered 400. Otherwise `Unpack` replays json_unpack over a copy of the pool, the copy is memcpy'd into `ue_repo.rp`, and the response is the GET body.
  - `GetRepo` is the GET handler. `RepoGetBody` is its `json_pack`, and the variable `got` holds the body of the client's last response.
  - `ClientRequests` is what a client PUTs: one of the fixed bodies `RepoRequests`, or the body of its last response with the values of an edit in `RepoEdits` changed.
- `rp` holds the pool's bytes 101..106: `sl_Subframe_r14_len`, `adjacencyPSCCH_PSSCH_r14`, `sizeSubchannel_r14`, `numSubchannel_r14`, `startRB_Subchannel_r14` and `startRB_PSCCH_Pool_r14`. These are one-byte fields, laid out as the field list in `phch_common::set_cell` declares them. That list also gives `InitialPool`, the 5 x 5 default.
- `StoreInt` is what json_unpack's `"i"` does with the pointer it is given. It stores a four-byte little-endian int, so each key present in a body also overwrites the three fields after its own. `UnpackFrom` follows the format order: absent keys are skipped, and the first non-integer value ends the unpacking.
- The search is the RECURSIVE operator `SearchFrom`, which follows the loop in the code:
  - L = 1..num;
  - skip PRB counts the DFT cannot take;
  - the first MCS whose TBS exceeds the SDU wins.

  `GrantMinimal` checks it against the reference definition `LexLeast(Admissible(c))`, the least admissible (L, MCS) pair.
- A failed search is only logged, because the `continue` is commented out. It leaves `L = num + 1`, so the divisor is zero, which the model records as `pc = "fault"` (SIGFPE).
- A new TB (RV 0) pulls its payload from the RLC TCP tunnel through `rlc::read_pdu_sl`. SidelinkTx does this by composing `RlcTcp` (instance `R`): `TxSearch` takes `R!GetPacket` into `txPdu` and performs `R!TakePacket`, and `TxStart` records that packet in `sent`. The tunnel's receive thread is the extra action `R!RunThread`.

### RlcTcp (`RlcTcp.tla`)

RlcTcp models `rlc::tcp_process` (rlc.cc:420-510) and `rlc::read_pdu_sl` (rlc.cc:219-222).

- State:
  - `recvLen`, `recvBuf`: `recv_len` and `recv_buffer`, the one-packet hand-off;
  - `netPos`: how many packets of the constant `Stream` the socket has delivered;
  - `taken`: a history of what `get_packet` returned.
- `RunThread` is the iteration of `run_thread` that reads a packet, under the mutex and only when `recv_len <= 0`.
- `TakePacket` is `get_packet`. It takes no lock: it copies the buffer and then clears `recv_len`. Because `run_thread` writes only into an empty buffer, the copy and the clear form one action.
- `NoPacketLost` states that the packets taken, followed by the packet still buffered, are exactly the stream prefix that was read, in order.
- Packet bytes and lengths are abstracted, so the truncation when the MAC asks for fewer bytes than `recv_len` is not modelled.

### SidelinkRx (`SidelinkRx.tla`)

SidelinkRx composes the receive chain. It uses `INSTANCE DlHarq` for the MAC and the worker pipeline, and adds the following.

- Pool timing: tick t is pool slot `t % PoolLen`. All subframes are in the pool, and the slot restarts at 0 when the pool period wraps.
- Remote senders, as in SidelinkTx: node n transmits in slot k when `k > 0` and `k % 5 = n`, alternating generations 0 and 1 of its current TB.
- `TickOn(w)` covers `decode_pscch_dl` for worker w (`Tick` lets any worker take it):
  - the SCI is found, or it is lost and the tick ends without a grant;
  - when it is found, the grant is built as in the code: `ndi = 0`, `rv = 0`, `tti = subframe_rp[tti]`, `pid = (tti + 8 - rti*time_gap) % 8`;
  - the grant is handed to a free worker (`DlHarq!Receive`).
- Channel quality per occasion is good, weak or lost.

### RxChain (`RxChain.tla`)

RxChain composes SidelinkRx (`INSTANCE SidelinkRx`, and the same `INSTANCE DlHarq`) with TxOrdering (`INSTANCE TxOrdering WITH wpc <- cpc`). It models a worker's whole `work_imp`: the receive part and the MAC calls first, then `worker_end`. A worker is free for a new tick only after its `worker_end`.

- Tick t of the receive chain is tti t - 1 of the chain, and the tti period is longer than the run, so neither wrap happens (the wrap runs cover those).
- `Dispatch(w)` is TxOrdering's `Dispatch` and SidelinkRx's `TickOn(w)` in one step: the sync thread hands the tick to idle worker w, which searches the PSCCH and, with an SCI, holds the grant.
- `MacStep(w)` is DlHarq's worker pipeline: `new_grant_dl`, decode, the SNR update and `tb_decoded` (phch_worker.cc:387-428).
- `Work(w)`: once the MAC calls are over, the transmit part of `work_imp` decides `signal_ready`. Its detail is SidelinkTx's subject.
- `EndStep(w)`: the steps of `worker_end`.
- The start state is `phch_common::init`: `is_first_tx` set and every `tx_mutex` unlocked. RxChain has no other start state. A steady ring with `tx_mutex[0]` free before tti 0 is not the only one the code reaches: the txorder_order trace leaves the ring with the other mutex free, and it stays that way. From that ring one worker locks, transmits and unlocks tick after tick alone (TLC finds NoDoubleDelivery broken from it as well). So no start state makes the chain a guarantee.

### TxOrdering (`TxOrdering.tla`, instance `MCTxOrdering.tla`)

TxOrdering models `phch_common::worker_end` (phch_common.cc:420-450) with the mutex ring created in `init` (:249-262), for several PHY worker threads.

- State:
  - per worker: the tti it holds (`wtti`), its position in `worker_end` (`wpc`), `signal_ready` (`txEnable`), and the value of `is_first_tx` it read;
  - shared: `is_first_tx`, `is_first_of_burst` and `locked[m]` for `tx_mutex[m]`;
  - the radio's continuous-TX mode, fixed at start;
  - history variables: `lastTx` and `radioOp`, the tti and the kind of the last `radio_h` call.
- Actions:
  - `Dispatch`: the sync thread hands the next tti to an idle worker. The tti wraps at `TtiPeriod` (10240 in the code). The thread pool is not in `src/`, so this action is `spec_modelled`.
  - `Work`: the rest of `work_imp`, which decides `signal_ready`.
  - `ReadFirst` and `Branch`: the test of `is_first_tx`, then either clearing it or going to the lock. They are two steps because the test-and-clear is not atomic.
  - `Lock`: `pthread_mutex_lock(&tx_mutex[tti % nof_mutex])`.
  - `Transmit`: `set_tti`, then the signal, zeros or the end of burst.
  - `Unlock`: `pthread_mutex_unlock(&tx_mutex[(tti+1) % nof_mutex])`. glibc's default mutex lets any thread unlock it, also when it is not locked, so this just clears the flag.

## Runs

| Run | cfg | Expect | Shows |
|---|---|---|---|
| dlharq_core | MCDlHarq.cfg | pass | `TypeOK`; `DecodeUnderLock` (each worker between new_grant_dl and its unlock holds its process's mutex); `BufferOwnership` (a lent buffer is exactly its process's payload, and an enabled decode has a buffer); `SoftbufferMatchesTbs` (spec invariant (1): a decode only combines into a soft buffer whose generations all came with the current grant's TBS); `BufferEventuallyReturned` (liveness); `HarqProcessRefinement`: the entity implements HarqProcessSpec |
| dlharq_nofpkts | MCDlHarqStats.cfg | violation | `SharedStatsCountEverySample`: two workers decode sidelink TBs on pids 1 and 0, five ticks apart, so both land in one UE slot. Each updates `snr_pssch_per_ue` under its own process's mutex, and one sample is lost. `nof_pkts` loses a delivery the same way: the conjunct `NofPktsCountsDeliveries` alone fails under this cfg in 15 steps |
| combiner_coverage | MCHarqCombiner.cfg | pass | `TwoGenerationCoverage`: with no missed control messages, a TB's data is returned exactly when it is decodable from what was received (two weak generations included) |
| combiner_lossy | MCHarqCombinerLossy.cfg | violation | `ReportedDataMatchesSci`: after a missed second generation and a missed first generation, the cached buffer returns the previous TB's data for the next SCI |
| tx_search | MCSidelinkTx.cfg | pass | `TypeOK`; `GrantMinimal`: every SCI sent carries the least admissible (L, MCS) of the pool its search read, and fits that pool when no PUT intervened; `RlcNoPacketLost`: the lock-free hand-off between the tunnel's receive thread and the TX worker neither loses, duplicates nor reorders a packet |
| tx_div_zero | MCSidelinkTxDivZero.cfg | violation | `NoModuloByZero`: the client GETs /phy/repo, changes `sizeSubchannel_r14` to 10 (a 5 x 10 pool, in which the SDU fits) and PUTs the body back. json_unpack's four-byte stores leave `numSubchannel_r14 = 0`, the next search fails, and `rand() % (num - L + 1)` divides by zero |
| rx_delivery | MCSidelinkRx.cfg (SidelinkRx) | pass | `TypeOK`; `NoDoubleDelivery`; `DecodableDelivered` (liveness): with the MAC calls in tick order (one worker), away from the wrap, a TB with one good or two received generations is delivered, exactly once |
| rx_wrap_double | MCSidelinkRxWrap.cfg | violation | `NoDoubleDelivery`: across the pool-period wrap the two generations reach pids 3 and 4 and the TB is delivered twice |
| rxchain_startup_double | MCRxChainStartup.cfg (RxChain) | violation | `NoDoubleDelivery`: before the first transmission, w1 stops before `new_grant_dl` at tick 1 while w2 takes `is_first_tx` and runs ticks 1 to 6 through the unlocked mutexes. Tick 6's second generation is taken as a new TB and delivered, then tick 1's first generation is delivered again |
| txorder_chain | MCTxOrdering.cfg | pass | `TypeOK`; `NoChainDeadlock`: with 2 workers, `nof_mutex = 2` and a period it divides, the mutex ring never blocks every worker at once |
| txorder_order | MCTxOrderingOrder.cfg | violation | `TxInOrder` (action property): the worker of tti 1 reaches `worker_end` first, sees `is_first_tx`, and transmits before tti 0 |
| txorder_wrap | MCTxOrderingWrap.cfg | violation | `NoChainDeadlock`: one worker, `nof_mutex = 3`, period 10. tti 9 unlocks mutex 1, not mutex 0, and the worker of tti 0 waits forever |

Bounds:

- MCDlHarq:
  - 2 workers, the smallest number that interleaves.
  - 2 pids plus BCCH, so that a concurrent reset crosses a process boundary.
  - `BufCap = 1`, so that pool exhaustion happens.
  - `MaxGrants = 3` and one reset.
  - The grant set covers a weak two-generation sidelink TB on pid 0, the same retransmission slot with another TBS (so a TBS change happens), a good TB on pid 1, a C-RNTI new-NDI grant, an invalid pid and SIB1 without an RV.
  - It reaches about 404k states in 35 s.
  - The stats run uses sidelink grants only: two TBs on different pids, five ticks apart, with two buffers so neither decode is refused.
- HarqCombiner: 3 TBs. That is enough for a TB, a missed pair and a following TB.
- MCSidelinkTx:
  - the start-up pool is 5 x 5 and the SDU is 150 bytes. The search then picks L = 4 (18 PRB), and would pick L = 3 (13 PRB) if the DFT check were left out;
  - no GET-and-edit PUTs (`RepoEdits` is empty), because any body carrying `sizeSubchannel_r14` is tx_div_zero's subject; GETs happen;
  - the PUT bodies set `numSubchannel_r14` to 4 or 5, set `startRB_Subchannel_r14`, stop at a non-integer value, or are not JSON. None of them makes a search fail: a failed search is the subject of tx_div_zero;
  - 16 slots, so that sidelink_id 1 transmits at several slots with both RVs;
  - 2 PUTs, so that a change between the search and the start choice happens;
  - a stream of 2 packets, so that a packet can wait in `recv_buffer` while the worker takes the previous one, and the receive thread can refill the buffer between two new TBs.
- MCSidelinkRx:
  - nodes 1 and 3 and 16 ticks: two TBs per node, with a second TB reusing the process of an earlier one;
  - one worker, so that the MAC calls arrive in tick order: the run asks whether the pid formula and the relatedness test deliver exactly once when nothing reorders them. Whether the workers keep that order is RxChain's question;
  - a buffer pool as large as the TB count, so the liveness property is not limited by pool exhaustion, which MCDlHarq covers;
  - `PoolLen = 100` keeps the run away from the wrap.
- MCRxChainStartup:
  - two workers, the smallest number that interleaves, and `nof_mutex = 2`;
  - node 1 and 8 ticks: the first TB's generations at ticks 1 and 6, so a worker holding tick 1 can be overtaken by tick 6;
  - a buffer pool of 2, as large as the TB count, and `PoolLen = 100`, away from the wrap.
- MCSidelinkRxWrap (SidelinkRx alone, one worker): node 1, 14 ticks, and `PoolLen = 12`, not a multiple of 5, so a node's two opportunities straddle the wrap.
- MCTxOrdering:
  - two workers (symmetric model values), the smallest number that races for `is_first_tx` and the mutexes;
  - `nof_mutex = 2` and a tti period of 4 keep the full wrap of the tti counter inside the run;
  - the wrap run uses a period of 10 with 3 mutexes: 10240 is not a multiple of 3 either, and the mismatch is what matters, not the size.

## Fairness

Fairness is weak, per worker, on its pipeline step. The reset loop and the demux unit also get weak fairness. A worker thread blocked in `pthread_mutex_lock` is re-enabled when the lock is released, and the code has no path that stops a started decode. New grants (`Receive`) and new resets have no fairness, because the air interface may stay silent. In SidelinkRx, `Tick` is weakly fair, and in RxChain `Dispatch` to some worker: the radio delivers a subframe every millisecond whether or not anyone listens. In TxOrdering, each worker's step is weakly fair. No property there is liveness, however: a worker waiting on a mutex that is released and taken again can starve under weak fairness, and pthread mutexes promise no more.

## Findings

- `nof_pkts++` (dl_harq.cc:433/440) and the per-UE SNR average (phch_worker.cc:414) are data races across HARQ processes, and they lose samples.
- The combiner returns stale data after lost control messages.
- The TX search has no fallback: a pool in which nothing fits divides by zero (phch_worker.cc:554).
- PUT /phy/repo stores four-byte ints into one-byte pool fields (phch_common.cc:164). Any body carrying `sizeSubchannel_r14` leaves `numSubchannel_r14 = 0`, and the next transmit slot divides by zero.
- A PUT between the search and the start choice can turn a failed search into a transmission with an (L, MCS) that fits no pool. This is phch_common.cc:180 meeting phch_worker.cc:554. It is listed as a hazard: with the bodies `numSubchannel_r14` = 3 and 4 in MCSidelinkTx, TLC reports `GrantMinimal` violated.
- `is_first_tx` lets whichever worker arrives first skip the lock, so ttis can reach the radio out of order (phch_common.cc:426).
- When `nof_mutex` does not divide 10240, the unlock at the tti wrap goes to the wrong mutex and the chain deadlocks (phch_common.cc:449).
- Nothing dependable orders the workers' MAC calls. From `phch_common::init`, `is_first_tx` skips the lock and every `tx_mutex` starts unlocked (phch_common.cc:426). A worker can then run five ticks ahead of another still before `new_grant_dl`, and a TB is delivered twice (rxchain_startup_double). The ring can also settle with the wrong mutex free (txorder_order) and stay so, and the same overtaking is then possible at any time.
- At the pool-period wrap, the pid formula (phch_worker.cc:1021) and the relatedness check (dl_harq.cc:344) are not modular. A TB is delivered twice, or its two weak generations are never combined.

## Plan (later sittings)

1. Model the subchannel scan of `decode_pscch_dl` (first valid SCI wins, with the RIV consistency check) as an operator, checked against the reference of spec 4.3. It matters once two nodes share a slot, or once a PUT leaves the nodes with different pools.
2. If the MAC's grant conversion becomes part of the repository, decide whether a zero-size grant can reach `dl_harq_entity` (hazard phch_worker.cc:978). If it can, a run with such a grant in `GrantInput` checks `DecodeUnderLock`, which TLC then breaks in 7 steps.
3. Let `Dispatch` in TxOrdering block on a busy pool, and check that the sync thread cannot be starved once workers are free.
4. Compose the RX delivery (`rlc::write_pdu_sl`, `send_packet`) with RlcTcp. This closes the path from the air to the TCP peer.
5. Done in RxChain: the worker_end chain does not keep the MAC calls in order, neither at start-up nor in the shifted ring it can settle into.

## Not modelled

- HarqCombiner's repeated report (spec §4.4 step 7: `harq_already_decoded` at ue_sl_mib.c:306 is computed and never used, so a first generation that decodes is reported again at the second) is found by TLC, but has no run. The combiner's only caller (phch_worker.cc:383) is commented out, and the run slot went to the live receive chain.

- RF front end, synchronisation, channel estimation and other signal processing: floating point with no protocol state.
- USIM, metrics, build info and CMake probes: no concurrency and no protocol.
- The MAC glue (`mac.cc`) and the demux unit are not in `src/`. Where they matter (buffer pool, delivery), they are modelled from the spec and marked `spec_modelled` in PROJECT.json.
- The convolutional encoder (`convcoder.c`) and the REST server loop are outside the sidelink core (spec line 7).
- The REST PUT and GET of the pool are modelled, in SidelinkTx, because the TX worker reads that state.
- The RLC TCP tunnel is modelled only as far as its hand-off to the MAC. The socket set-up and the byte copies are not.

Most of the source lines no module maps to are one of the following:

- `phch_worker.cc`:
  - the LTE downlink/uplink path of `work_imp` (lines 649-803), which is inside `#if 0`;
  - the PSBCH/MIB block, channel estimation, `encode_*`, `set_uci_*`, the power control and the CQI/RI/PMI computations. These are floating-point signal processing and radio configuration.
  - `update_measurements`, which only derives float metrics and is gated by the uninitialised `chest_done` (a hazard).
- `phch_common.cc`:
  - the MBSFN/MCH tables, the RAR grant and pending-ACK tables of LTE, the metrics setters and `reset_ul` (commented out);
  - `reset()`, whose only caller in `src/` is the constructor, so it is the start state of TxOrdering and SidelinkTx.
  - The metrics and gain REST handlers only format floats or hand a gain to the radio (outside `src/`).
- The PSCCH subchannel scan of `srslte_ue_sl_pscch_decode` (`ue_sl_mib.c` 433-462). Which subchannels an SCI decodes at is decided by channel estimation and the decoder, so the combiner model takes the slot's SCI as given. The PSSCH is then placed from the SCI's own `frl_n_subCH` (`ue_sl_mib.c:247`), not from the scanned subchannel.
- `ue_sl_mib.c`: `mib_decode`, `pssch_decode` and the `mib_sync_*` functions are not called anywhere in `src/`, and they are signal processing.
- `stack/upper/rest.cc`: its handlers run on `phy_common`, a class that is not in `src/`. Its PUT of the pool is the same code as the modelled one.
- `rlc.cc`: the LTE bearer management of class `rlc` delegates to `rlc_entity`, which is not in `src/`. `send_packet` is a socket write under a lock. `stop` and `notify` are never called.
- `pssch.h` and `cc_worker.h` hold declarations only.

Modelling these lines would mean transliterating signal processing or dead code, so the map covers less of `src/` than a protocol-only code base would allow.
