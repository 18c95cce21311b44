----------------------------- MODULE SidelinkRx -----------------------------
(***************************************************************************)
(* The sidelink receive chain: remote nodes transmitting in their pool     *)
(* slots, phch_worker::decode_pscch_dl turning a found SCI into a MAC      *)
(* grant with a HARQ process id, and the MAC HARQ entity (DlHarq) that     *)
(* combines and delivers.                                                  *)
(*                                                                         *)
(* Tick t is pool subframe t_SL_k = t % PoolLen (every subframe in the     *)
(* pool; srslte_repo_get_t_SL_k restarts at 0 when the pool period wraps). *)
(* Node n transmits when t_SL_k > 0 and t_SL_k % 5 = n, alternating first  *)
(* and second generation (SidelinkTx).  The receiver needs both            *)
(* generations of a TB to reach the same process, with the second grant   *)
(* following the first by the SCI's time gap.                              *)
(***************************************************************************)
EXTENDS Integers, Sequences, FiniteSets

CONSTANTS
  Workers, NPids, BufCap, ResetDupTimeout,
  PoolLen,      \* pool subframes per period: t_SL_k runs 0..PoolLen-1
  Nodes,        \* sidelink_id of the remote transmitters
  Quality,      \* channel outcomes of one occasion: "good", "weak", "lost"
  MaxTick       \* bound: ticks examined

TimeGap == 5     \* ul_mac_grant.phy_grant.sl.time_gap
TbsBytes == 1    \* every TB has the TBS of the 101-byte SDU

VARIABLES
  curGrant, isFirstTb, ack, nRetx, isNewTx, payload, softbuf, lock, owner,
  nofPkts, wpc, wgrant, wproc, wen, wack, wtmp, wsnr, snrPsschPerUe,
  snrSamples, rst, delivered, ngrants, nresets,
  tick,      \* the subframe the next worker will process
  txGen,     \* per node: generation of its next transmission
  txTb,      \* per node: index of the TB it is sending
  rcvd       \* history: generations of each TB whose SCI was found

D == INSTANCE DlHarq WITH SiWindowStart <- 0, GrantInput <- {},
                          MaxGrants <- MaxTick + 1, MaxResets <- 0

harqVars == <<curGrant, isFirstTb, ack, nRetx, isNewTx, payload, softbuf,
              lock, owner, nofPkts, wpc, wgrant, wproc, wen, wack, wtmp, wsnr,
              snrPsschPerUe, snrSamples, rst, delivered, ngrants, nresets>>
rxVars == <<tick, txGen, txTb, rcvd>>
vars == <<harqVars, rxVars>>

(* A TB's identity: node n's i-th transport block.                         *)
TbId(n, i) == 10 * n + i
AllTbs == {TbId(n, i) : n \in Nodes, i \in 1 .. MaxTick \div 10 + 1}

Init ==
  /\ D!Init
  /\ tick = 1
  /\ txGen = [n \in Nodes |-> 0]
  /\ txTb = [n \in Nodes |-> 1]
  /\ rcvd = [b \in AllTbs |-> {}]

(* srslte_repo_get_t_SL_k / subframe_rp[tti] with every subframe in the    *)
(* pool.                                                                   *)
SlotOf(t) == t % PoolLen

Sender(k) == IF k > 0 /\ k % 5 \in Nodes THEN k % 5 ELSE -1

(* Mutant: the second generation's pid computed without the time gap.     *)
HarqPidNoGap(k, rti) == k % 8

(* decode_pscch_dl: grant->pid = (grant->tti + (8 - rti * time_gap)) % 8  *)
(* with grant->tti = subframe_rp[tti], the pool slot.                      *)
HarqPid(k, rti) == (k + (8 - rti * TimeGap)) % 8

(* Mutant: the grant's time gap left at zero, so the relatedness check of *)
(* new_grant_dl compares the second generation with its own slot.         *)
SlGrantOfNoGap(k, tx) ==
  [kind |-> "SL", pid |-> HarqPid(k, tx.gen), tbs |-> TbsBytes,
   ndiPresent |-> FALSE, ndi |-> FALSE, rv |-> 0,
   slTti |-> k, slGap |-> 0, tx |-> tx]

(* The MAC grant decode_pscch_dl fills for an SCI found in slot k.          *)
SlGrantOf(k, tx) ==
  [kind |-> "SL", pid |-> HarqPid(k, tx.gen), tbs |-> TbsBytes,
   ndiPresent |-> FALSE, ndi |-> FALSE, rv |-> 0,
   slTti |-> k, slGap |-> TimeGap, tx |-> tx]

(* Mutant: the sender's generation counted up instead of toggled.        *)
TickNoToggleOn(w) ==
  LET k == SlotOf(tick)
      n == Sender(k)
  IN
  /\ tick <= MaxTick
  /\ tick' = tick + 1
  /\ IF n = -1
     THEN /\ UNCHANGED <<harqVars, txGen, txTb, rcvd>>
     ELSE LET tx == [tb |-> TbId(n, txTb[n]), gen |-> txGen[n], good |-> FALSE] IN
          /\ txGen' = [txGen EXCEPT ![n] = @ + 1]
          /\ txTb' = [txTb EXCEPT ![n] = IF txGen[n] = 1 THEN @ + 1 ELSE @]
          /\ \E q \in Quality :
               IF q = "lost"
               THEN UNCHANGED <<harqVars, rcvd>>
               ELSE LET rx == [tx EXCEPT !.good = (q = "good")] IN
                    /\ D!Receive(w, SlGrantOf(k, rx))
                    /\ rcvd' = [rcvd EXCEPT ![rx.tb] = @ \cup {rx}]

(* One tick: the remote sender of the slot (if any) transmits; worker w,   *)
(* which takes the tick, finds its SCI, or finds nothing (no sender, or    *)
(* the control channel was lost) and ends the tick without a grant.        *)
TickOn(w) ==
  LET k == SlotOf(tick)
      n == Sender(k)
  IN
  /\ tick <= MaxTick
  /\ tick' = tick + 1
  /\ IF n = -1
     THEN /\ UNCHANGED <<harqVars, txGen, txTb, rcvd>>
     ELSE LET tx == [tb |-> TbId(n, txTb[n]), gen |-> txGen[n], good |-> FALSE] IN
          /\ txGen' = [txGen EXCEPT ![n] = 1 - @]
          /\ txTb' = [txTb EXCEPT ![n] = IF txGen[n] = 1 THEN @ + 1 ELSE @]
          /\ \E q \in Quality :
               IF q = "lost"
               THEN UNCHANGED <<harqVars, rcvd>>
               ELSE LET rx == [tx EXCEPT !.good = (q = "good")] IN
                    /\ D!Receive(w, SlGrantOf(k, rx))
                    /\ rcvd' = [rcvd EXCEPT ![rx.tb] = @ \cup {rx}]

(* Alone, the receive chain lets any worker take the next tick.           *)
Tick == \E w \in Workers : TickOn(w)

Done ==
  /\ tick > MaxTick
  /\ \A w \in Workers : wpc[w] = "idle"
  /\ UNCHANGED vars

Next ==
  \/ Tick
  \/ \E w \in Workers : D!WorkerStep(w) /\ UNCHANGED rxVars
  \/ \E b \in D!Buffers : D!DemuxFree(b) /\ UNCHANGED rxVars
  \/ Done

Fairness ==
  /\ \A w \in Workers : WF_vars(D!WorkerStep(w) /\ UNCHANGED rxVars)
  /\ \A b \in D!Buffers : WF_vars(D!DemuxFree(b) /\ UNCHANGED rxVars)
  /\ WF_vars(Tick)

Spec == Init /\ [][Next]_vars /\ Fairness

-----------------------------------------------------------------------------
(* Properties                                                              *)

TypeOK ==
  /\ D!TypeOK
  /\ tick \in 1 .. MaxTick + 1
  /\ txGen \in [Nodes -> {0, 1}]
  /\ rcvd \in [AllTbs -> SUBSET [tb : AllTbs, gen : {0, 1}, good : BOOLEAN]]

DeliveredTbs == {delivered[i].tx.tb : i \in DOMAIN delivered}

(* No double delivery (spec 8, scenario C): the MAC hands each transport  *)
(* block to the demux at most once, although both generations may decode  *)
(* on their own; it relies on both reaching one process, in order, with    *)
(* the second recognised as related (dl_harq.cc:344) and as a duplicate.   *)
NoDoubleDelivery ==
  \A i, j \in DOMAIN delivered :
    i < j => delivered[i].tx.tb # delivered[j].tx.tb

(* Two-generation coverage at the MAC (spec 4.4, 4.5): a TB of which the  *)
(* receiver got one good generation, or both generations, is eventually   *)
(* delivered.                                                               *)
DecodableDelivered ==
  \A b \in AllTbs : D!DecodeOk(rcvd[b]) ~> b \in DeliveredTbs
=============================================================================
