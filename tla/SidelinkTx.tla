----------------------------- MODULE SidelinkTx -----------------------------
(***************************************************************************)
(* The sidelink transmit scheduler in phch_worker::work_imp (the block     *)
(* under "determine it next transmit tti belongs to ressource pool") and   *)
(* the REST handler that replaces the resource-pool configuration          *)
(* (phch_common.cc, phch_rest_put_repo_cb).                                *)
(*                                                                         *)
(* A node may transmit in pool subframe t_SL_k when t_SL_k > 0 and its    *)
(* sidelink_id = t_SL_k % 5.  It then searches the subchannel count L and  *)
(* the MCS, picks a random start subchannel and sends one generation of    *)
(* its current transport block.  The worker reads ue_repo.rp in the search *)
(* loop and again for the start subchannel; the REST server thread may     *)
(* memcpy a new configuration in between.  The tick's TX block is split    *)
(* at that second read: TxSearch and TxStart.                              *)
(*                                                                         *)
(* The SDU of a new transport block comes from the RLC TCP tunnel          *)
(* (RlcTcp): the MAC's new_grant_ul pulls it with read_pdu_sl while        *)
(* rlc::tcp_process's thread keeps reading the socket.                     *)
(***************************************************************************)
EXTENDS Integers, Sequences, FiniteSets

CONSTANTS
  SidelinkId,    \* phy->args->sidelink_id
  RepoRequests,  \* bodies a PUT /phy/repo may carry (see Unpack)
  RepoEdits,     \* keys and values a client changes in a GET body it PUTs back
  TbsPerPrb,     \* transport-block bits per PRB for MCS 0..11 (srslte_sl_fill_ra_mcs)
  SduBytes,      \* ul_mac_grant.n_bytes[0]
  MaxSlot,       \* bound: last pool subframe index examined
  MaxRepoPuts,   \* bound: PUT /phy/repo requests
  Stream         \* the packets the RLC's TCP peer sends, in order

ASSUME SidelinkId \in 0 .. 4

(* SL_CommResourcePoolV2X_r14 as the field list in phch_common::set_cell  *)
(* declares it: all fields uint8_t or bool, so no padding.  Offset is the  *)
(* byte offset of each field (sl_OffsetIndicator_r14 = offset, the 100-byte *)
(* sl_Subframe_r14 bitmap in 1..100, then sl_Subframe_r14_len = len,       *)
(* adjacencyPSCCH_PSSCH_r14 = adj, sizeSubchannel_r14 = size,              *)
(* numSubchannel_r14 = num, startRB_Subchannel_r14 = rbSub,                *)
(* startRB_PSCCH_Pool_r14 = rbPscch).  The model keeps the bytes 101..106; *)
(* the bitmap and the offset indicator only map ticks to pool subframes,   *)
(* which this module abstracts to the counter slot.                        *)
PoolFields == {"len", "adj", "size", "num", "rbSub", "rbPscch"}
Offset == [offset |-> 0, len |-> 101, adj |-> 102, size |-> 103, num |-> 104,
           rbSub |-> 105, rbPscch |-> 106]

(* The default pool phch_common::set_cell installs at start-up.            *)
InitialPool == [len |-> 20, adj |-> 1, size |-> 5, num |-> 5, rbSub |-> 0, rbPscch |-> 0]

(* A PUT body: json is FALSE when ulfius_get_json_body_request rejects    *)
(* it; ints maps the keys given an integer to it; notInt holds the keys    *)
(* given some other JSON value.                                            *)
Requests == [json : BOOLEAN, ints : UNION {[K -> Int] : K \in SUBSET DOMAIN Offset},
             notInt : SUBSET DOMAIN Offset]

(* The keys of json_unpack's format "{s?i,s?i,s?i,s?i,s?i,s?i,s?i}", in    *)
(* order; sizeSubchannel_r14 appears twice.                                *)
UnpackOrder == <<"num", "size", "offset", "len", "rbPscch", "rbSub", "size">>

(* "i" stores a C int through the pointer it is given: four bytes, little *)
(* endian, from the field's address on, whatever the field's width.  A     *)
(* field k bytes after the target gets byte k of the value (two's         *)
(* complement: \div rounds down and % is non-negative).                    *)
StoreInt(p, key, v) ==
  [f \in PoolFields |->
     LET k == Offset[f] - Offset[key] IN
     IF k \in 0 .. 3 THEN (v \div 256^k) % 256 ELSE p[f]]

(* json_unpack over the copy new_repo: keys in format order, an absent     *)
(* optional key skipped, and the first value that is not an integer ends   *)
(* the unpacking with the stores before it kept (the return value is       *)
(* ignored).                                                               *)
RECURSIVE UnpackFrom(_, _, _)
UnpackFrom(p, req, i) ==
  IF i > Len(UnpackOrder) THEN p
  ELSE LET key == UnpackOrder[i] IN
       IF key \in DOMAIN req.ints THEN UnpackFrom(StoreInt(p, key, req.ints[key]), req, i + 1)
       ELSE IF key \in req.notInt THEN p
       ELSE UnpackFrom(p, req, i + 1)

Unpack(p, req) == UnpackFrom(p, req, 1)

(* phch_rest_get_repo_cb: json_pack "i" of each uint8_t field (promoted to *)
(* int), sizeSubchannel_r14 twice under one key.  The offset indicator is  *)
(* not kept by the model: it reads as its start-up value 0, which a PUT    *)
(* back stores into byte 0 and bitmap bytes 1..3 only.                     *)
RepoGetBody(p) ==
  [num |-> p.num, size |-> p.size, offset |-> 0, len |-> p.len,
   rbPscch |-> p.rbPscch, rbSub |-> p.rbSub]

(* A client's PUT of a GET body with some values changed.                  *)
EditedBody(body, e) ==
  [json |-> TRUE, notInt |-> {},
   ints |-> [k \in DOMAIN body |-> IF k \in DOMAIN e THEN e[k] ELSE body[k]]]

NoBody == [k \in {} |-> 0]

Mcs == 0 .. 11
NoMcs == -1      \* sci.mcs.idx never written: no admissible PRB count at all

(* Number of PRBs of L subchannels: two go to the control channel.          *)
NPrb(c, L) == L * c.size - 2

Tbs(m, n) == TbsPerPrb[m + 1] * n

(* srslte_dft_precoding_valid_prb: n is a product of powers of 2, 3 and 5. *)
RECURSIVE Strip(_, _)
Strip(n, f) == IF n % f = 0 THEN Strip(n \div f, f) ELSE n

ValidPrb(n) == n >= 1 /\ Strip(Strip(Strip(n, 2), 3), 5) = 1

(* Mutant: the DFT-size check left out of the search.                      *)
RECURSIVE SearchNoDftCheck(_, _, _)
SearchNoDftCheck(c, L, lastMcs) ==
  IF L > c.num THEN [found |-> FALSE, L |-> L, mcs |-> lastMcs]
  ELSE LET fits == {m \in Mcs : Tbs(m, NPrb(c, L)) > SduBytes * 8} IN
       IF fits # {}
       THEN [found |-> TRUE, L |-> L, mcs |-> CHOOSE m \in fits : \A k \in fits : m <= k]
       ELSE SearchNoDftCheck(c, L + 1, 11)

(* The search loop: L = 1..numSubchannel, skip PRB counts the DFT cannot  *)
(* take, MCS 0..11 ascending, first TBS above the SDU size wins.  When     *)
(* nothing fits the loop leaves L_subch = numSubchannel + 1 and the MCS of *)
(* its last attempt.                                                        *)
RECURSIVE SearchFrom(_, _, _)
SearchFrom(c, L, lastMcs) ==
  IF L > c.num THEN [found |-> FALSE, L |-> L, mcs |-> lastMcs]
  ELSE IF ~ValidPrb(NPrb(c, L)) THEN SearchFrom(c, L + 1, lastMcs)
  ELSE LET fits == {m \in Mcs : Tbs(m, NPrb(c, L)) > SduBytes * 8} IN
       IF fits # {}
       THEN [found |-> TRUE, L |-> L, mcs |-> CHOOSE m \in fits : \A k \in fits : m <= k]
       ELSE SearchFrom(c, L + 1, 11)

Search(c) == SearchFrom(c, 1, NoMcs)

(* rand() % d for a non-zero int d: C's remainder takes the sign of the    *)
(* non-negative dividend, so the result lies in 0..|d|-1.                   *)
RandMod(d) == 0 .. (IF d > 0 THEN d ELSE -d) - 1

VARIABLES
  slot,      \* t_SL_k of the tick being scheduled
  rp,        \* phy->ue_repo.rp, the bytes PoolFields names
  ulRv,      \* redundancy version the MAC's UL HARQ hands out next
  pc,        \* "search", "start" within a tick's TX block, or "fault"
  sel,       \* the search result the worker carries to the start choice
  selPool,   \* the configuration the search read
  sent,      \* history: SCIs put on the air
  puts,      \* PUT /phy/repo requests so far
  txPdu,     \* the SDU of the transport block being sent
  got,       \* the repo body of the REST client's last response, or NoBody
  recvLen, recvBuf, netPos, taken   \* the RLC TCP tunnel (RlcTcp)

R == INSTANCE RlcTcp
rlcVars == <<recvLen, recvBuf, netPos, taken>>

txVars == <<slot, rp, ulRv, pc, sel, selPool, sent, puts, txPdu>>
vars == <<txVars, rlcVars, got>>

Init ==
  /\ slot = 0
  /\ rp = InitialPool
  /\ ulRv = 0
  /\ pc = "search"
  /\ sel = [found |-> FALSE, L |-> 0, mcs |-> NoMcs]
  /\ selPool = InitialPool
  /\ sent = <<>>
  /\ puts = 0
  /\ txPdu = R!NoPacket
  /\ got = NoBody
  /\ R!Init

Eligible(k) == k > 0 /\ SidelinkId = k % 5

(* The UL HARQ sends each TB twice without feedback: RV 0, then RV 2.     *)
NextRv(rv) == IF rv = 0 THEN 2 ELSE 0

(* Mutant: the SCI's 1-bit rti set to the RV itself.                       *)
RtiOfRaw(rv) == rv

(* sci.rti = ul_action.rv[0] == 0 ? 0 : 1                                  *)
RtiOf(rv) == IF rv = 0 THEN 0 ELSE 1

(* The TX block up to the start-subchannel choice: eligibility, the MAC   *)
(* grant (two generations per TB, no feedback; a new TB takes its SDU     *)
(* from the RLC), and the (L, MCS) search.  A failed search is only        *)
(* logged: the `continue` after it is commented out, so the worker goes   *)
(* on.                                                                      *)
TxSearch ==
  /\ pc = "search"
  /\ slot <= MaxSlot
  /\ IF Eligible(slot)
     THEN /\ sel' = Search(rp)
          /\ selPool' = rp
          /\ pc' = "start"
          /\ UNCHANGED slot
          /\ IF ulRv = 0
             THEN /\ txPdu' = R!GetPacket
                  /\ R!TakePacket
             ELSE UNCHANGED <<txPdu, rlcVars>>
     ELSE /\ slot' = slot + 1
          /\ UNCHANGED <<pc, sel, selPool, txPdu, rlcVars>>
  /\ UNCHANGED <<rp, ulRv, sent, puts, got>>

(* n_subCH_start = rand() % (numSubchannel_r14 - L_subch + 1), read from  *)
(* the pool as it is now; then the RIV, the SCI and the data are sent.     *)
(* A zero divisor raises SIGFPE and the process dies.                      *)
TxStart ==
  LET d == rp.num - sel.L + 1 IN
  /\ pc = "start"
  /\ IF d = 0
     THEN /\ pc' = "fault"
          /\ UNCHANGED <<slot, ulRv, sent>>
     ELSE \E start \in RandMod(d) :
            /\ sent' = Append(sent, [slot |-> slot, rti |-> RtiOf(ulRv), L |-> sel.L,
                                     start |-> start, mcs |-> sel.mcs,
                                     pool |-> selPool, poolNow |-> rp, pdu |-> txPdu])
            /\ ulRv' = NextRv(ulRv)
            /\ slot' = slot + 1
            /\ pc' = "search"
  /\ UNCHANGED <<rp, sel, selPool, puts, txPdu, rlcVars, got>>

(* phch_rest_put_repo_cb: a body that is not JSON is answered 400.       *)
(* Otherwise the JSON is unpacked over a copy of the current pool (no      *)
(* range check) and memcpy'd into ue_repo.rp when memcmp finds it changed, *)
(* which installs exactly the unpacked copy; the response is then the     *)
(* GET body of the pool now installed.                                     *)
PutRepo(req) ==
  /\ puts < MaxRepoPuts
  /\ pc # "fault"
  /\ rp' = IF req.json THEN Unpack(rp, req) ELSE rp
  /\ got' = IF req.json THEN RepoGetBody(rp') ELSE got
  /\ puts' = puts + 1
  /\ UNCHANGED <<slot, ulRv, pc, sel, selPool, sent, txPdu, rlcVars>>

(* What a PUT /phy/repo may carry: a fixed body, or the body of the last   *)
(* response with some values edited.                                       *)
ClientRequests ==
  RepoRequests \cup
    (IF got = NoBody THEN {} ELSE {EditedBody(got, e) : e \in RepoEdits})

(* GET /phy/repo: the client reads the installed pool.                    *)
GetRepo ==
  /\ pc # "fault"
  /\ got' = RepoGetBody(rp)
  /\ UNCHANGED <<txVars, rlcVars>>

Done ==
  /\ pc = "fault" \/ (pc = "search" /\ slot > MaxSlot)
  /\ UNCHANGED vars

Next ==
  \/ TxSearch \/ TxStart
  \/ \E req \in ClientRequests : PutRepo(req)
  \/ GetRepo
  \/ R!RunThread /\ UNCHANGED <<txVars, got>>
  \/ Done

Spec == Init /\ [][Next]_vars

-----------------------------------------------------------------------------
(* Properties                                                              *)

Pools == [PoolFields -> 0 .. 255]

TypeOK ==
  /\ slot \in 0 .. MaxSlot + 1
  /\ rp \in Pools /\ selPool \in Pools
  /\ ulRv \in {0, 2}
  /\ pc \in {"search", "start", "fault"}
  /\ sel \in [found : BOOLEAN, L : Int, mcs : Mcs \cup {NoMcs}]
  /\ \A i \in DOMAIN sent : sent[i].pool \in Pools /\ sent[i].rti \in {0, 1}
  /\ got \in {NoBody} \cup [DOMAIN RepoGetBody(InitialPool) -> 0 .. 255]
  /\ R!TypeOK

(* Reference definition of the grant spec 4.6 asks for: among admissible  *)
(* (L, MCS) pairs, the least L, then the least MCS.                       *)
Admissible(c) ==
  {p \in (1 .. c.num) \X Mcs :
     ValidPrb(NPrb(c, p[1])) /\ Tbs(p[2], NPrb(c, p[1])) > SduBytes * 8}

LexLeast(S) == CHOOSE p \in S : \A q \in S : p[1] < q[1] \/ (p[1] = q[1] /\ p[2] <= q[2])

(* Every transmitted SCI carries the minimal admissible (L, MCS) for the   *)
(* pool configuration its search read, and when the pool did not change   *)
(* before the start choice the allocation lies inside it.                 *)
GrantMinimal ==
  \A i \in DOMAIN sent :
    LET s == sent[i] IN
    /\ Admissible(s.pool) # {}
    /\ <<s.L, s.mcs>> = LexLeast(Admissible(s.pool))
    /\ s.pool = s.poolNow => s.start + s.L <= s.pool.num

(* Spec 4.6: when no admissible (L, MCS) exists "the grant attempt fails   *)
(* and is logged - no transmission occurs that slot"; nothing in this     *)
(* core is fatal (spec 7).  The start-subchannel choice never divides by   *)
(* zero.                                                                   *)
NoModuloByZero == pc # "fault"

(* The RLC hand-off keeps every SDU while the TX worker drains it at its  *)
(* new-TB slots and run_thread refills it in between: what the worker has *)
(* taken, then the buffered packet, is the TCP stream as read, in order.   *)
RlcNoPacketLost == R!NoPacketLost
=============================================================================
