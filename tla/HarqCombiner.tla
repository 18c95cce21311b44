---------------------------- MODULE HarqCombiner ----------------------------
(***************************************************************************)
(* The two-buffer soft combining of lib/src/phy/ue_sl/ue_sl_mib.c,         *)
(* sl_pscch_decode, driven by srslte_ue_sl_pscch_decode once per subframe. *)
(*                                                                         *)
(* A transmitter without feedback sends every transport block twice: a     *)
(* first generation (SCI rti = 0) and a second one (rti = 1).  For each    *)
(* subframe whose control message is found the receiver decodes the data  *)
(* twice: into softbuffers[0], always reset first ("fresh"), and into      *)
(* softbuffers[1] ("combined"), reset before a first generation and after  *)
(* a second one.  It reports success if either decode succeeded; the data *)
(* it reports is what the last decode left in data_rx.                     *)
(*                                                                         *)
(* Soft information is abstracted to the set of generations combined in a *)
(* buffer.  The turbo decoder marks a buffer decoded (cb_crc) and, until   *)
(* the buffer is reset, returns success with the data it decoded then.     *)
(***************************************************************************)
EXTENDS Integers, FiniteSets, Sequences

CONSTANTS
  MaxTbs,       \* bound: transport blocks the transmitter sends
  LossyControl  \* whether a subframe's control message may be missed

ASSUME MaxTbs \in Nat \ {0} /\ LossyControl \in BOOLEAN

TbIds   == 1 .. MaxTbs
Garbage == 0          \* data_rx holding no transport block (0xFF fill or a failed decode)
Quality == {"good", "weak"} \cup (IF LossyControl THEN {"lost"} ELSE {})

(* A soft buffer: generations combined, the cb_crc flag, decoded data.     *)
EmptyBuffer == [soft |-> {}, ok |-> FALSE, data |-> Garbage]

VARIABLES
  txTb,     \* transport block the transmitter is sending
  txGen,    \* its generation: the SCI's rti
  buf0,     \* q->softbuffers[0]
  buf1,     \* q->softbuffers[1]
  rcvd,     \* history: generations of each TB whose decode was attempted
  reports   \* history: successful returns, with the SCI's TB and the data

vars == <<txTb, txGen, buf0, buf1, rcvd, reports>>

Init ==
  /\ txTb = 1
  /\ txGen = 0
  /\ buf0 = EmptyBuffer
  /\ buf1 = EmptyBuffer
  /\ rcvd = [t \in TbIds |-> {}]
  /\ reports = <<>>

(* Combined soft information decodes when it is all of one TB and either  *)
(* one generation was good or the two generations add up.                  *)
Decodable(soft) ==
  /\ soft # {}
  /\ \A x, y \in soft : x.tb = y.tb
  /\ (\E x \in soft : x.good) \/ Cardinality(soft) >= 2

(* srslte_pssch_decode_simple on one buffer: combine the generation in and *)
(* decode, unless the buffer is already marked decoded.                    *)
DecodeInto(b, tx) ==
  LET s == b.soft \cup {tx} IN
  IF b.ok THEN [b EXCEPT !.soft = s]
  ELSE [soft |-> s, ok |-> Decodable(s), data |-> IF Decodable(s) THEN tx.tb ELSE b.data]

(* data_rx after a decode: the decoded TB on success; a failed decode may  *)
(* leave the previous contents or overwrite them.                          *)
DataAfter(prev, b) == IF b.ok THEN {b.data} ELSE {prev, Garbage}

(* Mutant: softbuffers[1] reset on every occasion, not only when rti = 0.  *)
SlPscchDecodeResetAlways(tx) ==
  LET b0 == DecodeInto(EmptyBuffer, tx)
      b1 == DecodeInto(EmptyBuffer, tx)
  IN
  \E d0 \in DataAfter(Garbage, b0) :
  \E d1 \in DataAfter(d0, b1) :
    /\ buf0' = b0
    /\ buf1' = IF tx.gen = 1 THEN EmptyBuffer ELSE b1
    /\ rcvd' = [rcvd EXCEPT ![tx.tb] = @ \cup {tx}]
    /\ reports' = IF b0.ok \/ b1.ok
                  THEN Append(reports, [sci |-> tx.tb, data |-> d1])
                  ELSE reports

(* sl_pscch_decode for one found control message carrying generation tx.  *)
(* It always returns SRSLTE_SUCCESS; a decode is reported to the caller   *)
(* by setting *n_decoded_bytes, which reports records.                    *)
SlPscchDecode(tx) ==
  LET rti == tx.gen
      b0  == DecodeInto(EmptyBuffer, tx)
      b1  == DecodeInto(IF rti = 0 THEN EmptyBuffer ELSE buf1, tx)
  IN
  \E d0 \in DataAfter(Garbage, b0) :
  \E d1 \in DataAfter(d0, b1) :
    /\ buf0' = b0
    /\ buf1' = IF rti = 1 THEN EmptyBuffer ELSE b1
    /\ rcvd' = [rcvd EXCEPT ![tx.tb] = @ \cup {tx}]
    /\ reports' = IF b0.ok \/ b1.ok
                  THEN Append(reports, [sci |-> tx.tb, data |-> d1])
                  ELSE reports

(* Mutant: the generation counted up instead of toggling the 1-bit rti.  *)
OccasionNoToggle(q) ==
  LET tx == [tb |-> txTb, gen |-> txGen, good |-> q = "good"] IN
  /\ txTb \in TbIds
  /\ IF q = "lost" THEN UNCHANGED <<buf0, buf1, rcvd, reports>>
                   ELSE SlPscchDecode(tx)
  /\ txGen' = txGen + 1
  /\ txTb' = IF txGen = 1 THEN txTb + 1 ELSE txTb

(* One occasion: the transmitter sends its current generation; the         *)
(* receiver finds the control message and decodes, or misses it.           *)
Occasion(q) ==
  LET tx == [tb |-> txTb, gen |-> txGen, good |-> q = "good"] IN
  /\ txTb \in TbIds
  /\ IF q = "lost" THEN UNCHANGED <<buf0, buf1, rcvd, reports>>
                   ELSE SlPscchDecode(tx)
  /\ txGen' = 1 - txGen
  /\ txTb' = IF txGen = 1 THEN txTb + 1 ELSE txTb

Done ==
  /\ txTb = MaxTbs + 1
  /\ UNCHANGED vars

Next == (\E q \in Quality : Occasion(q)) \/ Done

Spec == Init /\ [][Next]_vars

-----------------------------------------------------------------------------
(* Properties                                                              *)

Buffers == [soft : SUBSET [tb : TbIds, gen : {0, 1}, good : BOOLEAN],
            ok : BOOLEAN, data : TbIds \cup {Garbage}]

TypeOK ==
  /\ txTb \in 1 .. MaxTbs + 1 /\ txGen \in {0, 1}
  /\ buf0 \in Buffers /\ buf1 \in Buffers
  /\ rcvd \in [TbIds -> SUBSET [tb : TbIds, gen : {0, 1}, good : BOOLEAN]]
  /\ \A i \in DOMAIN reports : reports[i] \in [sci : TbIds, data : TbIds \cup {Garbage}]

ReportedCorrectly(t) == \E i \in DOMAIN reports : reports[i] = [sci |-> t, data |-> t]

(* Two-generation coverage (spec 8): once both occasions of a TB are over, *)
(* the combiner has returned that TB's data exactly when what it received *)
(* of the TB was decodable - one good generation, or two weak ones that    *)
(* only the combined buffer can decode.  It depends on softbuffers[1]      *)
(* being reset at the right occasions and surviving the one in between.   *)
TwoGenerationCoverage ==
  \A t \in TbIds : t < txTb => (ReportedCorrectly(t) <=> Decodable(rcvd[t]))

(* The data returned with success is that of the TB the SCI announced.     *)
ReportedDataMatchesSci ==
  \A i \in DOMAIN reports : reports[i].data = reports[i].sci
=============================================================================
