----------------------------- MODULE MCSidelinkTx -----------------------------
(***************************************************************************)
(* Model-checking instance of SidelinkTx.  Pool configurations use the     *)
(* standard subchannel counts and sizes.  The TBS per PRB is the N_PRB = 1 *)
(* column of TS 36.213 table 7.1.7.2.1-1 for I_TBS = MCS (MCS 11 maps to   *)
(* I_TBS 10), scaled linearly in the PRB count: a stand-in for the TBS     *)
(* tables, which are not part of this repository.                          *)
(***************************************************************************)
EXTENDS SidelinkTx

MCTbsPerPrb == <<16, 24, 32, 40, 56, 72, 88, 104, 120, 136, 144, 144>>

\* PUT bodies for the search run, none of which makes the search fail.
\* With SduBytes 150 and 5-PRB subchannels the start-up pool (5 x 5) fits
\* at L = 4 (18 PRB), and at L = 3 (13 PRB) only if the DFT check is
\* skipped; so does a pool of 4.  startRB_Subchannel_r14 alone leaves the
\* searched fields alone; a non-integer second value stops json_unpack
\* after the first store; a body that is not JSON changes nothing.
Body(f) == [json |-> TRUE, ints |-> f, notInt |-> {}]
MCSearchRequests ==
  {Body([num |-> 4]), Body([num |-> 5]), Body([rbSub |-> 2]),
   [json |-> TRUE, ints |-> [num |-> 4], notInt |-> {"size"}],
   [json |-> FALSE, ints |-> <<>>, notInt |-> {}]}
MCDivZeroRequests == {}
\* The documented way to change the pool: GET /phy/repo, change values in
\* the body, PUT it back; here to a 5 x 10 pool, in which an SDU of 101
\* bytes fits at L = 1.
MCEdit5x10 == {[size |-> 10]}
MCNoEdits == {}
\* two SDUs from the TCP peer, one per new-TB slot of MaxSlot 16 (slots 1
\* and 11): the buffer is refilled between them, or still empty at one
MCStream == <<"sdu1", "sdu2">>
MCNoStream == <<>>
====
