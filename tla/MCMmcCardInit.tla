--------------------------- MODULE MCMmcCardInit ---------------------------
(* The eMMC in its slot behind every controller, and both kinds of cards   *)
(* in the other slot.  The last sets are for one question each.            *)
EXTENDS MmcCardInit

None == [slot |-> 2, kind |-> "none", bus8 |-> TRUE, sdr104 |-> TRUE, ddr50 |-> TRUE,
         hs200 |-> FALSE, ddr |-> FALSE, drives |-> {0}, wide |-> TRUE, resetOn |-> TRUE]

Emmc ==
  {[None EXCEPT !.slot = 1, !.kind = "mmc", !.bus8 = bus8, !.sdr104 = sdr104, !.hs200 = hs200,
                !.ddr = ddr, !.drives = drives, !.resetOn = bus8]
     : bus8 \in BOOLEAN, sdr104 \in BOOLEAN, hs200 \in BOOLEAN, ddr \in BOOLEAN,
       drives \in {{0}, {0, 2, 3}}}

InSdSlot ==
  {[None EXCEPT !.kind = "sd", !.wide = wide] : wide \in BOOLEAN}
    \cup {[None EXCEPT !.kind = "mmc", !.hs200 = hs200, !.ddr = ddr]
            : hs200 \in BOOLEAN, ddr \in BOOLEAN}

MCSystems == {None} \cup Emmc \cup InSdSlot

SdCards  == {s \in MCSystems : s.kind = "sd"}
DdrCards == {s \in MCSystems : s.ddr}
TwoTypes == {s \in MCSystems : s.hs200 /\ s.drives = {0, 2, 3}}
=============================================================================
