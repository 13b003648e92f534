----------------------------- MODULE MmcCardInit -----------------------------
(***************************************************************************)
(* mmc_card_init of Driver/SdhciMMCHSDxe/mmc_sdhci.c: a card is identified *)
(* and taken, together with the controller, to the fastest mode both       *)
(* support, for HS200 with the tuning of sdhci_msm.c.  A step is a command *)
(* with all that is done after it, or a decision between two commands.     *)
(*                                                                         *)
(* Any command may fail: lost on its way to the card, or carried out and   *)
(* its answer lost.  While tuning_in_progress is set sdhci_cmd_complete    *)
(* reports neither.                                                        *)
(***************************************************************************)
EXTENDS TuningPhase

CONSTANTS
  Systems,        \* of the records of SystemType: slots with their cards
  MaxDriverType   \* MX_DRV_SUPPORTED_HS200, 3

SystemType ==
  [slot   : {1, 2},                    \* 1 the eMMC, 2 the SD card slot
   kind   : {"mmc", "sd", "none"},     \* the card in it
   bus8   : BOOLEAN, sdr104 : BOOLEAN, ddr50 : BOOLEAN,  \* controller
   hs200  : BOOLEAN, ddr : BOOLEAN,    \* MMC_DEVICE_TYPE of the card
   drives : SUBSET Nat,                \* MMC_EXT_MMC_DRV_STRENGTH
   wide   : BOOLEAN,                   \* SCR of an SD card
   resetOn : BOOLEAN]                  \* MMC_EXT_CSD_RST_N_FUNC

ASSUME CardAssumption ==
  /\ Systems \subseteq SystemType
  /\ \A s \in Systems : 0 \in s.drives
  /\ MaxDriverType \in Nat

VARIABLES
  pc,
  sys,       \* the system at hand
  host,      \* the controller: width, mode, DLL phase, tuning_in_progress
  card,      \* the card: width, timing, driver type
  tune,      \* the locals of sdhci_msm_execute_tuning and saved_phase
  worked,    \* phases whose data came, and came right, in this round
  misreported \* a switch of the driver type did not do what it reported

vars == <<pc, sys, host, card, tune, worked, misreported>>

NoPhase == -1
Untuned == [phase |-> 0, hits |-> <<>>, buf |-> "other", drv |-> 0, changed |-> FALSE,
            cdr |-> FALSE, saved |-> NoPhase, ret |-> 0]

Init ==
  /\ pc = "reset" /\ sys \in Systems
  /\ host = [width |-> 1, uhs |-> "none", phase |-> NoPhase, tuning |-> FALSE]
  /\ card = [width |-> 1, timing |-> "default", ddr |-> FALSE, drv |-> 0]
  /\ tune = Untuned /\ worked = {} /\ misreported = FALSE

-----------------------------------------------------------------------------
(* A command, and the switch command with the status command that follows. *)
Outcomes == {"done", "lost", "unheard"}
Executed(outcome) == outcome # "lost"
Reported(outcome) == IF outcome = "done" THEN 0 ELSE 1

SwitchResults(tuning) ==
  {[applied |-> Executed(cmd6),
    ret     |-> IF (~tuning /\ Reported(cmd6) = 1) \/ cmd13 # "done" THEN 1 ELSE 0]
     : cmd6 \in Outcomes, cmd13 \in Outcomes}

Switch(newCard, newHost, next) ==
  \E r \in SwitchResults(host.tuning) :
    /\ card' = IF r.applied THEN newCard ELSE card
    /\ \/ r.ret = 0 /\ host' = newHost /\ pc' = next
       \/ r.ret = 1 /\ pc' = "failed" /\ UNCHANGED host

-----------------------------------------------------------------------------
(* mmc_reset_card_and_send_op, mmc_sd_card_init, mmc_identify_card.        *)
ResetCard ==
  /\ pc = "reset"
  /\ pc' \in IF sys.kind = "mmc" THEN {"identify_mmc", "sd"} ELSE {"sd"}
  /\ UNCHANGED <<sys, host, card, tune, worked, misreported>>

InitSdCard ==
  /\ pc = "sd"
  /\ pc' \in IF sys.kind = "sd" THEN {"identify_sd", "failed"} ELSE {"failed"}
  /\ UNCHANGED <<sys, host, card, tune, worked, misreported>>

IdentifyCard ==
  /\ pc \in {"identify_mmc", "identify_sd"}
  /\ pc' \in {IF pc = "identify_mmc" THEN "hs_mmc" ELSE "hs_sd", "failed"}
  /\ UNCHANGED <<sys, host, card, tune, worked, misreported>>

(* mmc_set_hs_interface, before and after the card's ability is known.     *)
SetHsInterface ==
  /\ pc \in {"hs_mmc", "hs_again"}
  /\ Switch([card EXCEPT !.timing = "hs"], [host EXCEPT !.uhs = "SDR25"],
            IF pc = "hs_mmc" THEN "ext_csd" ELSE "hs_width")
  /\ UNCHANGED <<sys, tune, worked, misreported>>

(* mmc_sd_set_hs: the switch status the card sends back is not looked at;  *)
(* a card that refuses answers all the same.                               *)
SdSetHs ==
  /\ pc = "hs_sd"
  /\ \E outcome \in Outcomes, refused \in BOOLEAN :
       /\ card' = [card EXCEPT !.timing = IF Executed(outcome) /\ ~refused THEN "hs" ELSE @]
       /\ \/ /\ Reported(outcome) = 0
             /\ host' = [host EXCEPT !.uhs = "SDR25"] /\ pc' = "scr"
          \/ Reported(outcome) = 1 /\ pc' = "failed" /\ UNCHANGED host
  /\ UNCHANGED <<sys, tune, worked, misreported>>

(* mmc_get_ext_csd, mmc_sd_get_card_scr, mmc_sd_get_card_ssr.              *)
ReadCardData ==
  /\ pc \in {"ext_csd", "scr", "ssr"}
  /\ pc' \in {CASE pc = "ext_csd" -> "mode" [] pc = "scr" -> "ssr" [] OTHER -> "sd_width",
              "failed"}
  /\ UNCHANGED <<sys, host, card, tune, worked, misreported>>

(* The width of the bus, first set in the controller, and the mode.        *)
BusWidth ==
  IF sys.slot = 1 THEN (IF sys.bus8 THEN 8 ELSE 1) ELSE 4

ChooseMode ==
  /\ pc = "mode"
  /\ host' = [host EXCEPT !.width = BusWidth]
  /\ pc' = IF sys.sdr104 /\ sys.hs200 THEN "hs200_width"
           ELSE IF sys.ddr50 /\ sys.ddr THEN "ddr" ELSE "hs_again"
  /\ UNCHANGED <<sys, card, tune, worked, misreported>>

SetBusWidth ==                              \* mmc_set_bus_width
  /\ pc \in {"hs200_width", "hs_width"}
  /\ Switch([card EXCEPT !.width = BusWidth], host,
            IF pc = "hs200_width" THEN "hs200" ELSE "rst_n")
  /\ UNCHANGED <<sys, tune, worked, misreported>>

SetDdrMode ==                               \* mmc_set_ddr_mode
  /\ pc = "ddr"
  /\ Switch([card EXCEPT !.width = 8, !.ddr = TRUE], [host EXCEPT !.uhs = "DDR50"], "rst_n")
  /\ UNCHANGED <<sys, tune, worked, misreported>>

SetHs200Early ==                            \* faulty: the clock before the card
  /\ pc = "hs200"
  /\ host' = [host EXCEPT !.uhs = "SDR104", !.tuning = TRUE] /\ pc' = "init_dll"
  /\ \E r \in SwitchResults(TRUE) :
       card' = IF r.applied THEN [card EXCEPT !.timing = "hs200"] ELSE card
  /\ UNCHANGED <<sys, tune, worked, misreported>>

SetHs200Mode ==                             \* mmc_set_hs200_mode up to the tuning
  /\ pc = "hs200"
  /\ Switch([card EXCEPT !.timing = "hs200"],
            [host EXCEPT !.uhs = "SDR104", !.tuning = TRUE], "init_dll")
  /\ UNCHANGED <<sys, tune, worked, misreported>>

SdSetBusWidth ==                            \* mmc_sd_set_bus_width
  /\ pc = "sd_width"
  /\ \E outcome \in Outcomes :
       LET width == IF sys.wide THEN 4 ELSE 1
       IN  /\ card' = [card EXCEPT !.width = IF Executed(outcome) THEN width ELSE @]
           /\ \/ /\ Reported(outcome) = 0
                 /\ host' = [host EXCEPT !.width = width] /\ pc' = "ready"
              \/ Reported(outcome) = 1 /\ pc' = "failed" /\ UNCHANGED host
  /\ UNCHANGED <<sys, tune, worked, misreported>>

EnableResetPin ==                           \* RST_n_FUNCTION
  /\ pc = "rst_n"
  /\ \/ sys.resetOn /\ pc' = "ready" /\ UNCHANGED <<host, card>>
     \/ ~sys.resetOn /\ Switch(card, host, "ready")
  /\ UNCHANGED <<sys, tune, worked, misreported>>

-----------------------------------------------------------------------------
(* sdhci_msm_execute_tuning.                                               *)
InitDll ==
  /\ pc = "init_dll"
  /\ \/ pc' = "phase" /\ UNCHANGED tune
     \/ pc' = "out" /\ tune' = [tune EXCEPT !.ret = 1]
  /\ UNCHANGED <<sys, host, card, worked, misreported>>

(* CMD21 brings the pattern, or something else, or nothing.                *)
Received(data, buf) ==
  CASE data = "right" -> "pattern" [] data = "wrong" -> "other" [] OTHER -> buf

TunePhase ==
  /\ pc = "phase" /\ tune.phase < MaxPhases
  /\ \/ /\ pc' = "out" /\ tune' = [tune EXCEPT !.ret = 1]    \* config_dll
        /\ UNCHANGED <<host, worked>>
     \/ \E data \in {"right", "wrong", "nothing", "failure"} :
          LET buf == Received(data, tune.buf)
              hit == data # "failure" /\ buf = "pattern"
          IN  /\ host' = [host EXCEPT !.phase = tune.phase]
              /\ tune' = [tune EXCEPT
                            !.phase = @ + 1, !.buf = buf,
                            !.hits = IF hit THEN Append(@, tune.phase) ELSE @]
              /\ worked' = IF data = "right" THEN worked \cup {tune.phase} ELSE worked
              /\ UNCHANGED pc
  /\ UNCHANGED <<sys, card, misreported>>

AllPassed == Len(tune.hits) = MaxPhases

RoundDone ==
  /\ pc = "phase" /\ tune.phase = MaxPhases
  /\ pc' = IF AllPassed THEN "strength" ELSE "restore"
  /\ UNCHANGED <<sys, host, card, tune, worked, misreported>>

(* mmc_set_drv_type: a type the card does not have counts as set.          *)
DriverTypeResults(drv) ==
  IF drv \in sys.drives THEN SwitchResults(host.tuning) ELSE {[applied |-> FALSE, ret |-> 0]}

SetDriverType(drv, r) ==
  /\ card' = IF r.applied THEN [card EXCEPT !.drv = drv] ELSE card
  /\ misreported' = (misreported \/ (drv \in sys.drives /\ r.applied # (r.ret = 0)))

(* Faulty: the locals are set where the rounds start.                      *)
RetrySame(drv) ==
  /\ pc' = "phase" /\ worked' = {}
  /\ tune' = [tune EXCEPT !.drv = 0, !.changed = TRUE, !.phase = 0, !.hits = <<>>]

Retry(drv) ==
  /\ pc' = "phase" /\ worked' = {}
  /\ tune' = [tune EXCEPT !.drv = drv, !.changed = TRUE, !.phase = 0, !.hits = <<>>]

NextStrength ==
  /\ pc = "strength"
  /\ LET drv == tune.drv + 1
     IN  \/ /\ drv <= MaxDriverType
            /\ \E r \in DriverTypeResults(drv) :
                 /\ SetDriverType(drv, r)
                 /\ \/ r.ret = 0 /\ Retry(drv)
                    \/ /\ r.ret = 1 /\ UNCHANGED <<pc, worked>>
                       /\ tune' = [tune EXCEPT !.drv = drv, !.changed = FALSE]
         \/ /\ drv > MaxDriverType
            /\ pc' = "restore" /\ tune' = [tune EXCEPT !.drv = drv]
            /\ UNCHANGED <<card, worked, misreported>>
  /\ UNCHANGED <<sys, host>>

RestoreStrength ==
  /\ pc = "restore" /\ pc' = "select"
  /\ \/ tune.changed /\ \E r \in DriverTypeResults(0) : SetDriverType(0, r)
     \/ ~tune.changed /\ UNCHANGED <<card, misreported>>
  /\ UNCHANGED <<sys, host, tune, worked>>

(* If the delay line does not take the selected phase, ret is 0 already.   *)
SelectPhase ==
  /\ pc = "select" /\ pc' = "out"
  /\ \/ tune.hits = <<>> /\ tune' = [tune EXCEPT !.ret = 1] /\ UNCHANGED host
     \/ /\ tune.hits # <<>>
        /\ LET phase == SelectedPhase(tune.hits)
           IN  \/ /\ host' = [host EXCEPT !.phase = phase]
                  /\ tune' = [tune EXCEPT !.saved = phase, !.cdr = AllPassed]
               \/ tune' = [tune EXCEPT !.cdr = AllPassed] /\ UNCHANGED host
  /\ UNCHANGED <<sys, card, worked, misreported>>

TuningOut ==
  /\ pc = "out"
  /\ host' = [host EXCEPT !.tuning = FALSE]
  /\ pc' = IF tune.ret = 1 THEN "failed" ELSE "rst_n"
  /\ UNCHANGED <<sys, card, tune, worked, misreported>>

-----------------------------------------------------------------------------
Next ==
  \/ ResetCard \/ InitSdCard \/ IdentifyCard \/ SetHsInterface \/ SdSetHs
  \/ ReadCardData \/ ChooseMode \/ SetBusWidth \/ SetDdrMode \/ SetHs200Mode
  \/ SdSetBusWidth \/ EnableResetPin
  \/ InitDll \/ TunePhase \/ RoundDone \/ NextStrength \/ RestoreStrength
  \/ SelectPhase \/ TuningOut

(* The driver runs on: no step waits for anybody.                          *)
Spec == Init /\ [][Next]_vars /\ WF_vars(Next)

-----------------------------------------------------------------------------
Tuning == {"init_dll", "phase", "strength", "restore", "select", "out"}
Labels == Tuning \cup
  {"reset", "sd", "identify_mmc", "identify_sd", "hs_mmc", "hs_sd", "ext_csd", "scr", "ssr",
   "mode", "hs200_width", "hs200", "ddr", "hs_again", "hs_width", "sd_width", "rst_n",
   "ready", "failed"}
Modes == {"none", "SDR25", "DDR50", "SDR104"}

Hosts == [width : {1, 4, 8}, uhs : Modes, phase : Phases \cup {NoPhase}, tuning : BOOLEAN]
Cards == [width : {1, 4, 8}, timing : {"default", "hs", "hs200"}, ddr : BOOLEAN,
          drv : 0 .. MaxDriverType]
Tunes == [phase : 0 .. MaxPhases, hits : Seq(Phases), buf : {"pattern", "other"},
          drv : 0 .. MaxDriverType + 1, changed : BOOLEAN, cdr : BOOLEAN,
          saved : Phases \cup {NoPhase}, ret : {0, 1}]

TypeOK ==
  /\ pc \in Labels /\ sys \in Systems
  /\ host \in Hosts /\ card \in Cards /\ tune \in Tunes
  /\ worked \subseteq Phases /\ misreported \in BOOLEAN

(* The timing of the card a mode of the controller is for.                 *)
ModeOf(c) ==
  CASE c.timing = "hs200" -> "SDR104"
    [] c.timing = "hs" /\ c.ddr -> "DDR50"
    [] c.timing = "hs" /\ ~c.ddr -> "SDR25"
    [] OTHER -> "none"

Agreed == host.width = card.width /\ host.uhs = ModeOf(card)

(* The two ways the code has to leave them apart: a card that refused the  *)
(* high speed, and eight lines of double data rate on fewer.               *)
SlowSdCard ==
  sys.kind = "sd" /\ host.uhs = "SDR25" /\ card.timing = "default" /\ host.width = card.width
NarrowDdr ==
  host.uhs = "DDR50" /\ card.timing = "hs" /\ card.ddr /\ card.width = 8 /\ host.width = BusWidth

OnTheBus == pc \in {"hs_sd", "ext_csd", "scr", "ssr", "phase", "out", "ready"}

(* Whenever data is on the bus - registers of the card, tuning blocks, and *)
(* what comes after - both ends use the same lines in the same mode,       *)
(* whatever commands or answers were lost, but for the two ways above.     *)
DataOnAgreedBus == OnTheBus => Agreed \/ SlowSdCard \/ (NarrowDdr /\ BusWidth # 8)

(* "Set the bus width based on host, target capbilities" (mmc_card_init),  *)
(* "Set the clock & high speed mode" (mmc_init): once the card is taken    *)
(* both ends use the same lines in the same mode.                          *)
TakenOnAgreedBus == pc = "ready" => Agreed

(* Of the phases that passed it is the one at three quarters of a longest  *)
(* run on the circle of phases.                                            *)
LongestRunChosen ==
  pc = "select" /\ tune.hits # <<>>
    => AtThreeQuarters({tune.hits[i] : i \in DOMAIN tune.hits}, SelectedPhase(tune.hits))

(* The tuning comes to an end: it is repeated for the next driver type     *)
(* while all phases pass, for each type once.                              *)
InitEnds == <>(pc \in {"ready", "failed"})

(* "Return : 0 on Success, 1 on Failure" (sdhci_msm_execute_tuning): after *)
(* a tuning that succeeded the delay line is at the phase it chose ...     *)
PhaseIsSet == pc = "out" /\ tune.ret = 0 => host.phase = tune.saved

(* ... and that is a phase whose tuning block arrived.                     *)
ChosenPhaseWorked ==
  pc = "out" /\ tune.ret = 0 /\ host.phase = tune.saved => host.phase \in worked

(* "Restore the driver strength to default value"                          *)
(* (sdhci_msm_execute_tuning): while every switch of the type does what it *)
(* reports, a card that is not at the default is known to be changed.      *)
ChangeIsKnown == pc = "restore" /\ ~misreported /\ card.drv # 0 => tune.changed
==============================================================================
