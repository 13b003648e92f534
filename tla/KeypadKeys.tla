----------------------------- MODULE KeypadKeys -----------------------------
(***************************************************************************)
(* What KeypadDeviceImplGetKeys makes of the buttons at each poll: the     *)
(* state machine LibKeyUpdateKeyStatus keeps per key                       *)
(* (Include/Library/KeypadDeviceHelperLib.h), run for every key in the     *)
(* order of KeyList (Library/KeypadDeviceImplLib).  The buttons are free:  *)
(* a poll may find any set of them pressed, and may fail to read those     *)
(* that hang on PMIC GPIOs.                                                *)
(* Times are in units of which LongTime make 500 ms.                       *)
(***************************************************************************)
EXTENDS Integers, Sequences, SequencesExt

CONSTANTS
  KeyList,     \* the valid keys in the order they are polled
  Power, VolumeUp, VolumeDown,  \* the keys that take part in combinations
  GpioKeys,    \* keys of type KEY_DEVICE_TYPE_PM8X41
  LongTime,    \* MS2NS(500)
  RepeatTime,  \* MS2NS(200)
  ReleaseTime, \* MS2NS(10)
  Deltas,      \* the times that may pass between two polls
  TimeCap      \* bound: Time saturates here, above every threshold

ASSUME KeysAssumption ==
  /\ KeyList \in Seq(STRING)
  /\ \A i, j \in DOMAIN KeyList : KeyList[i] = KeyList[j] => i = j
  /\ Power \in {KeyList[i] : i \in DOMAIN KeyList}
  /\ GpioKeys \subseteq {KeyList[i] : i \in DOMAIN KeyList}
  /\ {LongTime, RepeatTime, ReleaseTime, TimeCap} \subseteq Nat
  /\ ReleaseTime <= RepeatTime /\ RepeatTime <= LongTime /\ LongTime <= TimeCap
  /\ Deltas \subseteq Nat

Keys == {KeyList[i] : i \in DOMAIN KeyList}

(* Reports other than a key itself: 's', 'e' and the space bar.            *)
PowerDown == "s"
PowerUp == "e"
PowerLongpress == "space"

VARIABLES
  context,  \* KEY_CONTEXT of each key
  down,     \* gBitmapScanCodes, gBitmapUnicodeChars: keys last seen pressed
  out,      \* what the last poll reported, in order
  reports,  \* per key, its reports since it left KEYSTATE_RELEASED
  quiet,    \* per repeating key, the time since its last report
  combined  \* keys that came to 500 ms while Power was down

keysVars == <<context, down, out, reports, quiet, combined>>

States == {"RELEASED", "PRESSED", "LONGPRESS_RELEASE"}
Released == [State |-> "RELEASED", Time |-> 0, Repeat |-> FALSE, Longpress |-> FALSE]

Later(t, delta) == IF t + delta > TimeCap THEN TimeCap ELSE t + delta

(* What Power reports once it was held for 500 ms.                         *)
Combination(pressed) ==
  IF VolumeDown \in pressed THEN PowerDown
  ELSE IF VolumeUp \in pressed THEN PowerUp
  ELSE PowerLongpress

(* The branches of LibKeyUpdateKeyStatus.  Each gives the context c and the*)
(* reports of key k; c has the time that has passed added.                 *)
Nothing(c) == [c |-> c, out |-> <<>>]

(* Held for another 200 ms.                                                *)
RepeatUnreset(k, c) == [c |-> c, out |-> <<k>>]                                \* faulty
RepeatReport(k, c) == [c |-> [c EXCEPT !.Time = 0], out |-> <<k>>]

(* Held for 500 ms: Power reports a combination, another key starts to     *)
(* repeat unless Power is down too.                                        *)
Hold(k, c, pressed) ==
  IF k = Power
    THEN [c |-> [c EXCEPT !.Longpress = TRUE], out |-> <<Combination(pressed)>>]
  ELSE IF Power \notin pressed
    THEN [c |-> [c EXCEPT !.Longpress = TRUE, !.Repeat = TRUE, !.Time = 0], out |-> <<k>>]
    ELSE [c |-> [c EXCEPT !.Longpress = TRUE], out |-> <<>>]

(* Let go before 500 ms: the press is reported now.                        *)
LetGoAgain(k, c) == [c |-> c, out |-> <<k>>]                                   \* faulty
LetGoSilently(k, c) == [c |-> [c EXCEPT !.State = "LONGPRESS_RELEASE"], out |-> <<>>] \* faulty
LetGo(k, c) == [c |-> [c EXCEPT !.State = "LONGPRESS_RELEASE"], out |-> <<k>>]

(* LibKeyUpdateKeyStatus; pressed is the bitmap with this key's bit up to  *)
(* date.                                                                   *)
Update(k, c, pressed) ==
  CASE c.State = "RELEASED" /\ k \in pressed -> Nothing([c EXCEPT !.Time = 0, !.State = "PRESSED"])
    [] c.State = "PRESSED" /\ k \in pressed ->
         IF c.Repeat /\ c.Time >= RepeatTime THEN RepeatReport(k, c)
         ELSE IF ~c.Longpress /\ c.Time >= LongTime THEN Hold(k, c, pressed)
         ELSE Nothing(c)
    [] c.State = "PRESSED" /\ k \notin pressed ->
         IF ~c.Longpress THEN LetGo(k, c)
         ELSE IF c.Time >= ReleaseTime THEN Nothing(Released)
         ELSE Nothing(c)
    [] c.State = "LONGPRESS_RELEASE" -> Nothing(Released)
    [] OTHER -> Nothing(c)

(* KeyGetState as key k finds it: its own bit and those of the keys polled *)
(* before it are up to date, the others are of an earlier poll.            *)
Place(k) == CHOOSE i \in DOMAIN KeyList : KeyList[i] = k
Seen(k, buttons, read) ==
  {j \in Keys : IF j \in read /\ Place(j) <= Place(k) THEN j \in buttons ELSE j \in down}

(* A turn of the loop of KeypadDeviceImplGetKeys; a key that could not be  *)
(* read is left alone.                                                     *)
Turn(k, buttons, read, delta) ==
  IF k \in read
    THEN Update(k, [context[k] EXCEPT !.Time = Later(@, delta)], Seen(k, buttons, read))
    ELSE Nothing(context[k])

KeysInit ==
  /\ context = [k \in Keys |-> Released]
  /\ down = {} /\ out = <<>>
  /\ reports = [k \in Keys |-> 0] /\ quiet = [k \in Keys |-> 0]
  /\ combined = {}

(* KeypadDeviceImplGetKeys: every key whose button could be read, in order.*)
GetKeys(buttons, read, delta) ==
  LET turn == [k \in Keys |-> Turn(k, buttons, read, delta)]
  IN  /\ context' = [k \in Keys |-> turn[k].c]
      /\ down' = (down \ read) \cup (buttons \cap read)
      /\ out' = FlattenSeq([i \in DOMAIN KeyList |-> turn[KeyList[i]].out])
      /\ reports' = [k \in Keys |->
           IF context[k].State = "RELEASED" THEN 0
           ELSE IF reports[k] + Len(turn[k].out) > 2 THEN 2 ELSE reports[k] + Len(turn[k].out)]
      /\ quiet' = [k \in Keys |->
           IF turn[k].out # <<>> \/ ~turn[k].c.Repeat THEN 0 ELSE Later(quiet[k], delta)]
      /\ combined' = {k \in Keys :
           /\ turn[k].c.State # "RELEASED"
           /\ \/ k \in combined
              \/ /\ ~context[k].Longpress /\ turn[k].c.Longpress
                 /\ k # Power /\ Power \in down'}

(* KeypadDeviceImplReset: the contexts, not the bitmaps.                   *)
KeypadDeviceImplReset ==
  /\ context' = [k \in Keys |-> Released]
  /\ reports' = [k \in Keys |-> 0]
  /\ combined' = {}
  /\ quiet' = [k \in Keys |-> 0]
  /\ UNCHANGED <<down, out>>

KeysNext ==
  \/ \E buttons \in SUBSET Keys, failed \in SUBSET GpioKeys, delta \in Deltas :
       GetKeys(buttons, Keys \ failed, delta)
  \/ KeypadDeviceImplReset

KeysSpec == KeysInit /\ [][KeysNext]_keysVars

-----------------------------------------------------------------------------
(* A hold of the power key is reported once: as a carriage return when it  *)
(* is let go, or as a combination, never as both.                          *)
PowerReportedOnce ==
  /\ context[Power].State = "PRESSED" => reports[Power] = IF context[Power].Longpress THEN 1 ELSE 0
  /\ context[Power].State = "LONGPRESS_RELEASE" => reports[Power] = 1

(* The space between two reports of a repeating key is at least 200 ms,    *)
(* however short the polls and however many of them fail: Time never runs  *)
(* ahead of the time since the last report.                                *)
RepeatsAreSpaced == \A k \in Keys : context[k].Repeat => context[k].Time <= quiet[k]

(* A hold ends silently only if the key was part of a combination.         *)
NoSilentHold ==
  [][\A k \in Keys :
       ~KeypadDeviceImplReset /\ context[k].State # "RELEASED" /\ context'[k].State = "RELEASED"
         => reports[k] > 0 \/ k \in combined]_keysVars
=============================================================================
