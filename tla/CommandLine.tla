------------------------------ MODULE CommandLine ------------------------------
(***************************************************************************)
(* The terminal's commands and the module together: ModulePages with the   *)
(* handlers that the lines of CommandTable run, and what each line asks    *)
(* for, read from its words alone.                                         *)
(***************************************************************************)
EXTENDS ModulePages, CommandTable

VendorName ==
  [vendor_pn |-> Vendor.PN, vendor_rev |-> Vendor.REV, vendor_sn |-> Vendor.SN,
   date_code |-> Vendor.DATA_CODE, supercode |-> Vendor.SUPERCODE, pcba_sn |-> Vendor.PCBA_SN,
   pcba_code |-> Vendor.PCBA_CODE, laser_tx_sn |-> Vendor.LASER_TX_SN,
   laser_rx_sn |-> Vendor.LASER_RX_SN, pic_code |-> Vendor.PICCODE, hw_ver |-> Vendor.HW_VER,
   module_class |-> Vendor.MODULE_CLASS, module_type |-> Reg(5, \h80, 2),
   mod_boot_reason |-> SFP_MOD_BOOT_REASON]

LookUp == [lt |-> LUT_LT, rt |-> LUT_MT, ht |-> LUT_HT]

ThresholdOf(word) ==
  CHOOSE t \in Thresholds :
    word = <<"temp", "vcc", "rxpwr", "bias", "txpwr">>[(t \div 4) + 1]
           \o <<"_high_alarm", "_low_alarm", "_high_warn", "_low_warn">>[(t % 4) + 1]

\* The channels a word stands for.
Named(word) ==
  LET channel == "ch0" :> 0 @@ "ch1" :> 1 @@ "ch2" :> 2 @@ "ch3" :> 3
                 @@ "0" :> 0 @@ "1" :> 1 @@ "2" :> 2 @@ "3" :> 3 IN
  IF word = "all" THEN Channels ELSE IF word \in DOMAIN channel THEN {channel[word]} ELSE {}

\* The registers a line about registers stands for.  Not counted are the lines whose
\* result the code takes from the last of several transfers: "lut", the temperature of
\* "get CHANNEL lt"; and what the module does itself on a command.
CaliOf(kind, cs) == {Cali(c)[kind] : c \in cs}

OfValue(word, cs) ==
  Switch(word, [bias |-> {DDMI.ibias[c] : c \in cs}, txmon |-> {DDMI.txpower[c] : c \in cs},
                rssi |-> {DDMI.rxpower[c] : c \in cs}, vcc |-> {DDMI.vcc}, temp |-> {DDMI.temp}], {})

OfCalibration(what, kind, cs) ==
  Switch(what, [temp_offset |-> {CaliTemp}, vcc_offset |-> {CaliVcc}],
    Switch(kind, [bias_offset |-> CaliOf("bias", cs), txpwr |-> CaliOf("txpower", cs),
                  rxpwr |-> CaliOf("rxpower", cs)], {}))

OfLookUp(table, cs, set) ==
  {LaserCfg(table, c) : c \in cs} \cup (IF set THEN {table.temp} ELSE {})

OfChannels(what, cs) ==
  Switch(what, [tx |-> {MSA_TX_ENABLE}, losa_thld |-> {Losa(c) : c \in cs},
                losd_thld |-> {Losd(c) : c \in cs}, darka_thld |-> {Darka(c) : c \in cs},
                darkd_thld |-> {Darkd(c) : c \in cs}], {})

Registers(l) ==
  IF Arg(l, 0) \notin {"get", "set"} THEN {}
  ELSE IF Arg(l, 1) \in DOMAIN VendorName THEN {VendorName[Arg(l, 1)]}
  ELSE IF Arg(l, 1) = "thrhld" THEN {Threshold(ThresholdOf(Arg(l, 2)))}
  ELSE IF Arg(l, 1) = "ddmi" THEN OfValue(Arg(l, 2), Named(Arg(l, 3)))
  ELSE IF Arg(l, 1) = "ddmi_cali" THEN OfCalibration(Arg(l, 2), Arg(l, 3), Named(Arg(l, 2)))
  ELSE IF Arg(l, 2) \in DOMAIN LookUp /\ Arg(l, 3) # "now"
  THEN OfLookUp(LookUp[Arg(l, 2)], Named(Arg(l, 1)), Arg(l, 0) = "set")
  ELSE OfChannels(Arg(l, 2), Named(Arg(l, 1)))

Typable == DOMAIN Runs \ {<<>>}

Meant ==
  (<<>> :> <<>>) @@
  [l \in Typable |->
     [op |-> IF Arg(l, 0) = "set" THEN "write" ELSE "read", regs |-> Registers(l),
      lanes |-> IF Arg(l, 0) = "set" /\ Arg(l, 2) = "tx" THEN Named(Arg(l, 1)) ELSE {}]]

(* Values of the constants: names of definitions that TLC evaluates once.  *)
(* LET keeps TLC's coverage statistics out of the table, where each use of *)
(* a constant would count every handler anew.                              *)
AllLines == LET lines == Typable IN lines
AllScripts == LET scripts == Runs IN scripts
AllAsked == LET asked == Meant IN asked
=============================================================================
