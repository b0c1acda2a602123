----------------------------- MODULE CommandTable -----------------------------
(***************************************************************************)
(* From a line to its handler: the patterns cmd_init registers and how     *)
(* mcu_sal_terminal.c finds the first one that fits.  A pattern is a        *)
(* sequence of sections: a word or a choice of words [a|b], which the line *)
(* must have at that place, or a place that takes any word, or none (&, #). *)
(* Words that a place that takes any is tried with are given here, too.    *)
(***************************************************************************)
EXTENDS ModuleCommands, FiniteSets

Choice(words) == [any |-> FALSE, words |-> words]
W(word) == Choice({word})
AnyOf(words) == [any |-> TRUE, words |-> words]
Value == AnyOf({"1"})

\* Every way to choose a word for each section.
RECURSIVE Typings(_)
Typings(sections) ==
  IF sections = <<>> THEN {<<>>}
  ELSE {Append(l, w) : l \in Typings(Front(sections)), w \in Last(sections).words}

\* What is typed for a pattern: the places that take any word filled, or those at its
\* end left out.
Typed(sections) ==
  LET words == {i \in DOMAIN sections : ~ sections[i].any}
      last == CHOOSE i \in words : \A j \in words : j <= i IN
  Typings(sections) \cup Typings(SubSeq(sections, 1, last))

\* terminal_register_cmd: a pattern and what its handler does with each line typed for it.
Register(sections, Handler(_)) ==
  [sections |-> sections, run |-> [l \in Typed(sections) |-> Handler(l)]]

NoEffect(a) == Nothing    \* the handler leaves the module alone

GS == Choice({"get", "set"})
Lane == Choice({"ch0", "ch1", "ch2", "ch3"})
Lanes == Choice({"ch0", "ch1", "ch2", "ch3", "all"})
Able == Choice({"enable", "disable"})
Bit == AnyOf({"0", "1"})
Device == AnyOf({"0xA0", "0xA2", "0x16"})

Bounds(value) ==
  Choice({value \o "_high_alarm", value \o "_high_warn", value \o "_low_alarm",
          value \o "_low_warn"})

\* The order of registration: help by terminal_init, the others by cmd_init.
Table == <<
  Register(<<W("help")>>, NoEffect),
  Register(<<W("build"), W("info")>>, NoEffect),
  Register(<<W("reset")>>, LAMBDA a : prvDispResetConfig("keep")),
  Register(<<W("reboot")>>, LAMBDA a : prvDispRebootConfig),
  Register(<<W("factory_reset")>>, LAMBDA a : prvDispFactoryResetConfig),
  Register(<<W("get"), W("swver")>>, prvDispSwverConfig),
  Register(<<Choice({"opr", "opw"}), Device, Value, Value>>, prvDispOprwConfig),
  Register(<<Choice({"mdior", "mdiow"}), Value, Value, Value>>, NoEffect),
  Register(<<W("get"), W("intl")>>, NoEffect),
  Register(<<W("get"), W("mod_status")>>, prvDispModStatusConfig),
  Register(<<W("enter"), W("bonding")>>, LAMBDA a : prvDispBondingConfig),
  Register(<<W("eep"), Choice({"init", "show", "erase"})>>, prvDispEepConfig),
  Register(<<W("auto"), Able>>, prvDispAutoAbleConfig),
  Register(<<W("ddmi"), Able>>, prvDispDdmiAbleConfig),
  Register(<<W("aging"), Choice({"start", "stop", "clean"})>>, prvDispAgingConfig),
  Register(<<W("intl"), W("output"), Able>>, prvIntlOutputConfig),
  Register(<<W("test"), W("modsel"), AnyOf({"0", "1", "aborted"})>>, prvDispTestModselConfig),
  Register(<<W("test"), W("modsel"), W("aborted")>>, prvDispTestModselConfig),
  Register(<<GS, W("lpmode"), Bit>>, prvDispLpmodeConfig),
  Register(<<GS, W("reset"), Bit>>, prvDispgsetResetConfig),
  Register(<<GS, W("reset_l"), Bit>>, prvDispgsetResetLevelConfig),
  Register(<<GS, W("modsel"), Bit>>, prvDispModselConfig),
  Register(<<W("enter"), W("msa"), W("download")>>, LAMBDA a : prvDispMsaDownloadConfig),
  Register(<<W("rssi"), Choice({"show", "stop"}), Value>>, prvDispConfigRssiConfig),
  Register(<<W("mod_console"), Able>>, prvDispConfigModConfig),
  Register(<<Choice({"txcdr", "rxcdr"}), W("i2c"), W("enable")>>,
       prvDispTxcdrRxcdrI2cEnableConfig),
  Register(<<Choice({"read", "enable", "disable", "clear"}), W("log")>>, prvDispLogConfig),
  Register(<<W("eep"), W("regset"), Value, Value, Value>>, prvDispEepConfig),
  Register(<<Choice({"oprt", "opwt"}), Device, Value, Value>>, prvDispOprwConfig),
  Register(<<GS, W("laser_tx_sn"), Value>>, cli_laser_tx_sn_cmd),
  Register(<<GS, W("laser_rx_sn"), Value>>, cli_laser_rx_sn_cmd),
  Register(<<GS, W("pic_code"), Value>>, cli_pic_code_cmd),
  Register(<<GS, W("module_type"), Value>>, cli_module_type_cmd),
  Register(<<GS, W("hw_ver"), Value>>, cli_hw_ver_cmd),
  Register(<<GS, W("vendor_pn"), Value>>, prvDispVendorPnConfig),
  Register(<<GS, W("vendor_rev"), Value>>, prvDispVendorRevConfig),
  Register(<<GS, W("vendor_sn"), Value>>, prvDispVendorSnConfig),
  Register(<<GS, W("date_code"), Value>>, prvDispDateCodeConfig),
  Register(<<GS, W("supercode"), Value>>, prvDispSuperCodeConfig),
  Register(<<GS, W("pcba_sn"), Value>>, prvDispPcbaSnConfig),
  Register(<<GS, W("pcba_code"), Value>>, prvDispPcbaCodeConfig),
  Register(<<W("get"), W("module"), Choice({"vcc", "temp", "bias", "txpower", "rxpower"}),
       Value>>, prvDispModuleConfig),
  Register(<<GS, Lanes, Choice({"lt", "rt", "ht", "lut"}), AnyOf({"25", "now"}), Value,
       Value, Value>>, prvDispLutConfig),
  Register(<<GS, Lane, AnyOf({"25", "cur"}), W("lut"), W("tab")>>, prvDispLuttabConfig),
  Register(<<GS, W("ddmi_cali"), Choice({"temp_offset", "vcc_offset"}), AnyOf({"1", FAR})>>,
       cli_ddmi_cali),
  Register(<<GS, W("ddmi_cali"), Lanes, W("bias_offset"), Value, Value>>, cli_ddmi_cali),
  Register(<<GS, W("ddmi_cali"), Lane, W("txpwr"), Value, Value, Value, Value>>,
       cli_ddmi_cali),
  Register(<<GS, W("ddmi_cali"), Lane, W("rxpwr"), AnyOf({"1", FAR}), Value, AnyOf({"1", FAR}),
       Value>>, cli_ddmi_cali),
  Register(<<W("get"), W("ddmi"), Choice({"vcc", "temp"})>>, cli_ddmi_cmd),
  Register(<<W("get"), W("ddmi"), Choice({"bias", "txmon", "rssi"}), Choice({"0", "1", "2",
       "3"})>>, cli_ddmi_cmd),
  Register(<<GS, W("thrhld"), Bounds("temp"), Value>>, cli_thrhld_cmd),
  Register(<<GS, W("thrhld"), Bounds("vcc"), Value>>, cli_thrhld_cmd),
  Register(<<GS, W("thrhld"), Bounds("bias"), Value>>, cli_thrhld_cmd),
  Register(<<GS, W("thrhld"), Bounds("rxpwr"), Value>>, cli_thrhld_cmd),
  Register(<<GS, W("thrhld"), Bounds("txpwr"), Value>>, cli_thrhld_cmd),
  Register(<<GS, W("module_class"), Value>>, cli_module_class_cmd),
  Register(<<GS, W("iic_speed"), Value>>, NoEffect),
  Register(<<W("get"), W("mod_boot_reason")>>, cli_get_mod_boot_reason_cmd),
  Register(<<W("set"), Lanes, W("tx_prbs"), Able>>, M37049_tx_cdr_prbs_cmd),
  Register(<<W("set"), Lanes, W("rx_prbs"), W("check"), Able, Value>>,
       M37046_rx_cdr_prbs_pn_normal_cmd),
  Register(<<W("set"), Lanes, W("rx_prbs"), W("invert"), W("check"), Able, Value>>,
       M37046_rx_cdr_prbs_pn_inverse_cmd),
  Register(<<W("set"), Lanes, W("tx"), Able>>, cli_tx_laser_cmd),
  Register(<<W("get"), Lanes, W("tx")>>, cli_tx_laser_cmd),
  Register(<<GS, Lanes, W("darka_thld"), Value>>, cli_rssi_darka_cmd),
  Register(<<GS, Lanes, W("darkd_thld"), Value>>, cli_rssi_darkd_cmd),
  Register(<<GS, Lane, W("losa_thld"), Value>>, cli_rx_losa_cmd),
  Register(<<GS, Lane, W("losd_thld"), Value>>, cli_rx_losd_cmd),
  Register(<<W("show"), W("mcu"), W("reg")>>, NoEffect),
  Register(<<Choice({"read", "write"}), W("reg"), Value, Value>>, NoEffect)>>

----------------------------------------------------------------------------
(* _terminal_string_match and _terminal_match_cmd.                         *)

\* Words behind the last section are ignored; a word that was not typed is empty and fits
\* a place that takes any.
Fits(l, sections) ==
  \A i \in DOMAIN sections : sections[i].any \/ Arg(l, i - 1) \in sections[i].words

FirstFit(table, l) ==
  CHOOSE k \in DOMAIN table :
    /\ Fits(l, table[k].sections)
    /\ \A j \in 1 .. k - 1 : ~ Fits(l, table[j].sections)

\* _terminal_run_cmd: what each line does.
Runs ==
  LET table == Table
      lines == UNION {DOMAIN table[k].run : k \in DOMAIN table} IN
  (<<>> :> Nothing) @@ [l \in lines |-> table[FirstFit(table, l)].run[l]]

\* Every registered command can be reached: a line typed for a pattern runs the handler
\* registered with it, whatever else fits (cmd_init's patterns overlap, e.g. those with
\* "[get|set] [ch0|ch1|ch2|ch3]" or with a place for any word, and the first one wins).
\* CLI_CMD_NUM is not reached: terminal_register_cmd drops what is too much.
CLI_CMD_NUM == 100

ASSUME EveryCommandReached ==
  LET table == Table   runs == Runs IN
  /\ Len(table) <= CLI_CMD_NUM
  /\ \A k \in DOMAIN table : \A l \in DOMAIN table[k].run : runs[l] = table[k].run[l]
=============================================================================
