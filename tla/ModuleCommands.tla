--------------------------- MODULE ModuleCommands ---------------------------
(***************************************************************************)
(* What the commands of the terminal do to the module: the handlers of     *)
(* Efm8lb12_cmd.c and the functions of Efm8lb12_qsfp28.c they call.  Apart *)
(* from the choice of a branch by the words of the line they are straight- *)
(* line code, so a handler is an operator from the words to the sequence   *)
(* of its steps; ModulePages carries the steps out.                        *)
(*                                                                         *)
(* Values, their conversion and what is printed are left out.  Handlers    *)
(* that leave the module alone have no steps: what they do to timers, to   *)
(* the clock of the bus and to a PHY is in SoftTimer, I2cMaster and        *)
(* InterruptEnable.                                                        *)
(***************************************************************************)
EXTENDS ModuleRegisters, Sequences, SequencesExt

(* A step and what becomes of its result ("on"):                           *)
(*   "return"  JUDGE_RETURN: a failure is the handler's result             *)
(*   "leave"   the same in a function whose result the handler looks at    *)
(*   "keep"    ret is the result, and the next step is taken               *)
(*   "drop"    nobody looks at it                                          *)
Step(op, reg, on, arg) == [op |-> op, reg |-> reg, on |-> on, arg |-> arg]

Nothing == <<>>
Failed == <<Step("fail", SFP_DBG_CMD, "keep", 0)>>

Select(page, on) == <<Step("select", Reg(page, 0, 1), on, 0)>>   \* qsfp28_select_page
Read(r, on) == <<Step("read", r, on, 0)>>
Write(r, on) == <<Step("write", r, on, 0)>>
Status(on) == <<Step("status", SFP_DBG_CMD, on, 0)>>             \* qsfp28_get_cmd_status
Set(pin, value) == <<Step("pin", SFP_DBG_CMD, "drop", <<pin, value>>)>>

\* The end of a function whose result is dropped, kept, or only compared with RET_FAILED.
End(on) == <<Step("end", SFP_DBG_CMD, on, 0)>>

\* A for loop over channels, or over the elements of s.
RECURSIVE Joined(_)
Joined(ss) == IF ss = <<>> THEN <<>> ELSE Head(ss) \o Joined(Tail(ss))
Loop(s, Body(_)) == Joined([i \in DOMAIN s |-> Body(s[i])])
AllChannels == <<0, 1, 2, 3>>

\* if / else if over strings.
Switch(word, cases, otherwise) == IF word \in DOMAIN cases THEN cases[word] ELSE otherwise

\* argv[i]; the words that were not typed are empty.
Arg(a, i) == IF i < Len(a) THEN a[i + 1] ELSE ""

ALL == 4    \* CHANNEL_MAX

qsfp28_get_channel(word) ==
  Switch(word, [ch0 |-> 0, ch1 |-> 1, ch2 |-> 2, ch3 |-> 3, all |-> ALL], \hFF)

smb_write_page_byte(r, on) == Select(r.page, "return") \o Write(r, on)
smb_read_page_byte(r, on) == Select(r.page, "return") \o Read(r, on)

\* [get|set] of one register: both return what the transfer returned.
GetSet(word, r) ==
  Switch(word, [set |-> smb_write_page_byte(r, "keep"),
                get |-> smb_read_page_byte(r, "return")], Failed)

----------------------------------------------------------------------------
(* Efm8lb12_qsfp28.c                                                       *)

qsfp28_get_mod_soft_type ==
  Select(5, "leave")
  \o Read(Vendor.MODULE_TYPE, "drop") \o Read(Vendor.SUB_TYPE, "drop")
  \o Read(Vendor.HW_VER, "drop") \o End("drop")

\* The answer depends on the name, which is known if the type was read and is listed.
qsfp28_get_mod_release_info ==
  qsfp28_get_mod_soft_type
  \o Select(4, "return") \o Read(SFP_MOD_REA_SEC, "keep")
  \o <<Step("unless", Vendor.MODULE_TYPE, "keep", 0)>>

qsfp28_get_msa_lower_page_monitor(on) == Read(LOWER_MON, on)

\* DDMI_CALI_BEFORE; the channel is that of the line.
qsfp28_get_ddmi_vcc == Select(4, "return") \o Read(DDMI.vcc, "return")
qsfp28_get_ddmi_temp == Select(4, "return") \o Read(DDMI.temp, "return")
qsfp28_get_ddmi_bias(c) == Select(4, "return") \o Read(DDMI.ibias[c], "return")
qsfp28_get_ddmi_txmon(c) == Select(4, "return") \o Read(DDMI.txpower[c], "keep")
qsfp28_get_ddmi_rssi(c) == Select(4, "return") \o Read(DDMI.rxpower[c], "return")

\* ddmi_type and the channel give the register; the page comes from page_select.
CaliRegister(type, c) ==
  Switch(type, [temp |-> CaliTemp, vcc |-> CaliVcc], Switch(type, Cali(c), CaliTemp))

page_select(c) == <<6, 7, 7, 7>>[c + 1]

qsfp28_set_ddmi_cali_para(type, c, on) ==
  LET page == IF type \in {"temp", "vcc"} THEN 6 ELSE page_select(c) IN
  Select(page, "return") \o Write(CaliRegister(type, c), on)

qsfp28_get_ddmi_cali_para(type, c) ==
  LET page == IF c = 0 \/ type \in {"temp", "vcc"} THEN 6 ELSE 7 IN
  Select(page, "return") \o Read(CaliRegister(type, c), "return")

lut_page_select(type) == [lt |-> 6, rt |-> 6, ht |-> 7][type]
lut_select(type) == [lt |-> LUT_LT, rt |-> LUT_MT, ht |-> LUT_HT][type]

qsfp28_set_lut_tab(c, type) ==
  Select(lut_page_select(type), "return") \o Write(lut_select(type).temp, "return")
  \o Select(lut_page_select(type), "return") \o Write(LaserCfg(lut_select(type), c), "keep")

\* on: what becomes of its own early return.
qsfp28_get_lut_tab(c, type, on) ==
  Select(lut_page_select(type), on)
  \o Read(lut_select(type).temp, "keep") \o Read(LaserCfg(lut_select(type), c), "keep")

\* A mailbox command with its parameters; a failing status replaces the result.
DbgCmd(data) ==
  Select(4, "return") \o Loop(data, LAMBDA r : Write(r, "keep"))
  \o Write(SFP_DBG_CMD, "keep") \o Status("keep")

qsfp28_set_lut_tab_para_from_reg_inner == DbgCmd(<<DbgData(0, 1), DbgData(1, 1)>>)

qsfp28_get_fixed_temp_point_apc_value(c, on) ==
  IF c = ALL THEN Failed ELSE
  Select(4, on)
  \o Write(DbgData(0, 1), "keep") \o Write(DbgData(2, 2), "keep") \o Write(SFP_DBG_CMD, "keep")
  \o Status(on)
  \o Read(DbgData(4, 2), "keep") \o Read(DbgData(6, 2), "keep") \o Read(DbgData(8, 2), "keep")

qsfp28_get_cur_apc_value(c) ==
  IF c = ALL THEN Failed ELSE
  Select(4, "return") \o Read(DDMI.temp, "keep")
  \o qsfp28_get_fixed_temp_point_apc_value(c, "leave") \o End("failed_only")

qsfp28_read_log == Select(2, "return") \o Read(DEBUG_LOG, "keep")
qsfp28_debug_log_handle(read) == IF read THEN qsfp28_read_log ELSE DbgCmd(<<DbgData(0, 1)>>)

qsfp28_eep_save == DbgCmd(<<DbgData(0, 4)>>)

\* The loop reads as many entries as the size says that was read, or 0 of it.
qsfp28_eep_show ==
  Select(5, "return") \o Read(Vendor.EEP_DATA_SIZE, "keep")
  \o Select(10, "return") \o <<Step("entries", Saved(0), "keep", 0)>>

qsfp28_msa_page4_dbg_cmd == DbgCmd(<<>>)

\* enable waits for the status before it lets go of the pins, disable after it has taken
\* them; a failing status returns at once, without the last assignment to SFRPAGE.
ConsolePins(modsel) ==
  Set("SFRPAGE", "0x0") \o Set("SFRPAGE", "0x20") \o Set("RESET", 1) \o Set("MODSEL", modsel)

qsfp28_config_mod_console(enable) ==
  LET command == Select(4, "return") \o Write(DbgData(0, 1), "keep") \o Write(SFP_DBG_CMD, "keep")
      restore == Set("SFRPAGE", "saved") IN
  IF enable THEN command \o Status("return") \o ConsolePins(1) \o restore
  ELSE command \o ConsolePins(0) \o Status("return") \o restore

qsfp28_set_thrhld_value(type) == Select(3, "return") \o Write(Threshold(type), "keep")
qsfp28_get_each_thrhld_value(type) == Select(3, "return") \o Read(Threshold(type), "keep")

qsfp28_get_module_class == smb_read_page_byte(Vendor.MODULE_CLASS, "return")
qsfp28_set_module_class == smb_write_page_byte(Vendor.MODULE_CLASS, "keep")

----------------------------------------------------------------------------
(* Efm8lb12_cmd.c                                                          *)

prvDispEepConfig(a) ==
  Switch(Arg(a, 1), [init |-> qsfp28_msa_page4_dbg_cmd, show |-> qsfp28_eep_show,
                     regset |-> qsfp28_eep_save, erase |-> qsfp28_msa_page4_dbg_cmd], Nothing)

\* Raw access to an address of a device.  Other devices than the module are reached
\* through it (Mailbox has the transfers), except by oprt and opwt.
prvDispOprwConfig(a) ==
  LET write == Arg(a, 0) \in {"opw", "opwt"}
      direct == Arg(a, 0) \in {"oprt", "opwt"}
      own == Arg(a, 1) \in {"0xA0", "0xA2"}
      raw == Step(IF write THEN "raw_write" ELSE "raw_read", LOWER_MON, "keep", Arg(a, 1)) IN
  IF Len(a) < (IF write THEN 4 ELSE 3) THEN Failed
  ELSE IF direct THEN <<raw>>
  ELSE IF own THEN <<Step("raw_read", LOWER_MON, "drop", "0xA0"), raw>>
  ELSE Select(4, "return") \o <<Step("pass", SFP_DBG_CMD, "keep", 0)>>

prvDispConfigModConfig(a) == qsfp28_config_mod_console(Arg(a, 1) = "enable")

prvDispMsaDownloadConfig == ConsolePins(1) \o Set("SFRPAGE", "saved")

prvDispResetConfig(on) == Select(4, "return") \o <<Step("restart", SFP_DBG_CMD, on, 0)>>
prvDispRebootConfig == prvDispResetConfig("return") \o <<Step("reboot", SFP_DBG_CMD, "drop", 0)>>

\* set PIN value; the others of [get|set] print it.  Words other than "0" convert to 1.
Level(word) == IF word \in {"0", ""} THEN 0 ELSE 1

prvDispgsetResetConfig(a) ==
  Switch(Arg(a, 0), [set |-> Set("RESET", Level(Arg(a, 2))) \o Set("RESET", 1),
                     get |-> Nothing], Failed)

prvDispgsetResetLevelConfig(a) ==
  Switch(Arg(a, 0), [set |-> Set("RESET", Level(Arg(a, 2))), get |-> Nothing], Failed)

prvDispModselConfig(a) ==
  Switch(Arg(a, 0), [set |-> Set("MODSEL", Level(Arg(a, 2))), get |-> Nothing], Failed)

prvDispTestModselConfig(a) ==
  LET look(device) == <<Step("raw_read", LOWER_MON, "drop", device)>> IN
  IF Arg(a, 2) = "aborted"
  THEN Set("MODSEL", 1) \o look("0x16") \o Set("MODSEL", 0) \o look("0xA0")
  ELSE Set("MODSEL", Level(Arg(a, 2))) \o look("0xA0")

prvDispLpmodeConfig(a) ==
  Switch(Arg(a, 0), [set |-> Set("LPMODE", Level(Arg(a, 2))), get |-> Nothing], Failed)

prvDispLogConfig(a) ==
  IF Arg(a, 0) \in {"clear", "enable", "disable", "read"}
  THEN qsfp28_debug_log_handle(Arg(a, 0) = "read") ELSE Failed

prvDispSwverConfig(a) == Switch(Arg(a, 0), [get |-> qsfp28_get_mod_release_info], Nothing)

\* The boot status is read 20 times; one bit set in one of them returns false.
com_get_module_boot_status == <<Step("boot", MSA_BOOT_STATUS, "return", 0)>>

prvDispModStatusConfig(a) ==
  Switch(Arg(a, 0), [get |-> com_get_module_boot_status \o qsfp28_get_mod_release_info], Failed)

\* The values are printed from _lower_mon, whatever became of the read.
prvDispModuleConfig(a) ==
  qsfp28_get_msa_lower_page_monitor("drop")
  \o (IF Arg(a, 2) \in {"vcc", "temp", "bias", "txpower", "rxpower"} THEN Nothing ELSE Failed)

prvDispVendorPnConfig(a) == GetSet(Arg(a, 0), Vendor.PN)
prvDispVendorRevConfig(a) == GetSet(Arg(a, 0), Vendor.REV)
prvDispVendorSnConfig(a) == GetSet(Arg(a, 0), Vendor.SN)
prvDispDateCodeConfig(a) == GetSet(Arg(a, 0), Vendor.DATA_CODE)
prvDispSuperCodeConfig(a) == GetSet(Arg(a, 0), Vendor.SUPERCODE)
prvDispPcbaSnConfig(a) == GetSet(Arg(a, 0), Vendor.PCBA_SN)
prvDispPcbaCodeConfig(a) == GetSet(Arg(a, 0), Vendor.PCBA_CODE)
cli_laser_tx_sn_cmd(a) == GetSet(Arg(a, 0), Vendor.LASER_TX_SN)
cli_laser_rx_sn_cmd(a) == GetSet(Arg(a, 0), Vendor.LASER_RX_SN)
cli_pic_code_cmd(a) == GetSet(Arg(a, 0), Vendor.PICCODE)
cli_hw_ver_cmd(a) == GetSet(Arg(a, 0), Vendor.HW_VER)

\* Two bytes: the type and the one behind it.
cli_module_type_cmd(a) == GetSet(Arg(a, 0), Reg(5, Vendor.MODULE_TYPE.at, 2))

prvDispBondingConfig == qsfp28_msa_page4_dbg_cmd
prvDispFactoryResetConfig == qsfp28_msa_page4_dbg_cmd

\* The thresholds of the received light.  darka and darkd know "all".
OneChannel(a, addr) ==
  LET c == qsfp28_get_channel(Arg(a, 1)) IN
  IF c \in Channels THEN GetSet(Arg(a, 0), addr[c]) ELSE Failed

losa_addr == [c \in Channels |-> Losa(c)]
losd_addr == [c \in Channels |-> Losd(c)]

cli_rx_losa_cmd(a) == OneChannel(a, losa_addr)

cli_rx_losd_cmd(a) ==
  IF Arg(a, 1) = "all" THEN Nothing ELSE OneChannel(a, losd_addr)

EachChannel(a, addr) ==
  IF qsfp28_get_channel(Arg(a, 1)) # ALL THEN OneChannel(a, addr)
  ELSE Switch(Arg(a, 0),
         [set |-> Loop(AllChannels, LAMBDA c : smb_write_page_byte(addr[c], "return")),
          get |-> Loop(AllChannels, LAMBDA c : smb_read_page_byte(addr[c], "return"))], Failed)

cli_rssi_darka_cmd(a) == EachChannel(a, [c \in Channels |-> Darka(c)])
cli_rssi_darkd_cmd(a) == EachChannel(a, [c \in Channels |-> Darkd(c)])

\* The lanes whose lasers are turned, and to what.
cli_tx_config_laser(c, enable) ==
  LET lanes == IF c = ALL THEN Channels ELSE {c} \cap Channels IN
  Read(MSA_TX_ENABLE, "drop")
  \o <<Step("write", MSA_TX_ENABLE, "keep", [lanes |-> lanes, enable |-> enable])>>

cli_tx_get_laser_status(c) ==
  IF c = ALL THEN Loop(AllChannels, LAMBDA i : Read(MSA_TX_ENABLE, "return"))
  ELSE Read(MSA_TX_ENABLE, "return")

cli_tx_laser_cmd(a) ==
  LET c == qsfp28_get_channel(Arg(a, 1)) IN
  Switch(Arg(a, 0),
    [set |-> Switch(Arg(a, 3), [enable |-> cli_tx_config_laser(c, TRUE),
                                disable |-> cli_tx_config_laser(c, FALSE)], Nothing),
     get |-> cli_tx_get_laser_status(c)], Nothing)

cli_set_lut_tab(a, type) ==
  LET c == qsfp28_get_channel(Arg(a, 1)) IN
  IF c \notin Channels THEN Failed
  ELSE Switch(Arg(a, 0),
         [set |-> IF Arg(a, 3) = "now" THEN qsfp28_set_lut_tab_para_from_reg_inner
                  ELSE qsfp28_set_lut_tab(c, type),
          get |-> qsfp28_get_lut_tab(c, type, "return")], Failed)

\* Twelve calls; the result is that of the last.
cli_get_all_lut_tab ==
  Loop(AllChannels, LAMBDA c : Loop(<<"lt", "rt", "ht">>, LAMBDA type :
    qsfp28_get_lut_tab(c, type, "leave") \o End("keep")))

prvDispLutConfig(a) ==
  IF Arg(a, 2) \in {"lt", "rt", "ht"} THEN cli_set_lut_tab(a, Arg(a, 2))
  ELSE Switch(Arg(a, 2), [lut |-> cli_get_all_lut_tab], Failed)

prvDispLuttabConfig(a) ==
  LET c == qsfp28_get_channel(Arg(a, 1)) IN
  IF Arg(a, 0) # "get" THEN Nothing
  ELSE Switch(Arg(a, 2), [cur |-> qsfp28_get_cur_apc_value(c)],
              qsfp28_get_fixed_temp_point_apc_value(c, "return"))

\* Calibration.  A value out of range is refused; bias and power are not checked for
\* transmission.
FAR == "1000"
InRange(word) == word # FAR

CaliOffset(a, type) ==
  Switch(Arg(a, 0), [set |-> IF InRange(Arg(a, 3)) THEN qsfp28_set_ddmi_cali_para(type, 0, "keep")
                             ELSE Failed,
                     get |-> qsfp28_get_ddmi_cali_para(type, 0)], Failed)

CaliBias(a, c) ==
  LET cs == IF c = ALL THEN AllChannels ELSE <<c>> IN
  Switch(Arg(a, 0),
    [set |-> Loop(cs, LAMBDA i : qsfp28_set_ddmi_cali_para("bias", i, "return")),
     get |-> Loop(cs, LAMBDA i : qsfp28_get_ddmi_cali_para("bias", i))], Failed)

CaliTxpwr(a, c) ==
  Switch(Arg(a, 0), [set |-> qsfp28_set_ddmi_cali_para("txpower", c, "keep"),
                     get |-> qsfp28_get_ddmi_cali_para("txpower", c)], Failed)

CaliRxpwr(a, c) ==
  Switch(Arg(a, 0), [set |-> IF InRange(Arg(a, 4)) /\ InRange(Arg(a, 6))
                             THEN qsfp28_set_ddmi_cali_para("rxpower", c, "keep") ELSE Failed,
                     get |-> qsfp28_get_ddmi_cali_para("rxpower", c)], Failed)

cli_ddmi_cali(a) ==
  LET c == qsfp28_get_channel(Arg(a, 2)) IN
  IF Arg(a, 2) \in {"temp_offset", "vcc_offset"}
  THEN CaliOffset(a, IF Arg(a, 2) = "temp_offset" THEN "temp" ELSE "vcc")
  ELSE IF c = \hFF THEN Failed
  ELSE Switch(Arg(a, 3), [bias_offset |-> CaliBias(a, c)],
         IF c = ALL THEN Failed    \* not in the patterns
         ELSE Switch(Arg(a, 3), [txpwr |-> CaliTxpwr(a, c), rxpwr |-> CaliRxpwr(a, c)], Failed))

Digit(word) == Switch(word, ("0" :> 0 @@ "1" :> 1 @@ "2" :> 2 @@ "3" :> 3), 0)

cli_ddmi_cmd(a) ==
  LET c == Digit(Arg(a, 3)) IN
  Switch(Arg(a, 2), [vcc |-> qsfp28_get_ddmi_vcc, temp |-> qsfp28_get_ddmi_temp,
                     bias |-> qsfp28_get_ddmi_bias(c), txmon |-> qsfp28_get_ddmi_txmon(c),
                     rssi |-> qsfp28_get_ddmi_rssi(c)], Failed)

ThresholdNames ==
  [temp_high_alarm |-> 0, temp_low_alarm |-> 1, temp_high_warn |-> 2, temp_low_warn |-> 3,
   vcc_high_alarm |-> 4, vcc_low_alarm |-> 5, vcc_high_warn |-> 6, vcc_low_warn |-> 7,
   rxpwr_high_alarm |-> 8, rxpwr_low_alarm |-> 9, rxpwr_high_warn |-> 10, rxpwr_low_warn |-> 11,
   bias_high_alarm |-> 12, bias_low_alarm |-> 13, bias_high_warn |-> 14, bias_low_warn |-> 15,
   txpwr_high_alarm |-> 16, txpwr_low_alarm |-> 17, txpwr_high_warn |-> 18, txpwr_low_warn |-> 19]

cli_thrhld_cmd(a) ==
  IF Arg(a, 2) \notin DOMAIN ThresholdNames THEN Failed    \* not in the patterns
  ELSE LET type == ThresholdNames[Arg(a, 2)] IN
       Switch(Arg(a, 0), [set |-> qsfp28_set_thrhld_value(type),
                          get |-> qsfp28_get_each_thrhld_value(type)], Nothing)

cli_module_class_cmd(a) ==
  Switch(Arg(a, 0), [get |-> qsfp28_get_module_class, set |-> qsfp28_set_module_class], Failed)

cli_get_mod_boot_reason_cmd(a) ==
  Switch(Arg(a, 0), [get |-> Select(4, "return") \o Read(SFP_MOD_BOOT_REASON, "keep")], Failed)

prvDispTxcdrRxcdrI2cEnableConfig(a) ==
  IF Arg(a, 0) \in {"txcdr", "rxcdr"} THEN qsfp28_msa_page4_dbg_cmd ELSE Failed

prvDispAutoAbleConfig(a) == qsfp28_msa_page4_dbg_cmd
prvDispDdmiAbleConfig(a) == qsfp28_msa_page4_dbg_cmd
prvDispAgingConfig(a) == qsfp28_msa_page4_dbg_cmd

\* Timers are left out: the handler starts or stops one.
TimerOnly(word, words) == IF word \in words THEN Nothing ELSE Failed

prvDispConfigRssiConfig(a) == TimerOnly(Arg(a, 1), {"show", "stop"})
prvIntlOutputConfig(a) == TimerOnly(Arg(a, 2), {"enable", "disable"})

M37049_tx_cdr_prbs_cmd(a) == IF qsfp28_get_channel(Arg(a, 1)) = \hFF THEN Failed ELSE Nothing
M37046_rx_cdr_prbs_pn_normal_cmd(a) == Failed
M37046_rx_cdr_prbs_pn_inverse_cmd(a) == M37049_tx_cdr_prbs_cmd(a)

=============================================================================
