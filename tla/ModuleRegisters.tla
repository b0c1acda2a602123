--------------------------- MODULE ModuleRegisters ---------------------------
(***************************************************************************)
(* The registers of the optical module, Efm8lb12_qsfp28.h.  Addresses 0 to *)
(* 127 are the lower page, which is always there; 128 to 255 show the page *)
(* that was selected last.  The header names an address and, in a comment, *)
(* the page; a register here is the page, the address and the length.      *)
(***************************************************************************)
EXTENDS Naturals

LOWER == \hFE       \* MSA_PAGE_LOWER
NONE_PAGE == \hB    \* SFP_NONE_PAGE: pages are smaller
Channels == 0..3    \* CHANNEL0 .. CHANNEL_MAX - 1

Reg(page, at, len) == [page |-> page, at |-> at, len |-> len]

Overlap(r, s) == r.page = s.page /\ r.at < s.at + s.len /\ s.at < r.at + r.len

----------------------------------------------------------------------------
(* The lower page.                                                         *)

MSA_BOOT_STATUS == Reg(LOWER, \h2, 1)
MSA_TX_ENABLE == Reg(LOWER, 86, 1)
SFP_PAGE_SELECT == Reg(LOWER, \h7F, 1)
LOWER_MON == Reg(LOWER, 22, 36)    \* MSA_PAGE_LOWER_MON_T

----------------------------------------------------------------------------
(* Page 0 and page 5: what the vendor writes.  Page 2: the log.            *)

Vendor ==
  [PN |-> Reg(0, \hA8, 16), REV |-> Reg(0, \hB8, 2), SN |-> Reg(0, \hC4, 16),
   DATA_CODE |-> Reg(0, \hD4, 8), MODULE_CLASS |-> Reg(5, \hDE, 1),
   MODULE_TYPE |-> Reg(5, \h80, 1), SUB_TYPE |-> Reg(5, \h81, 1), HW_VER |-> Reg(5, \h82, 1),
   PCBA_CODE |-> Reg(5, \h83, 16), LASER_TX_SN |-> Reg(5, \h93, 16),
   LASER_RX_SN |-> Reg(5, \hA3, 16), PCBA_SN |-> Reg(5, \hB3, 16),
   SUPERCODE |-> Reg(5, \hC3, 9), PICCODE |-> Reg(5, \hCC, 18),
   EEP_DATA_SIZE |-> Reg(5, \hE1, 1)]

DEBUG_LOG == Reg(2, \h80, 128)

----------------------------------------------------------------------------
(* Page 3: thresholds.  MSA_PAGE3_ALARM_WARING_THRESHOLD_T counts them: temperature, *)
(* voltage, received power, bias, transmitted power, each with four bounds.  *)

Thresholds == 0..19

Threshold(type) == Reg(3, <<\h80, \h90, \hB0, \hB8, \hC0>>[type \div 4 + 1] + 2 * (type % 4), 2)

----------------------------------------------------------------------------
(* A table of measured values and laser settings: the temperature, the     *)
(* voltage and six values for each channel.  Page 4 has the present ones,  *)
(* pages 6 and 7 those of the three look-up temperatures.                  *)

Values(page, base) ==
  LET value(c, k) == Reg(page, base + 4 + 12 * c + 2 * k, 2) IN
  [temp |-> Reg(page, base, 2), vcc |-> Reg(page, base + 2, 2),
   ibias |-> [c \in Channels |-> value(c, 0)], rxpower |-> [c \in Channels |-> value(c, 1)],
   txpower |-> [c \in Channels |-> value(c, 2)], bias |-> [c \in Channels |-> value(c, 3)],
   mod |-> [c \in Channels |-> value(c, 4)], crossing |-> [c \in Channels |-> value(c, 5)]]

DDMI == Values(4, \h80)
LUT_LT == Values(6, \h80)
LUT_MT == Values(6, \hB4)
LUT_HT == Values(7, \h80)

\* A channel's laser settings in a look-up table: bias, modulation and crossing.
LaserCfg(table, c) == Reg(table.bias[c].page, table.bias[c].at, 6)

----------------------------------------------------------------------------
(* Page 4: the command mailbox and the module's state.                     *)

SFP_MOD_BOOT_REASON == Reg(4, \hBD, 1)
SFP_DBG_CMD == Reg(4, \hDB, 1)
DbgData(i, len) == Reg(4, \hE0 + i, len)      \* SFP_DBG_READ_DATA0 ..
SFP_MOD_SECUR_LEVEL_STATUS == Reg(4, \hF0, 1)
SFP_MOD_REA_SEC == Reg(4, \hF3, 8)            \* MODULE_REALEASE_INFO

----------------------------------------------------------------------------
(* The pass-through's mailbox, on the page it was given: the command, its  *)
(* CONFIG_STRUCT_T and the data, of which a line has words for 16 bytes.   *)

DEBUG_CMD_START_ADDR == \hDA
DebugCmd(page) == Reg(page, DEBUG_CMD_START_ADDR, 6 + 16)

----------------------------------------------------------------------------
(* Pages 6 and 7: calibration of the measured values.  Page 8: thresholds  *)
(* of the received light.  Page 10: saved registers.                       *)

CaliTemp == Reg(6, \hE8, 2)
CaliVcc == Reg(6, \hEA, 2)

\* BIAS_CALI_PARA_T, RXPOWER_CALI_PARA_T and TXPOWER_CALI_PARA_T of a channel.
Cali(c) ==
  LET page == IF c = 0 THEN 6 ELSE 7
      base == <<\hEC, \hB4, \hC8, \hDC>>[c + 1] IN
  [bias |-> Reg(page, base, 4), rxpower |-> Reg(page, base + 4, 8),
   txpower |-> Reg(page, base + 12, 8)]

RX_LOS_MODE == Reg(8, \h80, 1)
Losa(c) == Reg(8, \h81 + 4 * c, 2)
Losd(c) == Reg(8, \h83 + 4 * c, 2)
Darka(c) == Reg(8, \h91 + 4 * c, 2)
Darkd(c) == Reg(8, \h93 + 4 * c, 2)

Saved(i) == Reg(10, \h80 + 4 * i, 4)          \* SAVE_REG_T

----------------------------------------------------------------------------
\* The registers that hold what somebody set.
Parameters ==
  {Vendor[n] : n \in DOMAIN Vendor} \cup {Threshold(t) : t \in Thresholds}
  \cup UNION {{table.temp} \cup {LaserCfg(table, c) : c \in Channels}
                : table \in {LUT_LT, LUT_MT, LUT_HT}}
  \cup {CaliTemp, CaliVcc, RX_LOS_MODE, MSA_TX_ENABLE}
  \cup UNION {{Cali(c).bias, Cali(c).rxpower, Cali(c).txpower,
               Losa(c), Losd(c), Darka(c), Darkd(c)} : c \in Channels}

\* No two of them share a byte, and each ends on the page it begins on.  The header
\* gives every address by hand, for up to 50 registers on a page.
ASSUME RegisterMapAssumption ==
  /\ \A r \in Parameters : r.at + r.len <= IF r.page = LOWER THEN \h80 ELSE \h100
  /\ \A r, s \in Parameters : r # s => ~ Overlap(r, s)

\* Where the writes that belong to no parameter meet one, on a page not meant for them.
ASSUME StrayWritesAssumption ==
  \A r \in Parameters :
    /\ ~ Overlap(SFP_PAGE_SELECT, r)
    /\ \A page \in 0..NONE_PAGE - 1 :
         Overlap(Reg(page, SFP_MOD_SECUR_LEVEL_STATUS.at, 1), r)
           => page = 6 /\ r = Cali(0).rxpower
    /\ \A page \in {0, 4} : Overlap(DebugCmd(page), r) => page = 0 /\ r = Vendor.DATA_CODE

=============================================================================
