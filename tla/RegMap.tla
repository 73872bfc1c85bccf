------------------------------- MODULE RegMap -------------------------------
(***************************************************************************)
(* The register map the bench reads and writes (common/reg_map.py): each   *)
(* register with its address, each field with the position of its lowest   *)
(* bit, its mask as a set of bit positions, its access class, whether the  *)
(* hardware writes it too, and the bits that are one out of reset.         *)
(* Access: "r", "w", "rw"; "w1c" (woclr); "rclr"; "hwclr".                 *)
(***************************************************************************)
EXTENDS Integers, FiniteSets

Field(name, low, mask, access, hw, reset) ==
  [name |-> name, low |-> low, mask |-> mask, access |-> access, hw |-> hw, reset |-> reset]

\* A field of bits lo..hi that resets to zero; one that resets to reset; one of
\* a table entry wider than a word, whose mask is that of the word it falls in.
F(name, lo, hi, access, hw) == Field(name, lo, lo .. hi, access, hw, {})
Z(name, lo, hi, access, hw, reset) == Field(name, lo, lo .. hi, access, hw, reset)
M(name, low, lo, hi, access, hw) == Field(name, low, lo .. hi, access, hw, {})

Reg(name, addr, fields) == [name |-> name, addr |-> addr, fields |-> fields]

I3CBase1 == {
  Reg("HCI_VERSION", 0, {Z("VERSION", 0, 31, "r", FALSE, {5, 8})}),
  Reg("HC_CONTROL", 4, {
    F("IBA_INCLUDE", 0, 0, "rw", FALSE), F("AUTOCMD_DATA_RPT", 3, 3, "r", FALSE),
    F("DATA_BYTE_ORDER_MODE", 4, 4, "r", FALSE), Z("MODE_SELECTOR", 6, 6, "r", FALSE, {6}),
    F("I2C_DEV_PRESENT", 7, 7, "rw", FALSE), F("HOT_JOIN_CTRL", 8, 8, "rw", FALSE),
    F("HALT_ON_CMD_SEQ_TIMEOUT", 12, 12, "rw", FALSE), F("ABORT", 29, 29, "rw", FALSE),
    F("RESUME", 30, 30, "w1c", TRUE), F("BUS_ENABLE", 31, 31, "rw", TRUE)}),
  Reg("CONTROLLER_DEVICE_ADDR", 8, {
    F("DYNAMIC_ADDR", 16, 22, "rw", TRUE), F("DYNAMIC_ADDR_VALID", 31, 31, "rw", TRUE)})}

I3CBase2 == {
  Reg("HC_CAPABILITIES", 12, {
    F("COMBO_COMMAND", 2, 2, "r", FALSE), F("AUTO_COMMAND", 3, 3, "r", FALSE),
    F("STANDBY_CR_CAP", 5, 5, "r", FALSE), F("HDR_DDR_EN", 6, 6, "r", FALSE), F("HDR_TS_EN", 7, 7, "r", FALSE),
    Z("CMD_CCC_DEFBYTE", 10, 10, "r", FALSE, {10}), F("IBI_DATA_ABORT_EN", 11, 11, "r", FALSE),
    F("IBI_CREDIT_COUNT_EN", 12, 12, "r", FALSE), F("SCHEDULED_COMMANDS_EN", 13, 13, "r", FALSE),
    F("CMD_SIZE", 20, 21, "r", FALSE), F("SG_CAPABILITY_CR_EN", 28, 28, "r", FALSE),
    F("SG_CAPABILITY_IBI_EN", 29, 29, "r", FALSE), F("SG_CAPABILITY_DC_EN", 30, 30, "r", FALSE)})}

I3CBase3 == {
  Reg("RESET_CONTROL", 16, {
    F("SOFT_RST", 0, 0, "rw", TRUE), F("CMD_QUEUE_RST", 1, 1, "rw", TRUE),
    F("RESP_QUEUE_RST", 2, 2, "rw", TRUE), F("TX_FIFO_RST", 3, 3, "rw", TRUE),
    F("RX_FIFO_RST", 4, 4, "rw", TRUE), F("IBI_QUEUE_RST", 5, 5, "rw", TRUE)}),
  Reg("PRESENT_STATE", 20, {F("AC_CURRENT_OWN", 2, 2, "r", TRUE)}),
  Reg("INTR_STATUS", 32, {
    F("HC_INTERNAL_ERR_STAT", 10, 10, "w1c", TRUE), F("HC_SEQ_CANCEL_STAT", 11, 11, "w1c", TRUE),
    F("HC_WARN_CMD_SEQ_STALL_STAT", 12, 12, "w1c", TRUE), F("HC_ERR_CMD_SEQ_TIMEOUT_STAT", 13, 13, "w1c", TRUE),
    F("SCHED_CMD_MISSED_TICK_STAT", 14, 14, "w1c", TRUE)})}

I3CBase4 == {
  Reg("INTR_STATUS_ENABLE", 36, {
    F("HC_INTERNAL_ERR_STAT_EN", 10, 10, "rw", FALSE), F("HC_SEQ_CANCEL_STAT_EN", 11, 11, "rw", FALSE),
    F("HC_WARN_CMD_SEQ_STALL_STAT_EN", 12, 12, "rw", FALSE),
    F("HC_ERR_CMD_SEQ_TIMEOUT_STAT_EN", 13, 13, "rw", FALSE),
    F("SCHED_CMD_MISSED_TICK_STAT_EN", 14, 14, "rw", FALSE)}),
  Reg("INTR_SIGNAL_ENABLE", 40, {
    F("HC_INTERNAL_ERR_SIGNAL_EN", 10, 10, "rw", FALSE), F("HC_SEQ_CANCEL_SIGNAL_EN", 11, 11, "rw", FALSE),
    F("HC_WARN_CMD_SEQ_STALL_SIGNAL_EN", 12, 12, "rw", FALSE),
    F("HC_ERR_CMD_SEQ_TIMEOUT_SIGNAL_EN", 13, 13, "rw", FALSE),
    F("SCHED_CMD_MISSED_TICK_SIGNAL_EN", 14, 14, "rw", FALSE)})}

I3CBase5 == {
  Reg("INTR_FORCE", 44, {
    F("HC_INTERNAL_ERR_FORCE", 10, 10, "w", FALSE), F("HC_SEQ_CANCEL_FORCE", 11, 11, "w", FALSE),
    F("HC_WARN_CMD_SEQ_STALL_FORCE", 12, 12, "w", FALSE), F("HC_ERR_CMD_SEQ_TIMEOUT_FORCE", 13, 13, "w", FALSE),
    F("SCHED_CMD_MISSED_TICK_FORCE", 14, 14, "w", FALSE)}),
  Reg("DAT_SECTION_OFFSET", 48, {
    Z("TABLE_OFFSET", 0, 11, "r", FALSE, {10}),
    Z("TABLE_SIZE", 12, 18, "r", FALSE, {12, 13, 14, 15, 16, 17, 18}), F("ENTRY_SIZE", 28, 31, "r", FALSE)}),
  Reg("DCT_SECTION_OFFSET", 52, {
    Z("TABLE_OFFSET", 0, 11, "r", FALSE, {11}),
    Z("TABLE_SIZE", 12, 18, "r", FALSE, {12, 13, 14, 15, 16, 17, 18}), F("TABLE_INDEX", 19, 23, "rw", TRUE),
    F("ENTRY_SIZE", 28, 31, "r", FALSE)}),
  Reg("RING_HEADERS_SECTION_OFFSET", 56, {F("SECTION_OFFSET", 0, 15, "r", FALSE)})}

I3CBase6 == {
  Reg("PIO_SECTION_OFFSET", 60, {Z("SECTION_OFFSET", 0, 15, "r", FALSE, {7})}),
  Reg("EXT_CAPS_SECTION_OFFSET", 64, {Z("SECTION_OFFSET", 0, 15, "r", FALSE, {8})}),
  Reg("INT_CTRL_CMDS_EN", 76, {
    Z("ICC_SUPPORT", 0, 0, "r", FALSE, {0}), Z("MIPI_CMDS_SUPPORTED", 1, 15, "r", FALSE, {1, 3, 5, 6})}),
  Reg("IBI_NOTIFY_CTRL", 88, {
    F("NOTIFY_HJ_REJECTED", 0, 0, "rw", FALSE), F("NOTIFY_CRR_REJECTED", 1, 1, "rw", FALSE),
    F("NOTIFY_IBI_REJECTED", 3, 3, "rw", FALSE)}),
  Reg("IBI_DATA_ABORT_CTRL", 92, {
    F("MATCH_IBI_ID", 8, 15, "rw", FALSE), F("AFTER_N_CHUNKS", 16, 17, "rw", FALSE),
    F("MATCH_STATUS_TYPE", 18, 20, "rw", FALSE), F("IBI_DATA_ABORT_MON", 31, 31, "rw", TRUE)}),
  Reg("DEV_CTX_BASE_LO", 96, {F("BASE_LO", 0, 0, "rw", FALSE)})}

I3CBase7 == {
  Reg("DEV_CTX_BASE_HI", 100, {F("BASE_HI", 0, 0, "rw", FALSE)}),
  Reg("DEV_CTX_SG", 104, {F("LIST_SIZE", 0, 15, "r", FALSE), F("BLP", 31, 31, "r", FALSE)})}

PioControl1 == {
  Reg("COMMAND_PORT", 128, {F("COMMAND_DATA", 0, 31, "w", FALSE)}),
  Reg("RESPONSE_PORT", 132, {F("RESPONSE_DATA", 0, 31, "r", TRUE)}),
  Reg("TX_DATA_PORT", 136, {F("TX_DATA", 0, 31, "w", FALSE)}),
  Reg("RX_DATA_PORT", 136, {F("RX_DATA", 0, 31, "r", TRUE)}),
  Reg("IBI_PORT", 140, {F("IBI_DATA", 0, 31, "r", TRUE)}),
  Reg("QUEUE_THLD_CTRL", 144, {
    Z("CMD_EMPTY_BUF_THLD", 0, 7, "rw", TRUE, {0}), Z("RESP_BUF_THLD", 8, 15, "rw", TRUE, {8}),
    Z("IBI_DATA_SEGMENT_SIZE", 16, 23, "rw", FALSE, {16}), Z("IBI_STATUS_THLD", 24, 31, "rw", FALSE, {24})})}

PioControl2 == {
  Reg("DATA_BUFFER_THLD_CTRL", 148, {
    Z("TX_BUF_THLD", 0, 2, "rw", FALSE, {0}), Z("RX_BUF_THLD", 8, 10, "rw", FALSE, {8}),
    Z("TX_START_THLD", 16, 18, "rw", FALSE, {16}), Z("RX_START_THLD", 24, 26, "rw", FALSE, {24})}),
  Reg("QUEUE_SIZE", 152, {
    Z("CR_QUEUE_SIZE", 0, 7, "r", FALSE, {6}), Z("IBI_STATUS_SIZE", 8, 15, "r", FALSE, {14}),
    Z("RX_DATA_BUFFER_SIZE", 16, 23, "r", FALSE, {16, 18}),
    Z("TX_DATA_BUFFER_SIZE", 24, 31, "r", FALSE, {24, 26})}),
  Reg("ALT_QUEUE_SIZE", 156, {
    Z("ALT_RESP_QUEUE_SIZE", 0, 7, "r", FALSE, {6}), F("ALT_RESP_QUEUE_EN", 24, 24, "r", FALSE),
    F("EXT_IBI_QUEUE_EN", 28, 28, "r", FALSE)})}

PioControl3 == {
  Reg("PIO_INTR_STATUS", 160, {
    F("TX_THLD_STAT", 0, 0, "r", TRUE), F("RX_THLD_STAT", 1, 1, "r", TRUE),
    F("IBI_STATUS_THLD_STAT", 2, 2, "r", TRUE), F("CMD_QUEUE_READY_STAT", 3, 3, "r", TRUE),
    F("RESP_READY_STAT", 4, 4, "r", TRUE), F("TRANSFER_ABORT_STAT", 5, 5, "w1c", TRUE),
    F("TRANSFER_ERR_STAT", 9, 9, "w1c", TRUE)}),
  Reg("PIO_INTR_STATUS_ENABLE", 164, {
    F("TX_THLD_STAT_EN", 0, 0, "rw", FALSE), F("RX_THLD_STAT_EN", 1, 1, "rw", FALSE),
    F("IBI_STATUS_THLD_STAT_EN", 2, 2, "rw", FALSE), F("CMD_QUEUE_READY_STAT_EN", 3, 3, "rw", FALSE),
    F("RESP_READY_STAT_EN", 4, 4, "rw", FALSE), F("TRANSFER_ABORT_STAT_EN", 5, 5, "rw", FALSE),
    F("TRANSFER_ERR_STAT_EN", 9, 9, "rw", FALSE)})}

PioControl4 == {
  Reg("PIO_INTR_SIGNAL_ENABLE", 168, {
    F("TX_THLD_SIGNAL_EN", 0, 0, "rw", FALSE), F("RX_THLD_SIGNAL_EN", 1, 1, "rw", FALSE),
    F("IBI_STATUS_THLD_SIGNAL_EN", 2, 2, "rw", FALSE), F("CMD_QUEUE_READY_SIGNAL_EN", 3, 3, "rw", FALSE),
    F("RESP_READY_SIGNAL_EN", 4, 4, "rw", FALSE), F("TRANSFER_ABORT_SIGNAL_EN", 5, 5, "rw", FALSE),
    F("TRANSFER_ERR_SIGNAL_EN", 9, 9, "rw", FALSE)}),
  Reg("PIO_INTR_FORCE", 172, {
    F("TX_THLD_FORCE", 0, 0, "w", FALSE), F("RX_THLD_FORCE", 1, 1, "w", FALSE),
    F("IBI_THLD_FORCE", 2, 2, "w", FALSE), F("CMD_QUEUE_READY_FORCE", 3, 3, "w", FALSE),
    F("RESP_READY_FORCE", 4, 4, "w", FALSE), F("TRANSFER_ABORT_FORCE", 5, 5, "w", FALSE),
    F("TRANSFER_ERR_FORCE", 9, 9, "w", FALSE)})}

PioControl5 == {
  Reg("PIO_CONTROL", 176, {
    Z("ENABLE", 0, 0, "rw", FALSE, {0}), F("RS", 1, 1, "rw", FALSE), F("ABORT", 2, 2, "rw", FALSE)})}

Recovery1 == {
  Reg("EXTCAP_HEADER", 256, {Z("CAP_ID", 0, 7, "r", FALSE, {6, 7}), Z("CAP_LENGTH", 8, 23, "r", FALSE, {13})}),
  Reg("PROT_CAP_0", 260, {Z("REC_MAGIC_STRING_0", 0, 31, "r", FALSE, {0, 1, 2, 3, 6, 8, 9, 14, 20, 22, 29})}),
  Reg("PROT_CAP_1", 264, {
    Z("REC_MAGIC_STRING_1", 0, 31, "r", FALSE, {1, 4, 6, 8, 10, 14, 16, 17, 22, 25, 26, 28, 30})}),
  Reg("PROT_CAP_2", 268, {F("REC_PROT_VERSION", 0, 15, "rw", TRUE), F("AGENT_CAPS", 16, 31, "rw", TRUE)}),
  Reg("PROT_CAP_3", 272, {
    F("NUM_OF_CMS_REGIONS", 0, 7, "rw", TRUE), F("MAX_RESP_TIME", 8, 15, "rw", TRUE),
    F("HEARTBEAT_PERIOD", 16, 23, "rw", TRUE)}),
  Reg("DEVICE_ID_0", 276, {
    F("DESC_TYPE", 0, 7, "rw", TRUE), F("VENDOR_SPECIFIC_STR_LENGTH", 8, 15, "rw", TRUE),
    F("DATA", 16, 31, "rw", TRUE)})}

Recovery2 == {
  Reg("DEVICE_ID_1", 280, {F("DATA", 0, 31, "rw", TRUE)}),
  Reg("DEVICE_ID_2", 284, {F("DATA", 0, 31, "rw", TRUE)}),
  Reg("DEVICE_ID_3", 288, {F("DATA", 0, 31, "rw", TRUE)}),
  Reg("DEVICE_ID_4", 292, {F("DATA", 0, 31, "rw", TRUE)}),
  Reg("DEVICE_ID_5", 296, {F("DATA", 0, 31, "rw", TRUE)}),
  Reg("DEVICE_ID_RESERVED", 300, {F("DATA", 0, 31, "r", FALSE)}),
  Reg("DEVICE_STATUS_0", 304, {
    F("DEV_STATUS", 0, 7, "rw", TRUE), F("PROT_ERROR", 8, 15, "rclr", TRUE),
    F("REC_REASON_CODE", 16, 31, "rw", TRUE)})}

Recovery3 == {
  Reg("DEVICE_STATUS_1", 308, {
    F("HEARTBEAT", 0, 15, "rw", TRUE), F("VENDOR_STATUS_LENGTH", 16, 24, "rw", TRUE),
    F("VENDOR_STATUS", 25, 31, "rw", TRUE)}),
  Reg("DEVICE_RESET", 312, {
    F("RESET_CTRL", 0, 7, "w1c", TRUE), F("FORCED_RECOVERY", 8, 15, "rw", TRUE),
    F("IF_CTRL", 16, 23, "rw", TRUE)}),
  Reg("RECOVERY_CTRL", 316, {
    F("CMS", 0, 7, "rw", TRUE), F("REC_IMG_SEL", 8, 15, "rw", TRUE), F("ACTIVATE_REC_IMG", 16, 23, "w1c", TRUE)}),
  Reg("RECOVERY_STATUS", 320, {
    F("DEV_REC_STATUS", 0, 3, "rw", TRUE), F("REC_IMG_INDEX", 4, 7, "rw", TRUE),
    F("VENDOR_SPECIFIC_STATUS", 8, 15, "rw", TRUE)})}

Recovery4 == {
  Reg("HW_STATUS", 324, {
    F("TEMP_CRITICAL", 0, 0, "rw", TRUE), F("SOFT_ERR", 1, 1, "rw", TRUE), F("FATAL_ERR", 2, 2, "rw", TRUE),
    F("RESERVED_7_3", 3, 7, "rw", TRUE), F("VENDOR_HW_STATUS", 8, 15, "rw", TRUE),
    F("CTEMP", 16, 23, "rw", TRUE), F("VENDOR_HW_STATUS_LEN", 24, 31, "rw", TRUE)}),
  Reg("INDIRECT_FIFO_CTRL_0", 328, {F("CMS", 0, 7, "rw", TRUE), F("RESET", 8, 15, "hwclr", TRUE)}),
  Reg("INDIRECT_FIFO_CTRL_1", 332, {F("IMAGE_SIZE", 0, 31, "rw", TRUE)}),
  Reg("INDIRECT_FIFO_STATUS_0", 336, {
    Z("EMPTY", 0, 0, "r", TRUE, {0}), F("FULL", 1, 1, "r", TRUE), F("REGION_TYPE", 8, 10, "r", TRUE)})}

Recovery5 == {
  Reg("INDIRECT_FIFO_STATUS_1", 340, {F("WRITE_INDEX", 0, 31, "r", TRUE)}),
  Reg("INDIRECT_FIFO_STATUS_2", 344, {F("READ_INDEX", 0, 31, "r", TRUE)}),
  Reg("INDIRECT_FIFO_STATUS_3", 348, {Z("FIFO_SIZE", 0, 31, "r", TRUE, {6})}),
  Reg("INDIRECT_FIFO_STATUS_4", 352, {Z("MAX_TRANSFER_SIZE", 0, 31, "r", FALSE, {6})}),
  Reg("INDIRECT_FIFO_RESERVED", 356, {F("DATA", 0, 31, "r", TRUE)}),
  Reg("INDIRECT_FIFO_DATA", 360, {F("DATA", 0, 31, "r", TRUE)})}

Standby1 == {
  Reg("EXTCAP_HEADER", 384, {Z("CAP_ID", 0, 7, "r", FALSE, {1, 4}), Z("CAP_LENGTH", 8, 23, "r", FALSE, {13})})}

Standby2 == {
  Reg("STBY_CR_CONTROL", 388, {
    F("PENDING_RX_NACK", 0, 0, "rw", TRUE), F("HANDOFF_DELAY_NACK", 1, 1, "rw", TRUE),
    F("ACR_FSM_OP_SELECT", 2, 2, "rw", TRUE), F("PRIME_ACCEPT_GETACCCR", 3, 3, "rw", TRUE),
    F("HANDOFF_DEEP_SLEEP", 4, 4, "hwclr", TRUE), F("CR_REQUEST_SEND", 5, 5, "w", FALSE),
    F("BAST_CCC_IBI_RING", 8, 10, "rw", FALSE), Z("TARGET_XACT_ENABLE", 12, 12, "rw", TRUE, {12}),
    F("DAA_SETAASA_ENABLE", 13, 13, "rw", TRUE), F("DAA_SETDASA_ENABLE", 14, 14, "rw", TRUE),
    F("DAA_ENTDAA_ENABLE", 15, 15, "rw", TRUE), F("RSTACT_DEFBYTE_02", 20, 20, "rw", FALSE),
    F("STBY_CR_ENABLE_INIT", 30, 31, "rw", FALSE)})}

Standby3 == {
  Reg("STBY_CR_DEVICE_ADDR", 392, {
    F("STATIC_ADDR", 0, 6, "rw", TRUE), F("STATIC_ADDR_VALID", 15, 15, "rw", TRUE),
    F("DYNAMIC_ADDR", 16, 22, "rw", TRUE), F("DYNAMIC_ADDR_VALID", 31, 31, "rw", TRUE)}),
  Reg("STBY_CR_CAPABILITIES", 396, {
    F("SIMPLE_CRR_SUPPORT", 5, 5, "r", FALSE), Z("TARGET_XACT_SUPPORT", 12, 12, "r", FALSE, {12}),
    Z("DAA_SETAASA_SUPPORT", 13, 13, "r", FALSE, {13}), Z("DAA_SETDASA_SUPPORT", 14, 14, "r", FALSE, {14}),
    F("DAA_ENTDAA_SUPPORT", 15, 15, "r", FALSE)}),
  Reg("STBY_CR_VIRTUAL_DEVICE_CHAR", 400, {
    Z("PID_HI", 1, 15, "rw", FALSE, {1, 2, 3, 4, 5, 6, 7, 8, 9, 10, 11, 12, 13, 14, 15}),
    Z("DCR", 16, 23, "rw", FALSE, {16, 18, 19, 20, 21, 23}), Z("BCR_VAR", 24, 28, "rw", FALSE, {28}),
    Z("BCR_FIXED", 29, 31, "rw", FALSE, {29})})}

Standby4 == {
  Reg("STBY_CR_STATUS", 404, {
    F("AC_CURRENT_OWN", 2, 2, "rw", TRUE), F("SIMPLE_CRR_STATUS", 5, 7, "rw", TRUE),
    F("HJ_REQ_STATUS", 8, 8, "rw", TRUE)}),
  Reg("STBY_CR_DEVICE_CHAR", 408, {
    Z("PID_HI", 1, 15, "rw", FALSE, {1, 2, 3, 4, 5, 6, 7, 8, 9, 10, 11, 12, 13, 14, 15}),
    Z("DCR", 16, 23, "rw", FALSE, {16, 18, 19, 20, 21, 23}), Z("BCR_VAR", 24, 28, "rw", FALSE, {25, 26, 28}),
    Z("BCR_FIXED", 29, 31, "rw", FALSE, {29})}),
  Reg("STBY_CR_DEVICE_PID_LO", 412, {Z("PID_LO", 0, 31, "rw", FALSE, {0, 2, 5, 7, 17, 19, 20, 22})})}

Standby5 == {
  Reg("STBY_CR_INTR_STATUS", 416, {
    F("ACR_HANDOFF_OK_REMAIN_STAT", 0, 0, "rw", TRUE), F("ACR_HANDOFF_OK_PRIMED_STAT", 1, 1, "rw", TRUE),
    F("ACR_HANDOFF_ERR_FAIL_STAT", 2, 2, "rw", TRUE), F("ACR_HANDOFF_ERR_M3_STAT", 3, 3, "rw", TRUE),
    F("CRR_RESPONSE_STAT", 10, 10, "rw", TRUE), F("STBY_CR_DYN_ADDR_STAT", 11, 11, "rw", TRUE),
    F("STBY_CR_ACCEPT_NACKED_STAT", 12, 12, "rw", TRUE), F("STBY_CR_ACCEPT_OK_STAT", 13, 13, "rw", TRUE),
    F("STBY_CR_ACCEPT_ERR_STAT", 14, 14, "rw", TRUE), F("STBY_CR_OP_RSTACT_STAT", 16, 16, "rw", TRUE),
    F("CCC_PARAM_MODIFIED_STAT", 17, 17, "rw", TRUE), F("CCC_UNHANDLED_NACK_STAT", 18, 18, "rw", TRUE),
    F("CCC_FATAL_RSTDAA_ERR_STAT", 19, 19, "rw", TRUE)}),
  Reg("STBY_CR_VIRTUAL_DEVICE_PID_LO", 420, {Z("PID_LO", 0, 31, "rw", FALSE, {0, 2, 5, 7, 12, 17, 19, 20, 22})})}

Standby6 == {
  Reg("STBY_CR_INTR_SIGNAL_ENABLE", 424, {
    F("ACR_HANDOFF_OK_REMAIN_SIGNAL_EN", 0, 0, "rw", TRUE),
    F("ACR_HANDOFF_OK_PRIMED_SIGNAL_EN", 1, 1, "rw", TRUE),
    F("ACR_HANDOFF_ERR_FAIL_SIGNAL_EN", 2, 2, "rw", TRUE), F("ACR_HANDOFF_ERR_M3_SIGNAL_EN", 3, 3, "rw", TRUE),
    F("CRR_RESPONSE_SIGNAL_EN", 10, 10, "rw", TRUE), F("STBY_CR_DYN_ADDR_SIGNAL_EN", 11, 11, "rw", TRUE),
    F("STBY_CR_ACCEPT_NACKED_SIGNAL_EN", 12, 12, "rw", TRUE),
    F("STBY_CR_ACCEPT_OK_SIGNAL_EN", 13, 13, "rw", TRUE), F("STBY_CR_ACCEPT_ERR_SIGNAL_EN", 14, 14, "rw", TRUE),
    F("STBY_CR_OP_RSTACT_SIGNAL_EN", 16, 16, "rw", TRUE), F("CCC_PARAM_MODIFIED_SIGNAL_EN", 17, 17, "rw", TRUE),
    F("CCC_UNHANDLED_NACK_SIGNAL_EN", 18, 18, "rw", TRUE),
    F("CCC_FATAL_RSTDAA_ERR_SIGNAL_EN", 19, 19, "rw", TRUE)})}

Standby7 == {
  Reg("STBY_CR_INTR_FORCE", 428, {
    F("CRR_RESPONSE_FORCE", 10, 10, "rw", TRUE), F("STBY_CR_DYN_ADDR_FORCE", 11, 11, "rw", TRUE),
    F("STBY_CR_ACCEPT_NACKED_FORCE", 12, 12, "rw", TRUE), F("STBY_CR_ACCEPT_OK_FORCE", 13, 13, "rw", TRUE),
    F("STBY_CR_ACCEPT_ERR_FORCE", 14, 14, "rw", TRUE), F("STBY_CR_OP_RSTACT_FORCE", 16, 16, "w", TRUE),
    F("CCC_PARAM_MODIFIED_FORCE", 17, 17, "rw", TRUE), F("CCC_UNHANDLED_NACK_FORCE", 18, 18, "rw", TRUE),
    F("CCC_FATAL_RSTDAA_ERR_FORCE", 19, 19, "rw", TRUE)}),
  Reg("STBY_CR_CCC_CONFIG_GETCAPS", 432, {
    F("F2_CRCAP1_BUS_CONFIG", 0, 2, "rw", TRUE), F("F2_CRCAP2_DEV_INTERACT", 8, 11, "rw", TRUE)})}

Standby8 == {
  Reg("STBY_CR_CCC_CONFIG_RSTACT_PARAMS", 436, {
    Z("RST_ACTION", 0, 7, "r", TRUE, {0}), F("RESET_TIME_PERIPHERAL", 8, 15, "rw", TRUE),
    F("RESET_TIME_TARGET", 16, 23, "rw", TRUE), Z("RESET_DYNAMIC_ADDR", 31, 31, "rw", TRUE, {31})}),
  Reg("STBY_CR_VIRT_DEVICE_ADDR", 440, {
    F("VIRT_STATIC_ADDR", 0, 6, "rw", TRUE), F("VIRT_STATIC_ADDR_VALID", 15, 15, "rw", TRUE),
    F("VIRT_DYNAMIC_ADDR", 16, 22, "rw", TRUE), F("VIRT_DYNAMIC_ADDR_VALID", 31, 31, "rw", TRUE)}),
  Reg("STBY_CR_MWL", 444, {Z("MWL", 0, 15, "r", TRUE, {8})}),
  Reg("STBY_CR_MRL", 448, {Z("MRL", 0, 15, "r", TRUE, {8}), Z("IBIL", 16, 23, "r", TRUE, {20})})}

Tti1 == {
  Reg("EXTCAP_HEADER", 512, {
    Z("CAP_ID", 0, 7, "r", FALSE, {2, 6, 7}), Z("CAP_LENGTH", 8, 23, "r", FALSE, {14})}),
  Reg("CONTROL", 516, {
    Z("HJ_EN", 10, 10, "rw", TRUE, {10}), F("CRR_EN", 11, 11, "rw", TRUE),
    Z("IBI_EN", 12, 12, "rw", TRUE, {12}), F("IBI_RETRY_NUM", 13, 15, "rw", FALSE)}),
  Reg("STATUS", 520, {F("PROTOCOL_ERROR", 8, 8, "r", TRUE), F("LAST_IBI_STATUS", 12, 14, "r", TRUE)})}

Tti2 == {
  Reg("RESET_CONTROL", 524, {
    F("SOFT_RST", 0, 0, "rw", TRUE), F("TX_DESC_RST", 1, 1, "rw", TRUE), F("RX_DESC_RST", 2, 2, "rw", TRUE),
    F("TX_DATA_RST", 3, 3, "rw", TRUE), F("RX_DATA_RST", 4, 4, "rw", TRUE),
    F("IBI_QUEUE_RST", 5, 5, "rw", TRUE), F("IBI_RETRY_CTR_RST", 6, 6, "w", FALSE)})}

Tti3 == {
  Reg("QUEUE_STATUS", 528, {
    F("RX_DESC_QUEUE_FULL", 0, 0, "r", TRUE), Z("RX_DESC_QUEUE_EMPTY", 1, 1, "r", TRUE, {1}),
    F("TX_DESC_QUEUE_FULL", 2, 2, "r", TRUE), Z("TX_DESC_QUEUE_EMPTY", 3, 3, "r", TRUE, {3}),
    F("RX_DATA_QUEUE_FULL", 4, 4, "r", TRUE), Z("RX_DATA_QUEUE_EMPTY", 5, 5, "r", TRUE, {5}),
    F("TX_DATA_QUEUE_FULL", 6, 6, "r", TRUE), Z("TX_DATA_QUEUE_EMPTY", 7, 7, "r", TRUE, {7}),
    F("IBI_QUEUE_FULL", 8, 8, "r", TRUE), Z("IBI_QUEUE_EMPTY", 9, 9, "r", TRUE, {9})}),
  Reg("DESC_QUEUE_DEPTH", 532, {
    F("RX_DESC_QUEUE_DEPTH", 0, 7, "r", TRUE), F("TX_DESC_QUEUE_DEPTH", 8, 15, "r", TRUE)})}

Tti4 == {
  Reg("DATA_QUEUE_DEPTH", 536, {
    F("RX_DATA_QUEUE_DEPTH", 0, 7, "r", TRUE), F("TX_DATA_QUEUE_DEPTH", 8, 15, "r", TRUE)}),
  Reg("IBI_QUEUE_DEPTH", 540, {F("IBI_QUEUE_DEPTH", 0, 7, "r", TRUE)})}

Tti5 == {
  Reg("INTERRUPT_STATUS", 544, {
    F("RX_DESC_STAT", 0, 0, "w1c", TRUE), F("TX_DESC_STAT", 1, 1, "w1c", TRUE),
    F("RX_DESC_TIMEOUT", 2, 2, "w1c", TRUE), F("TX_DESC_TIMEOUT", 3, 3, "w1c", TRUE),
    F("TX_DATA_THLD_STAT", 8, 8, "w1c", TRUE), F("RX_DATA_THLD_STAT", 9, 9, "w1c", TRUE),
    F("TX_DESC_THLD_STAT", 10, 10, "w1c", TRUE), F("RX_DESC_THLD_STAT", 11, 11, "w1c", TRUE),
    F("IBI_THLD_STAT", 12, 12, "w1c", TRUE), F("IBI_DONE", 13, 13, "w1c", TRUE),
    F("PENDING_INTERRUPT", 16, 19, "rw", TRUE), F("PENDING_IBI", 20, 20, "r", TRUE),
    F("TRANSFER_ABORT_STAT", 25, 25, "w1c", TRUE), F("TX_DESC_COMPLETE", 26, 26, "w1c", TRUE),
    F("TRANSFER_ERR_STAT", 31, 31, "w1c", TRUE)})}

Tti6 == {
  Reg("INTERRUPT_ENABLE", 548, {
    F("RX_DESC_STAT_EN", 0, 0, "rw", FALSE), F("TX_DESC_STAT_EN", 1, 1, "rw", FALSE),
    F("RX_DESC_TIMEOUT_EN", 2, 2, "rw", FALSE), F("TX_DESC_TIMEOUT_EN", 3, 3, "rw", FALSE),
    F("TX_DATA_THLD_STAT_EN", 8, 8, "rw", FALSE), F("RX_DATA_THLD_STAT_EN", 9, 9, "rw", FALSE),
    F("TX_DESC_THLD_STAT_EN", 10, 10, "rw", FALSE), F("RX_DESC_THLD_STAT_EN", 11, 11, "rw", FALSE),
    F("IBI_THLD_STAT_EN", 12, 12, "rw", FALSE), F("IBI_DONE_EN", 13, 13, "rw", FALSE),
    F("TRANSFER_ABORT_STAT_EN", 25, 25, "rw", FALSE), F("TX_DESC_COMPLETE_EN", 26, 26, "rw", FALSE),
    F("TRANSFER_ERR_STAT_EN", 31, 31, "rw", FALSE)})}

Tti7 == {
  Reg("INTERRUPT_FORCE", 552, {
    F("RX_DESC_STAT_FORCE", 0, 0, "rw", FALSE), F("TX_DESC_STAT_FORCE", 1, 1, "rw", FALSE),
    F("RX_DESC_TIMEOUT_FORCE", 2, 2, "rw", FALSE), F("TX_DESC_TIMEOUT_FORCE", 3, 3, "rw", FALSE),
    F("TX_DATA_THLD_FORCE", 8, 8, "rw", FALSE), F("RX_DATA_THLD_FORCE", 9, 9, "rw", FALSE),
    F("TX_DESC_THLD_FORCE", 10, 10, "rw", FALSE), F("RX_DESC_THLD_FORCE", 11, 11, "rw", FALSE),
    F("IBI_THLD_FORCE", 12, 12, "rw", FALSE), F("IBI_DONE_FORCE", 13, 13, "rw", FALSE),
    F("TRANSFER_ABORT_STAT_FORCE", 25, 25, "rw", FALSE), F("TX_DESC_COMPLETE_FORCE", 26, 26, "rw", FALSE),
    F("TRANSFER_ERR_STAT_FORCE", 31, 31, "rw", FALSE)})}

Tti8 == {
  Reg("TARGET_ERR_CTRL", 556, {
    Z("TE0_ERR_DET_EN", 0, 0, "rw", FALSE, {0}), Z("TE1_ERR_DET_EN", 1, 1, "rw", FALSE, {1}),
    Z("TE2_ERR_DET_EN", 2, 2, "rw", FALSE, {2}), Z("TE3_ERR_DET_EN", 3, 3, "rw", FALSE, {3}),
    Z("TE4_ERR_DET_EN", 4, 4, "rw", FALSE, {4}), Z("TE5_ERR_DET_EN", 5, 5, "rw", FALSE, {5}),
    Z("FRAMING_ERR_DET_EN", 6, 6, "rw", FALSE, {6}), Z("RI_PEC_ERR_DET_EN", 7, 7, "rw", FALSE, {7}),
    Z("RI_LENGTH_ERR_DET_EN", 8, 8, "rw", FALSE, {8}), Z("RI_READONLY_ERR_DET_EN", 9, 9, "rw", FALSE, {9}),
    Z("RI_UNSUPPORTED_ERR_DET_EN", 10, 10, "rw", FALSE, {10}),
    Z("RI_RX_FIFO_OVERFLOW_ERR_DET_EN", 11, 11, "rw", FALSE, {11}),
    Z("RI_INDIRECT_FIFO_OVERFLOW_ERR_DET_EN", 12, 12, "rw", FALSE, {12})})}

Tti9 == {
  Reg("TARGET_ERR_INTR_STATUS", 560, {
    F("TE0_ERR_STAT", 1, 1, "w1c", TRUE), F("TE1_ERR_STAT", 2, 2, "w1c", TRUE),
    F("TE2_ERR_STAT", 3, 3, "w1c", TRUE), F("TE3_ERR_STAT", 4, 4, "w1c", TRUE),
    F("TE4_ERR_STAT", 5, 5, "w1c", TRUE), F("TE5_ERR_STAT", 6, 6, "w1c", TRUE),
    F("FRAMING_ERR_STAT", 7, 7, "w1c", TRUE), F("RI_PEC_ERR_STAT", 8, 8, "w1c", TRUE),
    F("RI_LENGTH_ERR_STAT", 9, 9, "w1c", TRUE), F("RI_READONLY_ERR_STAT", 10, 10, "w1c", TRUE),
    F("RI_UNSUPPORTED_ERR_STAT", 11, 11, "w1c", TRUE), F("RI_RX_FIFO_OVERFLOW_ERR_STAT", 12, 12, "w1c", TRUE),
    F("RI_INDIRECT_FIFO_OVERFLOW_ERR_STAT", 13, 13, "w1c", TRUE)})}

Tti10 == {
  Reg("TARGET_ERR_INTR_ENABLE", 564, {
    F("TE0_ERR_EN", 1, 1, "rw", FALSE), F("TE1_ERR_EN", 2, 2, "rw", FALSE), F("TE2_ERR_EN", 3, 3, "rw", FALSE),
    F("TE3_ERR_EN", 4, 4, "rw", FALSE), F("TE4_ERR_EN", 5, 5, "rw", FALSE), F("TE5_ERR_EN", 6, 6, "rw", FALSE),
    F("FRAMING_ERR_EN", 7, 7, "rw", FALSE), F("RI_PEC_ERR_EN", 8, 8, "rw", FALSE),
    F("RI_LENGTH_ERR_EN", 9, 9, "rw", FALSE), F("RI_READONLY_ERR_EN", 10, 10, "rw", FALSE),
    F("RI_UNSUPPORTED_ERR_EN", 11, 11, "rw", FALSE), F("RI_RX_FIFO_OVERFLOW_ERR_EN", 12, 12, "rw", FALSE),
    F("RI_INDIRECT_FIFO_OVERFLOW_ERR_EN", 13, 13, "rw", FALSE)})}

Tti11 == {
  Reg("TARGET_ERR_INTR_FORCE", 568, {
    F("TE0_ERR_FORCE", 1, 1, "rw", FALSE), F("TE1_ERR_FORCE", 2, 2, "rw", FALSE),
    F("TE2_ERR_FORCE", 3, 3, "rw", FALSE), F("TE3_ERR_FORCE", 4, 4, "rw", FALSE),
    F("TE4_ERR_FORCE", 5, 5, "rw", FALSE), F("TE5_ERR_FORCE", 6, 6, "rw", FALSE),
    F("FRAMING_ERR_FORCE", 7, 7, "rw", FALSE), F("RI_PEC_ERR_FORCE", 8, 8, "rw", FALSE),
    F("RI_LENGTH_ERR_FORCE", 9, 9, "rw", FALSE), F("RI_READONLY_ERR_FORCE", 10, 10, "rw", FALSE),
    F("RI_UNSUPPORTED_ERR_FORCE", 11, 11, "rw", FALSE), F("RI_RX_FIFO_OVERFLOW_ERR_FORCE", 12, 12, "rw", FALSE),
    F("RI_INDIRECT_FIFO_OVERFLOW_ERR_FORCE", 13, 13, "rw", FALSE)}),
  Reg("TARGET_ERR_CNT_TE0", 572, {F("CNT", 0, 7, "rw", TRUE)})}

Tti12 == {
  Reg("TARGET_ERR_CNT_TE1", 576, {F("CNT", 0, 7, "rw", TRUE)}),
  Reg("TARGET_ERR_CNT_TE2", 580, {F("CNT", 0, 7, "rw", TRUE)}),
  Reg("TARGET_ERR_CNT_TE3", 584, {F("CNT", 0, 7, "rw", TRUE)}),
  Reg("TARGET_ERR_CNT_TE4", 588, {F("CNT", 0, 7, "rw", TRUE)}),
  Reg("TARGET_ERR_CNT_TE5", 592, {F("CNT", 0, 7, "rw", TRUE)}),
  Reg("TARGET_ERR_CNT_FRAMING", 596, {F("CNT", 0, 7, "rw", TRUE)}),
  Reg("TARGET_ERR_CNT_RI_PEC", 600, {F("CNT", 0, 7, "rw", TRUE)}),
  Reg("TARGET_ERR_CNT_RI_LENGTH", 604, {F("CNT", 0, 7, "rw", TRUE)}),
  Reg("TARGET_ERR_CNT_RI_READONLY", 608, {F("CNT", 0, 7, "rw", TRUE)}),
  Reg("TARGET_ERR_CNT_RI_UNSUPPORTED", 612, {F("CNT", 0, 7, "rw", TRUE)})}

Tti13 == {
  Reg("TARGET_ERR_CNT_RI_RX_FIFO_OVERFLOW", 616, {F("CNT", 0, 7, "rw", TRUE)}),
  Reg("TARGET_ERR_CNT_RI_INDIRECT_FIFO_OVERFLOW", 620, {F("CNT", 0, 7, "rw", TRUE)}),
  Reg("RX_DESC_QUEUE_PORT", 624, {F("RX_DESC", 0, 31, "r", TRUE)}),
  Reg("RX_DATA_PORT", 628, {F("RX_DATA", 0, 31, "r", TRUE)}),
  Reg("TX_DESC_QUEUE_PORT", 632, {F("TX_DESC", 0, 31, "w", FALSE)}),
  Reg("TX_DATA_PORT", 636, {F("TX_DATA", 0, 31, "w", FALSE)}),
  Reg("IBI_PORT", 640, {F("IBI_DATA", 0, 31, "w", FALSE)}),
  Reg("QUEUE_SIZE", 644, {
    Z("RX_DESC_BUFFER_SIZE", 0, 7, "r", FALSE, {0, 2}), Z("TX_DESC_BUFFER_SIZE", 8, 15, "r", FALSE, {8, 10}),
    Z("RX_DATA_BUFFER_SIZE", 16, 23, "r", FALSE, {16, 18}),
    Z("TX_DATA_BUFFER_SIZE", 24, 31, "r", FALSE, {24, 26})})}

Tti14 == {
  Reg("IBI_QUEUE_SIZE", 648, {Z("IBI_QUEUE_SIZE", 0, 7, "r", FALSE, {0, 2})}),
  Reg("QUEUE_THLD_CTRL", 652, {
    Z("TX_DESC_THLD", 0, 7, "rw", TRUE, {0}), Z("RX_DESC_THLD", 8, 15, "rw", TRUE, {8}),
    Z("IBI_THLD", 24, 31, "rw", TRUE, {24})}),
  Reg("DATA_BUFFER_THLD_CTRL", 656, {
    Z("TX_DATA_THLD", 0, 2, "rw", FALSE, {0}), Z("RX_DATA_THLD", 8, 10, "rw", FALSE, {8}),
    Z("TX_START_THLD", 16, 18, "rw", FALSE, {16}), Z("RX_START_THLD", 24, 26, "rw", FALSE, {24})})}

SocMgmt1 == {
  Reg("EXTCAP_HEADER", 768, {
    Z("CAP_ID", 0, 7, "r", FALSE, {0, 6, 7}), Z("CAP_LENGTH", 8, 23, "r", FALSE, {9, 11, 12})}),
  Reg("SOC_MGMT_CONTROL", 772, {F("PLACEHOLDER", 0, 31, "rw", FALSE)}),
  Reg("SOC_MGMT_STATUS", 776, {F("PLACEHOLDER", 0, 31, "rw", FALSE)}),
  Reg("REC_INTF_CFG", 780, {F("REC_INTF_BYPASS", 0, 0, "rw", FALSE), F("REC_PAYLOAD_DONE", 1, 1, "rw", TRUE)}),
  Reg("REC_INTF_REG_W1C_ACCESS", 784, {
    F("DEVICE_RESET_CTRL", 0, 7, "rw", TRUE), F("RECOVERY_CTRL_ACTIVATE_REC_IMG", 8, 15, "rw", TRUE),
    F("INDIRECT_FIFO_CTRL_RESET", 16, 23, "rw", TRUE)}),
  Reg("SOC_MGMT_RSVD_2", 788, {F("PLACEHOLDER", 0, 31, "rw", FALSE)}),
  Reg("SOC_MGMT_RSVD_3", 792, {F("PLACEHOLDER", 0, 31, "rw", FALSE)})}

SocMgmt2 == {
  Reg("SOC_PAD_CONF", 796, {
    Z("INPUT_ENABLE", 0, 0, "rw", FALSE, {0}), F("SCHMITT_EN", 1, 1, "rw", FALSE),
    F("KEEPER_EN", 2, 2, "rw", FALSE), F("PULL_DIR", 3, 3, "rw", FALSE), F("PULL_EN", 4, 4, "rw", FALSE),
    F("IO_INVERSION", 5, 5, "rw", FALSE), F("OD_EN", 6, 6, "rw", FALSE), F("VIRTUAL_OD_EN", 7, 7, "rw", FALSE),
    Z("PAD_TYPE", 24, 31, "rw", FALSE, {24})}),
  Reg("SOC_PAD_ATTR", 800, {
    Z("DRIVE_SLEW_RATE", 8, 15, "rw", FALSE, {8, 9, 10, 11}),
    Z("DRIVE_STRENGTH", 24, 31, "rw", FALSE, {24, 25, 26, 27})}),
  Reg("SOC_MGMT_FEATURE_2", 804, {F("PLACEHOLDER", 0, 31, "rw", FALSE)}),
  Reg("SOC_MGMT_FEATURE_3", 808, {F("PLACEHOLDER", 0, 31, "rw", FALSE)})}

SocMgmt3 == {
  Reg("T_R_REG", 812, {F("T_R", 0, 19, "rw", FALSE)}),
  Reg("T_F_REG", 816, {F("T_F", 0, 19, "rw", FALSE)}),
  Reg("T_SU_DAT_REG", 820, {F("T_SU_DAT", 0, 19, "rw", FALSE)}),
  Reg("T_SU_DAT_I2C_REG", 824, {F("T_SU_DAT_I2C", 0, 19, "rw", FALSE)}),
  Reg("T_HD_DAT_REG", 828, {F("T_HD_DAT", 0, 19, "rw", FALSE)}),
  Reg("T_HIGH_REG", 832, {F("T_HIGH", 0, 19, "rw", FALSE)}),
  Reg("T_HIGH_OD_REG", 836, {F("T_HIGH_OD", 0, 19, "rw", FALSE)}),
  Reg("T_HIGH_INIT_OD_REG", 840, {F("T_HIGH_INIT_OD", 0, 19, "rw", FALSE)}),
  Reg("T_HIGH_I2C_REG", 844, {F("T_HIGH_I2C", 0, 19, "rw", FALSE)}),
  Reg("T_LOW_REG", 848, {F("T_LOW", 0, 19, "rw", FALSE)})}

SocMgmt4 == {
  Reg("T_LOW_OD_REG", 852, {F("T_LOW_OD", 0, 19, "rw", FALSE)}),
  Reg("T_LOW_I2C_REG", 856, {F("T_LOW_I2C", 0, 19, "rw", FALSE)}),
  Reg("T_HD_STA_REG", 860, {F("T_HD_STA", 0, 19, "rw", FALSE)}),
  Reg("T_HD_STA_I2C_REG", 864, {F("T_HD_STA_I2C", 0, 19, "rw", FALSE)}),
  Reg("T_HD_RSTA_REG", 868, {F("T_HD_RSTA", 0, 19, "rw", FALSE)}),
  Reg("T_SU_STA_REG", 872, {F("T_SU_STA", 0, 19, "rw", FALSE)}),
  Reg("T_SU_STA_I2C_REG", 876, {F("T_SU_STA_I2C", 0, 19, "rw", FALSE)}),
  Reg("T_SU_STO_REG", 880, {F("T_SU_STO", 0, 19, "rw", FALSE)}),
  Reg("T_SU_STO_I2C_REG", 884, {F("T_SU_STO_I2C", 0, 19, "rw", FALSE)}),
  Reg("T_DS_OD_REG", 888, {F("T_DS_OD", 0, 19, "rw", FALSE)})}

SocMgmt5 == {
  Reg("T_FREE_REG", 892, {Z("T_FREE", 0, 31, "rw", FALSE, {2, 3})}),
  Reg("T_FREE_I2C_REG", 896, {Z("T_FREE_I2C", 0, 31, "rw", FALSE, {2, 3})}),
  Reg("T_AVAL_REG", 900, {Z("T_AVAL", 0, 31, "rw", FALSE, {2, 3, 5, 8})}),
  Reg("T_IDLE_REG", 904, {Z("T_IDLE", 0, 31, "rw", FALSE, {5, 6, 9, 11, 13, 14, 15})}),
  Reg("HDR_TIMEOUT_EN_REG", 908, {F("HDR_TIMEOUT_EN", 0, 0, "rw", FALSE)}),
  Reg("T_HDR_TIMEOUT_REG", 912, {Z("T_HDR_TIMEOUT", 0, 19, "rw", FALSE, {5, 6, 9, 11, 13, 14, 15})})}

CtrlCfg1 == {
  Reg("EXTCAP_HEADER", 920, {Z("CAP_ID", 0, 7, "r", FALSE, {1}), Z("CAP_LENGTH", 8, 23, "r", FALSE, {9})}),
  Reg("CONTROLLER_CONFIG", 924, {Z("OPERATION_MODE", 4, 5, "r", TRUE, {4})}),
  Reg("TERMINATION_EXTCAP_HEADER", 928, {
    F("CAP_ID", 0, 7, "r", FALSE), Z("CAP_LENGTH", 8, 23, "r", FALSE, {8})})}

Dat1 == {
  Reg("DAT_MEMORY", 1024, {
    F("STATIC_ADDRESS", 0, 6, "rw", FALSE), F("IBI_PAYLOAD", 12, 12, "rw", FALSE),
    F("IBI_REJECT", 13, 13, "rw", FALSE), F("CRR_REJECT", 14, 14, "rw", FALSE), F("TS", 15, 15, "rw", FALSE),
    F("DYNAMIC_ADDRESS", 16, 23, "rw", TRUE), F("RING_ID", 26, 28, "rw", FALSE),
    F("DEV_NACK_RETRY_CNT", 29, 30, "rw", FALSE), F("DEVICE", 31, 31, "rw", FALSE),
    M("AUTOCMD_MASK", 32, 0, 7, "rw", FALSE), M("AUTOCMD_VALUE", 40, 8, 15, "rw", FALSE),
    M("AUTOCMD_MODE", 48, 16, 18, "rw", FALSE), M("AUTOCMD_HDR_CODE", 51, 19, 26, "rw", FALSE)})}

Dct1 == {
  Reg("DCT_MEMORY", 2048, {
    F("PID_HI", 0, 31, "r", TRUE), M("PID_LO", 32, 0, 15, "r", TRUE), M("DCR", 64, 0, 7, "r", TRUE),
    M("BCR", 72, 8, 15, "r", TRUE), M("DYNAMIC_ADDRESS", 96, 0, 7, "r", TRUE)})}

Registers ==
  UNION {I3CBase1, I3CBase2, I3CBase3, I3CBase4, I3CBase5, I3CBase6, I3CBase7,
         PioControl1, PioControl2, PioControl3, PioControl4, PioControl5,
         Recovery1, Recovery2, Recovery3, Recovery4, Recovery5,
         Standby1, Standby2, Standby3, Standby4, Standby5, Standby6, Standby7, Standby8,
         Tti1, Tti2, Tti3, Tti4, Tti5, Tti6, Tti7, Tti8, Tti9, Tti10, Tti11, Tti12, Tti13, Tti14,
         SocMgmt1, SocMgmt2, SocMgmt3, SocMgmt4, SocMgmt5,
         CtrlCfg1}

\* The entries of the device tables, wider than a register.
Entries == Dat1 \cup Dct1

\* The queue ports: a read or a write there pops or pushes a queue, and no test
\* goes through a field of one.
Ports == {"COMMAND_PORT", "RESPONSE_PORT", "TX_DATA_PORT", "RX_DATA_PORT", "IBI_PORT",
          "INDIRECT_FIFO_DATA", "RX_DESC_QUEUE_PORT", "TX_DESC_QUEUE_PORT"}
=============================================================================
