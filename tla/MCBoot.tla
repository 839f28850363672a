------------------------------- MODULE MCBoot -------------------------------
(***************************************************************************)
(* Software for Chip8Boot: what a driver of the boot page may write, and    *)
(* everything.                                                              *)
(***************************************************************************)
EXTENDS Chip8Boot

MCLbas == {0, 1}

Ctrl(bits) == [reg |-> "BOOT_CTRL", bits |-> bits]

(* Restarts, another block, another length (0 stands for the largest).      *)
Driver ==
  {Ctrl({"ENABLE", "START"}), Ctrl({"ENABLE"}), [reg |-> "BOOT_LBA", val |-> 1],
   [reg |-> "BOOT_LENGTH", val |-> 0], [reg |-> "BOOT_LENGTH", val |-> 3],
   [reg |-> "UART_TX"]}
Anything ==
  Driver \cup {Ctrl({}), Ctrl({"START"}), Ctrl({"ENABLE", "RELEASE"}), Ctrl({"RELEASE"}),
               [reg |-> "SD_START"], [reg |-> "SD_LBA", val |-> 1],
               [reg |-> "SD_LENGTH", val |-> 1], [reg |-> "SD_LENGTH", val |-> 4]}

SdReads == {[reg |-> "SD_START"]}
=============================================================================
