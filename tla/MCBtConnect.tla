----------------------------- MODULE MCBtConnect -----------------------------
(***************************************************************************)
(* Instances of BtConnect for TLC.                                         *)
(***************************************************************************)
EXTENDS BtConnect

AllOpcodes == {"reset", "load_firmware", "write_ram", "launch_ram", "read_bd_addr",
               "write_local_name", "read_local_name", "read_buffer_size",
               "create_connection", "write_scan_enable", "accept_connection_request"}
=============================================================================
