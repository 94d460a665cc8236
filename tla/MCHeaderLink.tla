----------------------------- MODULE MCHeaderLink -----------------------------
(***************************************************************************)
(* Headers at the edges of their fields: lengths around one, two and three *)
(* bytes, the 22-bit mask and beyond; every command; every flag.           *)
(***************************************************************************)
EXTENDS HeaderLink

Lengths == {0, 255, 256, 65536, 4194303, 4194304, 2147483647}

\* perform_handshake and send_message.
MCClientHeader ==
  [cmd_len : Lengths, reserved : {0}, is_signed : {TRUE},
   is_encrypted_pubkey : {FALSE}, is_encrypted_channel : {TRUE},
   proto_cmd : {CommandCode["SubmitPow"]}]
  \cup
  [cmd_len : {8}, reserved : {0}, is_signed : {TRUE},
   is_encrypted_pubkey : {FALSE}, is_encrypted_channel : {TRUE},
   proto_cmd : {CommandCode[cmd] : cmd \in Command}]
  \cup
  [cmd_len : {300}, reserved : {0}, is_signed : {TRUE},
   is_encrypted_pubkey : {TRUE}, is_encrypted_channel : {FALSE},
   proto_cmd : {CommandCode["Handshake"]}]

\* A peer may set any bit.
MCPeerHeader ==
  [cmd_len : {17, 4194303}, reserved : {0, 3}, is_signed : BOOLEAN,
   is_encrypted_pubkey : BOOLEAN, is_encrypted_channel : {TRUE},
   proto_cmd : {2, 31}]

MCFirstKey == {{}, {0, 9, 18, 27}, 0 .. 31}
==============================================================================
