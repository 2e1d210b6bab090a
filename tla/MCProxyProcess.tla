--------------------------- MODULE MCProxyProcess ---------------------------
(* ProxyProcess with files and flags on either side of the limits.         *)
EXTENDS ProxyProcess

File(mode, down, mtu, strip, len) ==
  [mode |-> mode, downstream_fragment_size |-> down, upstream_fragment_size |-> 60000,
   framed_mtu |-> mtu, strip_framed_mtu |-> strip, max_message_len |-> len,
   output_dir |-> "output"]

MCConfigs ==
  {File("reassemble", 1000, 60000, FALSE, 262144), File("reassemble", 65000, Nil, FALSE, 4096),
   File("reassemble", 1, 1, TRUE, 262144), File("passthrough", 1000, 60000, TRUE, 262144),
   File("relay", 1000, Nil, FALSE, 262144), File("reassemble", 65001, Nil, FALSE, 262144),
   File("reassemble", 1000, Nil, FALSE, 4095), File("reassemble", 1000, Nil, Nil, 262144)}

MCInvocations ==
  [config : {"config.yaml"}, mode : {Nil, "passthrough"},
   fragment_size : {Nil, 0}, framed_mtu : {Nil, 4000, 65001}, strip_framed_mtu : BOOLEAN,
   output_dir : {Nil}]
  \cup
  [config : {"lab.yaml"}, mode : {Nil, "reassemble"},
   fragment_size : {Nil}, framed_mtu : {Nil, 4000}, strip_framed_mtu : BOOLEAN,
   output_dir : {Nil, "elsewhere"}]
=============================================================================
