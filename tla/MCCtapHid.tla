------------------------------ MODULE MCCtapHid ------------------------------
(* CtapHid on a small instance: two channels besides the broadcast channel.  *)
EXTENDS CtapHid

CONSTANTS a, b

MCChannels == {a, b, BROADCAST}

\* Messages of three and of two packets, whose parts are what interleaves ...
Long == {<<a, "CBOR", 5>>, <<b, "CBOR", 3>>}

\* ... and packets that are answered at once.
Short ==
  {<<a, "PING", 2>>, <<a, "CANCEL", 0>>, <<a, "INIT", 2>>, <<a, "unknown", 2>>,
   <<b, "CBOR", 2>>, <<b, "KEEPALIVE", 0>>, <<b, "MSG", 1>>,
   <<BROADCAST, "INIT", 2>>, <<BROADCAST, "INIT", 1>>}

MCInitials == Long \cup Short

MCSubsequents == {<<a, 0>>, <<a, 1>>, <<b, 0>>}

\* A bound: at most one short message.
OneShort ==
  Cardinality({i \in 1 .. Len(log) : <<log[i].ch, log[i].cmd, log[i].len>> \in Short}) <= 1
=============================================================================
