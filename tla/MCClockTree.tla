---------------------------- MODULE MCClockTree ----------------------------
(* ClockTree for TLC, with its frequencies in Hz.                          *)
EXTENDS ClockTree

Request(src, target) == [source |-> src, target |-> target]
MCRequests ==
  {Request("HSI", 100000000), Request("HSE", 100000000), Request("HSI", 84000000),
   Request("HSE", 50000000), Request("HSI", 33000000), Request("HSI", 64000000),
   Request("HSI", 16000000), Request("HSI", 120000000), Request("HSE", 30000001),
   Request("HSE", 8000000), Request("HSI", 0)}
=============================================================================
