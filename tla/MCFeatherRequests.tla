------------------------- MODULE MCFeatherRequests -------------------------
(* A download, a request that may be any change or another download, and a look
   at the state, for two slots; the ticket counter is about to wrap.  The device
   starts with a saved run of three lines and may record another of as many. *)
EXTENDS FeatherRequests

MCKinds == <<{"download"}, {"download", "erase", "format"}, {"info"}>>
MCSavedRun ==
    <<HeadOf(1),
      [kind |-> "row", runId |-> 1, logSeq |-> 1, acqSeq |-> 1, ms |-> 0,
       intervalFault |-> FALSE, terminal |-> FALSE, gap |-> FALSE],
      Footer("complete", 1, 1)>>
=============================================================================
