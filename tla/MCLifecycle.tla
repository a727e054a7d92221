----------------------------- MODULE MCLifecycle -----------------------------
EXTENDS Lifecycle

Good == [sockets |-> {"udp", "tcp"}, enableUdp |-> TRUE, enableTcp |-> TRUE, tls |-> FALSE,
         counts |-> 1, texts |-> "clean", pollTimeout |-> 1, lookupTimeout |-> MaxMillis]

\* Two configurations that start, and one per reason for a refusal.
MCConfigs ==
    { Good, [Good EXCEPT !.sockets = {"tcp"}, !.enableUdp = FALSE],
      [Good EXCEPT !.sockets = {}], [Good EXCEPT !.enableUdp = FALSE],
      [Good EXCEPT !.enableTcp = FALSE], [Good EXCEPT !.sockets = {"tls"}],
      [Good EXCEPT !.sockets = {"tls"}, !.tls = TRUE, !.enableUdp = FALSE, !.enableTcp = FALSE],
      [Good EXCEPT !.counts = 0], [Good EXCEPT !.texts = "control"],
      [Good EXCEPT !.pollTimeout = 0], [Good EXCEPT !.lookupTimeout = MaxMillis + 1] }
=============================================================================
