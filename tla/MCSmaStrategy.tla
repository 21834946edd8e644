---------------------------- MODULE MCSmaStrategy ----------------------------
\* A short and a long window of 2 and 3 ticks over three prices.
EXTENDS SmaStrategy
MCPrices == {-2, 0, 1}
==============================================================================
