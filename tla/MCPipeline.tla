------------------------------ MODULE MCPipeline ------------------------------
\* Small instances of Pipeline for TLC.
EXTENDS Pipeline

MCSymbolOf == [n \in 1..MaxTicks |-> "BTC"]
===============================================================================
