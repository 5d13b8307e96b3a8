---------------------------- MODULE MC_ConnParser ----------------------------
EXTENDS ConnParser

MCKeys   == {"src", "dst"}
MCVals   == {"v"}
MCProtos == {"tcp", "udp"}
=============================================================================
