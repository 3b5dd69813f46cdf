-------------------------- MODULE MCDeviceManager --------------------------
EXTENDS DeviceManager, TLC

\* m_gen_cnt bounds the number of DM info writes explored.
GenBound == genCnt <= MaxGen
=============================================================================
