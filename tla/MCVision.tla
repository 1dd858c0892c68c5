------------------------------- MODULE MCVision -------------------------------
EXTENDS Vision
MCUsers == {"kpu", "tft", "i2s"}
MCFlashChn == {0}
MCKinds == {"command", "half"}
===============================================================================
