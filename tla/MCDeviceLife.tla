---------------------------- MODULE MCDeviceLife ----------------------------
EXTENDS DeviceLife
CONSTANTS main, web, plain, other, fatal
MCThreads == {main, web}
MCSettings == {plain, other, fatal}
MCBad == {fatal}
MCKept == {0, 1}
=============================================================================
