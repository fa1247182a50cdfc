------------------------------- MODULE MCCalls --------------------------------
EXTENDS Calls

\* A count that does not fit a usize, no device, one device.
MCNumDevices == {-1, 0, 1}
===============================================================================
