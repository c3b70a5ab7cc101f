---------------------------- MODULE MCWaitClock ----------------------------
\* A clock of five ticks a second, for TLC; the date may be set back or on.
EXTENDS WaitClock

MCSettings == {-7, 7}
=============================================================================
