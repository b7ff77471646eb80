------------------------------ MODULE MCPoller ------------------------------
\* Poller for TLC.  Nothing distinguishes two channels, and every property of the
\* run is a safety property: channels are a symmetry set.
EXTENDS Poller, TLC

ChannelSymmetry == Permutations(Channel)
=============================================================================
