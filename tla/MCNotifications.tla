-------------------------- MODULE MCNotifications --------------------------
EXTENDS Notifications

AllChannels == [p \in Plan |-> Channel]
CoversAll == [w \in Window |-> Issue]
=============================================================================
