-------------------------- MODULE MCTelegramGateway -------------------------
EXTENDS TelegramGateway

\* The second update of each user is no MO (one without a sender, say).
UnmappedUpdates == {<<u, 2>> : u \in Users}
=============================================================================
