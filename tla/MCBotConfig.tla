----------------------------- MODULE MCBotConfig ----------------------------
EXTENDS BotConfig
=============================================================================
