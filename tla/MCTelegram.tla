----------------------------- MODULE MCTelegram -----------------------------
\* The parts of the bot beside its router, gateway and databases, one of which a
\* behaviour exercises: the dialog of the Telegram demo scene, the market plot that
\* one of its jobs draws, and the life of the configuration.
EXTENDS TelegramDemoscene, MarketPlot, BotConfig

VARIABLE part
mcVars == <<part, telegramVars, plotVars, vars>>

\* Days in order, twice the same day, out of order, and too few days.
MCDays == {<<1, 2, 3, 4, 5>>, <<1, 1, 2, 3, 4>>, <<2, 1, 3, 3>>, <<1, 1, 2, 2>>}

\* In tenths of a cent, about R$ 10,00, where labels get a digit more: steps below
\* and above three cents, whole and half cents, and spans that fit or do not.
MCPrices == {9980, 9995, 10010, 10025, 10800}
MCResponses ==
    UNION {{[i \in DOMAIN days |-> [day |-> days[i], price |-> prices[i]]] :
                prices \in [DOMAIN days -> MCPrices]} : days \in MCDays}

MCInit == part \in {"demoscene", "plot", "config"} /\ DemosceneInit /\ PlotInit /\ Init

MCNext ==
    \/ part = "demoscene" /\ DemosceneNext /\ UNCHANGED <<part, plotVars, vars>>
    \/ part = "plot" /\ PlotNext /\ UNCHANGED <<part, telegramVars, vars>>
    \/ part = "config" /\ Next /\ UNCHANGED <<part, telegramVars, plotVars>>

MCSpec == MCInit /\ [][MCNext]_mcVars /\ DemosceneFairness
=============================================================================
