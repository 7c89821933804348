--------------------------------- MODULE MCBot --------------------------------
EXTENDS Bot

\* Receipts do not depend on the credentials: where they are enabled, the bot has its
\* last pairing from the start, so that the two do not multiply.
Apart == enabled => folder = "absent" /\ credsRow = LastPairing /\ archivable

MCInit == BotInit /\ Apart

MCSpec == MCInit /\ [][BotNext]_botVars /\ BotFairness
===============================================================================
